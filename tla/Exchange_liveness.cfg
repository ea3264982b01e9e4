SPECIFICATION FairSpec
CONSTANTS
  T1 = T1
  T2 = T2
  M = M
  Traders = {T1, T2}
  Matcher = M
  Threads = {T1, T2, M}
  Symbols = {"GOOG", "AMZN"}
  StockList <- StocksOrder
  MapOrder <- SortedOrder
  OpenPrice <- DearOpen
  Cent = 1
  Pcts <- NoLimits
  Factors = {100}
  Quantities = {1}
  MAX_ROOM_CAPACITY = 1
  ORDERS_PER_TRADER = 1
  MAX_HISTORY = 1
  Unlocked = Unlocked
  NoSymbol = NoSymbol
PROPERTIES
  Termination
  RoundCompletes
