SPECIFICATION DashboardFairSpec
CONSTANTS
  T1 = T1
  M = M
  Traders = {T1}
  Matcher = M
  Threads = {T1, M}
  Symbols = {"AAPL"}
  StockList <- OneStock
  MapOrder <- OneStock
  OpenPrice <- DearOpen
  Cent = 1
  Pcts <- NoLimits
  Factors = {100}
  Quantities = {1}
  MAX_ROOM_CAPACITY = 1
  ORDERS_PER_TRADER = 2
  MAX_HISTORY = 1
  Unlocked = Unlocked
  NoSymbol = NoSymbol
  Buyer = T1
PROPERTY ReadsOnly
