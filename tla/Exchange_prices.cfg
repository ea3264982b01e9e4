SPECIFICATION Spec
CONSTANTS
  T1 = T1
  T2 = T2
  M = M
  Traders = {T1, T2}
  Matcher = M
  Threads = {T1, T2, M}
  Symbols = {"AAPL"}
  StockList <- OneStock
  MapOrder <- OneStock
  OpenPrice <- DearOpen
  Cent = 1
  Pcts <- FivePercentLess
  Factors = {5, 100}
  Quantities = {1, 2}
  MAX_ROOM_CAPACITY = 2
  ORDERS_PER_TRADER = 1
  MAX_HISTORY = 1
  Unlocked = Unlocked
  NoSymbol = NoSymbol
SYMMETRY TraderSymmetry
INVARIANTS
  PriceFloor
  FinalReport
