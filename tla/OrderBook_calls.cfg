SPECIFICATION Spec
CONSTANTS
  t1 = t1
  t2 = t2
  Threads = {t1, t2}
  Symbols = {"AAPL"}
  OpenPrice <- MCOpenPrice
  MAX_HISTORY = 1
  Unlocked = Unlocked
  NoSymbol = NoSymbol
  LimitPrices = {1, 3}
  NewPrices = {3}
  Quantities = {1, 2}
  MaxOrders = 3
SYMMETRY ThreadSymmetry
INVARIANTS
  OrderBookInv
  Conservation
  LimitsRespected
  LedgerBalances
  StockRange
PROPERTIES
  PriceTimePriority
  ImplementsMarket
