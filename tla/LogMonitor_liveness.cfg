SPECIFICATION FairSpec
CONSTANTS
  T1 = T1
  T2 = T2
  Threads = {T1, T2}
  NoThread = NoThread
  Levels = {"ERROR_L"}
  Quantities = {2}
  WritesFail = FALSE
  MaxLines = 2
  MaxRuns = 2
  MaxShort = 2
  RecentTrades = 1
  RecentLogs = 1
INVARIANT EverythingLogged
PROPERTIES
  RowsStay
  CatchesUp
