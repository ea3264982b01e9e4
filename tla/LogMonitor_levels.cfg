SPECIFICATION Spec
CONSTANTS
  T1 = T1
  Threads = {T1}
  NoThread = NoThread
  Levels = {"INFO", "ERROR_L"}
  Quantities = {2}
  WritesFail = FALSE
  MaxLines = 2
  MaxRuns = 1
  MaxShort = 2
  RecentTrades = 2
  RecentLogs = 1
INVARIANT LevelsKnown
