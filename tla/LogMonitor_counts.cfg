SPECIFICATION Spec
CONSTANTS
  T1 = T1
  T2 = T2
  Threads = {T1, T2}
  NoThread = NoThread
  Levels = {"ERROR_L"}
  Quantities = {2}
  WritesFail = TRUE
  MaxLines = 2
  MaxRuns = 2
  MaxShort = 3
  RecentTrades = 0
  RecentLogs = 0
SYMMETRY ThreadSymmetry
INVARIANTS
  MonitorInv
  TradesCountedOnce
  LinesKeptTogether
