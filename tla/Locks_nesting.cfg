SPECIFICATION LocksSpec
CONSTANTS
  T1 = T1
  T2 = T2
  T3 = T3
  T4 = T4
  Threads = {T1, T2, T3, T4}
  Unlocked = Unlocked
  Symbols = {"AMZN", "GOOG"}
  MapOrder <- SortedOrder
  MAX_ROOM_CAPACITY = 2
SYMMETRY ThreadSymmetry
INVARIANTS
  NoCircularWait
  LockOrder
