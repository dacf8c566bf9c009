SPECIFICATION Spec
SYMMETRY ThreadSymmetry
CONSTANTS
  Threads = {t1}
  NoThread = NoThread
  Watchdogs = {}
  NoWatchdog = NoWatchdog
  MaxSeq = 5
  Configs <- ZeroCapacity
  Inputs = {1, 2, 3}
  MaxPushes = 4
PROPERTIES
  ReadyNeverEvicted
