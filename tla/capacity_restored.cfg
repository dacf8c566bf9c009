SPECIFICATION Spec
SYMMETRY ThreadSymmetry
CONSTANTS
  Threads = {t1}
  NoThread = NoThread
  Watchdogs = {wd}
  NoWatchdog = NoWatchdog
  MaxSeq = 5
  Configs <- SmallConfigs
  Inputs = {1, 2, 3}
  MaxPushes = 4
PROPERTIES
  CapacityRestored
