SPECIFICATION LoopSpec
CHECK_DEADLOCK FALSE
CONSTANTS
  worker = worker
  wd = wd
  NoResult = NoResult
  Threads = {worker}
  NoThread = NoThread
  Watchdogs = {wd}
  NoWatchdog = NoWatchdog
  MaxSeq = 8
  Configs <- SmallConfigs
  Inputs = {1, 2, 3, 4}
  MaxPushes = 8
  Simulations <- SmallSimulations
INVARIANTS
  GateOpenedAtStart
