SPECIFICATION ThreadsFairSpec
CHECK_DEADLOCK FALSE
CONSTANTS
  worker = worker
  wd = wd
  NoResult = NoResult
  Threads = {worker}
  NoThread = NoThread
  Watchdogs = {wd}
  NoWatchdog = NoWatchdog
  MaxSeq = 6
  Configs <- SmallConfigs
  Inputs = {1, 2, 3}
  MaxPushes = 6
  Simulations <- SmallSimulations
  MaxSpurious = 2
INVARIANTS
  QueueIsTheRest
  WakeupOwed
PROPERTIES
  ModesAgree
  ThreadsEnd
  ConsumerWakes
