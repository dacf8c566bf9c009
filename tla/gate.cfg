SPECIFICATION GuardedFairSpec
CONSTANTS
  wd1 = wd1
  wd2 = wd2
  Threads = {t1, t2}
  NoThread = NoThread
  Watchdogs = {wd1, wd2}
  NoWatchdog = NoWatchdog
  MaxSeq = 3
  Configs <- SmallConfigs
  Inputs = {1, 2}
  MaxPushes = 2
  Timeout <- ShortTimeouts
  NoBeat = NoBeat
  MaxTime = 2
  MaxCalls = 2
INVARIANTS
  GateWitnessed
  ConsultedStays
PROPERTIES
  OpensOnAnswer
  GateAnswers
