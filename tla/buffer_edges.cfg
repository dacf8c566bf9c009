SPECIFICATION FairSpec
CONSTANTS
  Threads = {t1, t2}
  NoThread = NoThread
  Watchdogs = {wd}
  NoWatchdog = NoWatchdog
  MaxSeq = 3
  Configs <- WrapConfigs
  Inputs = {0, 1, 2, 3}
  MaxPushes = 5
INVARIANTS
  TypeOK
  Conservation
  CapacityBound
  PendingAhead
PROPERTIES
  CallsReturn
  FrontierMoves
