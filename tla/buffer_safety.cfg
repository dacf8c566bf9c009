SPECIFICATION Spec
SYMMETRY ThreadSymmetry
CONSTANTS
  Threads = {t1, t2}
  NoThread = NoThread
  Watchdogs = {wd}
  NoWatchdog = NoWatchdog
  MaxSeq = 7
  Configs <- SmallConfigs
  Inputs = {0, 1, 2, 3, 4, 5}
  MaxPushes = 5
INVARIANTS
  Conservation
  CapacityBound
  ExactlyOnce
  NothingVanishes
  LossesCounted
  GapsJustified
  EmittedInOrder
  FrontierAccounted
PROPERTIES
  EmitThroughOpenGate
  ReadyNeverEvicted
  IterationsRunOut
