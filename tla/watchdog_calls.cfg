SPECIFICATION Spec
SYMMETRY ThreadSymmetry
CONSTANTS
  wd1 = wd1
  wd2 = wd2
  Threads = {t1, t2, t3}
  Watchdogs = {wd1, wd2}
  NoWatchdog = NoWatchdog
  Timeout <- ShortTimeouts
  NoBeat = NoBeat
  MaxTime = 3
INVARIANTS
  WatchdogTypeOK
  AgeNonNegative
PROPERTIES
  LastBeatMonotone
  ImplementsSemantics
