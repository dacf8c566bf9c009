SPECIFICATION Spec
CHECK_DEADLOCK FALSE
CONSTANTS
  Argvs <- UpToFour
  Whole <- AsWhole
  Rate <- AsRate
  Throws = Throws
  MaxULL = 16777215
  MaxUL = 16777215
  MaxU32 = 65535
  MaxSize = 131071
INVARIANTS
  LastOneWins
  FirstFaultReported
  
  ExitTells
