SPECIFICATION Spec
CONSTANTS
  Threads = {t1, t2}
  NoThread = NoThread
  Values = {v1, v2}
  Unsupported = Unsupported
  Garbage = Garbage
  MaxId = 2
SYMMETRY Symmetry
CHECK_DEADLOCK FALSE
INVARIANTS
  CommandsInv
  AcknowledgedWriteIsStored
  AcknowledgedSetIsInEffect
  GetReturnsCurrentValue
  VerdictIsAboutImage
