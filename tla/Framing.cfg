SPECIFICATION Spec
CHECK_DEADLOCK FALSE
CONSTANTS
  MESSAGE_LENGTH_MAX = 4
  MaxMessages = 3
  MaxDamage = 2
INVARIANT DeliveredIntactInOrder
INVARIANT LossIsExplained
INVARIANT ParserMakesProgress
