SPECIFICATION Spec
CONSTANTS
  MaxSend = 3
  MaxReceive = 2
CHECK_DEADLOCK FALSE
INVARIANTS
  TransportInv
PROPERTIES
  NoDanglingFrame
  NoCallbackAfterReturn
  ImplementsFifoChannel
  CallsReturn
