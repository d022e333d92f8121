SPECIFICATION ReadingPeerSpec
CONSTANTS
  MaxSend = 2
  MaxReceive = 1
CHECK_DEADLOCK FALSE
PROPERTIES
  MessageReachesPeer
