SPECIFICATION Spec
CONSTANTS
  BlockCount = 3
  SCAN_BLOCK_BUFFERING_COUNT = 2
  Sources = {"primary", "oob"}
  BlockLengths = {1}
  MaxBlock = 6
  Lacking = {0, 1}
INVARIANTS
  FrameIsConsecutive
  NoLostWakeup
PROPERTIES
  PollReturns
