SPECIFICATION Spec
CONSTANTS
  BlockCount = 3
  SCAN_BLOCK_BUFFERING_COUNT = 4
  Sources = {"primary"}
  BlockLengths = {1, 2}
  MaxBlock = 9
  Lacking = {0, 1, 3, 6}
INVARIANTS
  StreamInv
  FrameInOrder
  FrameSamples
  RecoversWithinTwoFrames
