SPECIFICATION CodecSpec
CHECK_DEADLOCK FALSE
CONSTANTS
  Bytes = {0, 90, 255}
  MaxLength = 6
INVARIANT CrcIsPolynomialRemainder
INVARIANT Base64RoundTrip
INVARIANT DamagedPacketRejected
INVARIANT SamplesSurvive
