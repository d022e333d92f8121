SPECIFICATION OpenSpec
CONSTANTS
  Devices = {d1, d2}
  Ports = {p1, p2}
  NoPort = NoPort
INVARIANT OpenInv
INVARIANT FailedOpenIsClosed
