SPECIFICATION Spec
CHECK_DEADLOCK FALSE
CONSTANTS
  s1 = s1
  s2 = s2
  s3 = s3
  h1 = h1
  h2 = h2
  Services = {s1, s2, s3}
  Hosts = {h1, h2}
  HostOf <- MCHostOf
  MaxRequests = 5
INVARIANT NotifierInv
INVARIANT ResolvedOnceReportedOnce
INVARIANT StoppedOrOvertaken
PROPERTY StopReturns
