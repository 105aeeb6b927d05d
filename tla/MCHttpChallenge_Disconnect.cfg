\* A client disconnects while the upstream stalls: the outbound call, made
\* without a context or timeout, keeps its handler.
CONSTANTS
  v1 = v1
  v2 = v2
  NoValue = NoValue
  Values <- MCValues
  ExpectedCookie = TRUE
  MaxBucket = 1
  MaxRequests = 3
  MaxRotations = 2
SPECIFICATION SpecStall
PROPERTY
  DisconnectReleasesHandler
CHECK_DEADLOCK FALSE
