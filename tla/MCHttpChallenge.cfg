\* The http mode with a required upstream cookie over three requests, two
\* windows and two cookie changes.  The client sends a bounded number of
\* requests and then stops, so deadlock is not checked.
CONSTANTS
  v1 = v1
  v2 = v2
  NoValue = NoValue
  Values <- MCValues
  ExpectedCookie = TRUE
  MaxBucket = 1
  MaxRequests = 3
  MaxRotations = 2
SPECIFICATION Spec
INVARIANTS
  TypeOK
  PassesOnlyApproved
CHECK_DEADLOCK FALSE
