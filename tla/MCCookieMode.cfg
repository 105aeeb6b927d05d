CONSTANTS
  MaxBucket = 3
  MaxSwitches = 2
SPECIFICATION Spec
INVARIANTS
  TypeOK
  NoRedirectLoop
  CookielessNeverPasses
PROPERTY
  CookieClientEventuallyPasses
CHECK_DEADLOCK FALSE
