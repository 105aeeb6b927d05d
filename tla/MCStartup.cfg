CONSTANTS
  r1 = r1
  r2 = r2
  Requests <- MCRequests
  PassThrough = TRUE
  Network = "tcp"
  MaxRestarts = 1
SPECIFICATION Spec
INVARIANTS
  TypeOK
  NoBindConflict
PROPERTY
  StartupCompletes
CHECK_DEADLOCK FALSE
