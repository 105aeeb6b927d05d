CONSTANTS
  r1 = r1
  r2 = r2
  Requests <- MCRequests
  PassThrough = TRUE
  Network = "unix"
  MaxRestarts = 1
SPECIFICATION Spec
INVARIANT ListenerNeverFatal
CHECK_DEADLOCK FALSE
