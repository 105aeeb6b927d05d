\* Every export table over the four checked functions, then two concurrent
\* requests of either kind.  Loading may reject the guest and the requests
\* end, so deadlock is not checked.
CONSTANTS
  q1 = q1
  q2 = q2
  NoRequest = NoRequest
  Requests <- MCRequests
SPECIFICATION Spec
INVARIANTS
  TypeOK
  CompileMatchesInterface
CHECK_DEADLOCK FALSE
