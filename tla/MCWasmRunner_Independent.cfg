\* Two concurrent requests on one wasm challenge: the second instantiation
\* meets the first one's module name.
CONSTANTS
  q1 = q1
  q2 = q2
  NoRequest = NoRequest
  Requests <- MCRequests
SPECIFICATION Spec
INVARIANT InvocationsIndependent
CHECK_DEADLOCK FALSE
