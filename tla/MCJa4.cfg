CONSTANTS
  c1 = c1
  c2 = c2
  Conns = {c1, c2}
  Nil = Nil
  MaxRequests = 1
  Hellos <- MCHellos

SPECIFICATION Spec

INVARIANT Ja4ALayout

CHECK_DEADLOCK FALSE
