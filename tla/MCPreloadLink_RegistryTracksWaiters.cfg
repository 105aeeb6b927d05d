CONSTANTS
  c1 = c1
  w1 = w1
  w2 = w2
  v1 = v1
  v2 = v2
  Clients <- MCClients
  Waiters <- MCWaiters
  Verifiers <- MCVerifiers
  MaxBucket = 1
  NoWaiter = NoWaiter
  NoKey = NoKey
  NonHex = NonHex
  KeyCodeRedirect = TRUE

SPECIFICATION Spec

INVARIANT RegistryTracksWaiters


CHECK_DEADLOCK FALSE
