CONSTANTS
  h1 = h1
  h2 = h2
  NoHost = NoHost
  Hosts <- MCHosts
  BackendHosts = {h1}
  Actions = {"PASS", "DROP", "DENY", "CODE", "CHALLENGE", "CONTEXT", "NONE"}
  MaxRules = 2
SPECIFICATION Spec
INVARIANTS
  TypeOK
  DecisionMatchesPolicy
CHECK_DEADLOCK FALSE
