CONSTANTS
  a = a
  b = b
  Unknown = Unknown
  Names <- MCNames
  MaxRules = 2
SPECIFICATION Spec
INVARIANTS
  TypeOK
  LoadRefusesInvalid
  ChallengesRegistered
CHECK_DEADLOCK FALSE
