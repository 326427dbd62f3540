SPECIFICATION Spec
CONSTANTS
  LastSequence = 1
  LeaseTicks = 1
  MaxLead = 1
  MaxTtl = 2
  MaxGeneration = 1
  Callers = {c1}
INVARIANTS
  RegisterIsBounded
PROPERTIES
  ImplementsLease
  CallsEnd
