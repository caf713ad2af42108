SPECIFICATION FairForestSpec
CONSTANTS
  Byte = {0, 1}
  Lanes = 4
  Cores <- SmallCores
  MaxClosureSteps = 16
  MaxCandidates = 3
  MaxConjuncts = 2
INVARIANTS
  TypeOK
  Propagated
  NothingExtra
  CloseIsLeast
  KeptClosed
  StackBounded
  ParentsLeadToRep
PROPERTIES
  ImplementsHarvest
  Terminates
CHECK_DEADLOCK FALSE
