SPECIFICATION ForestSpec
CONSTANTS
  Byte = {0, 1}
  Lanes = 4
  Cores <- WideCores
  MaxClosureSteps = 1000
  MaxCandidates = 64
  MaxConjuncts = 2
INVARIANT NoConjunctForNothing
CHECK_DEADLOCK FALSE
