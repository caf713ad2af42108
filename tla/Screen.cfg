SPECIFICATION ScreenSpec
CONSTANTS
  Byte = {0, 1}
  Lanes = 3
  MaxConjuncts = 2
  Cores <- SmallCores
  Partitions <- NumberedPartitions
  Letter = {0, 1}
  Holds <- HoldsAt
  Patterns <- SomePatterns
  MaxLen = 4
  Unbounded = Unbounded
  NoCandidate = NoCandidate
INVARIANTS
  Shadows
  NoneOpenAfterMatch
  RefutationIsProof
  Superset
  RelaxesWhatIsBounded
CHECK_DEADLOCK FALSE
