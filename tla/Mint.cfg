SPECIFICATION Spec
CONSTANTS
  MaxConjuncts = 2
  ValidityFloor = 2
  NoStart = NoStart
  NotExact = NotExact
  MeasurableAbove = 2
  ResidentAbove = 4
  RoundsAsked = 2
  Leads <- TheLeads
  Few <- TheFew
  Wide <- TheWide
  Slate <- TheSlate
  Target <- TheTarget
  Ladder <- TheLadder
  Elected = "Avx2"
  Machine <- TheMachine
  MaxDisturbed = 2
  MaxForces = 1
  Corpora <- SomeCorpora
  MemoryFloor = 16
INVARIANTS
  PredictsWhatItTimed
  KeyedToWhatRan
  PrintsEveryColumn
CHECK_DEADLOCK FALSE
