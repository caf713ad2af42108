SPECIFICATION RatesSpec
CONSTANTS
  MaxConjuncts = 2
  ValidityFloor = 2
  NoStart = NoStart
  NotExact = NotExact
  ClassOf <- SomeClasses
  Support = 2
  Conjunctions <- SomeConjunctions
  Sweeps <- SomeSweeps
  Corpora <- SomeCorpora
  Iterations = 4
  Distributions <- SomeRows
INVARIANTS
  RatesAreExact
  ThinRowsReadAsWorst
CHECK_DEADLOCK FALSE
