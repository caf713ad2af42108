SPECIFICATION BuildSpec
CONSTANTS
  MaxConjuncts = 2
  ValidityFloor = 2
  NoStart = NoStart
  NotExact = NotExact
  NoLoose = NoLoose
  Instruments = {"Few"}
  Policies <- SomePolicies
  Stricts <- SomeStricts
  Looses <- SomeLooses
INVARIANT NaNDeclines
CHECK_DEADLOCK FALSE
