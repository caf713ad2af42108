SPECIFICATION BuildSpec
CONSTANTS
  MaxConjuncts = 2
  ValidityFloor = 2
  NoStart = NoStart
  NotExact = NotExact
  NoLoose = NoLoose
  Instruments = {"Few"}
  Policies <- SomePolicies
  Stricts <- SomeStricts
  Looses <- SomeLooses
INVARIANTS
  PairArmsAsOne
  RefusalIsTrue
  ArmsOnCostsOnly
  MovesOneWay
CHECK_DEADLOCK FALSE
