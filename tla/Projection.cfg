SPECIFICATION FairSpec
CONSTANTS
  Byte = {0, 1, 2}
  LastByte = 2
  Automata <- SmallAutomata
  MaxCoreStates = 3
  NoStart = NoStart
INVARIANTS
  InternedIsQueue
  Faithful
  ClassesExact
  DeclineIsTrue
PROPERTY
  Terminates
CHECK_DEADLOCK FALSE
