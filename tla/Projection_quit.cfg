SPECIFICATION Spec
CONSTANTS
  Byte = {0, 1, 2}
  LastByte = 2
  Automata <- SmallAutomata
  MaxCoreStates = 3
  NoStart = NoStart
INVARIANT NoQuitStateInCore
CHECK_DEADLOCK FALSE
