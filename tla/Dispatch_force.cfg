SPECIFICATION Spec
CONSTANTS
  Threads = {t1, t2}
  Machines <- SomeMachines
  Tables <- SomeTables
  None = None
  MaxConjuncts = 2
INVARIANT ForceHolds
