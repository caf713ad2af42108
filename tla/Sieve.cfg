SPECIFICATION FairSpec
CONSTANTS
  Chunk = 8
  Regs = 2
  PerReg = {1, 2, 4}
  Scalar = Scalar
  Nibble = 4
  MaxFew = 2
  MaxWide = 8
  StepWidths = {1, 2, 3}
  Readings <- SomeReadings
INVARIANTS
  SlicesCompose
  LiveIsRun
  TablesExact
  JumpsAreExact
  RefutesAsScalar
PROPERTY
  Terminates
CHECK_DEADLOCK FALSE
