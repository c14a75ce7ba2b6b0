SPECIFICATION FoundationsSpec
CONSTANTS
  \* FirstBoot, Genesis
  Process = {p1, p2}
  NYears = 2
  NMonths = 1
  MaxPerMonth = 1
  Person = {f}
  Recent <- LastYear
  MaxFaults = 1
  MaxAttempts = 2
  MaxCommands = 2
  MaxCrashes = 1
  \* PastSimulation
  Period = 5
  PhaseCount = 2
  CompressedDays = 2
  MaxBlocks = 3
  Interval = 2
  MajorAllowance = 1
  MaxTurningPoints = 1
  MinBlocks = 2
  MinPeriodic = 2
  MaxNarrationFailures = 1
  \* Schema
  Opener = {p1, p2}
  Releases <- Programs
  \* DatabaseFiles
  Event = {e1, e2}
  MaxFileCommands = 2
  MaxFailures = 1
SYMMETRY Alike
CHECK_DEADLOCK FALSE
INVARIANTS
  BornWhole RelivingIsExplained
  CeilingsHold AlwaysAtAVersion NothingIsDeleted
PROPERTIES ServesItsOwnSchema
