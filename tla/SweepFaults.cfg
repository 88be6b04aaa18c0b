SPECIFICATION PersistentSpec
CONSTANTS
  ALL <- OneAll
  Threads <- OneThreads
  Pipelines <- MCPipelines
  Perf <- MCPerf
  Runs = 1
  Engines <- OneEngines
  Shapes <- OneShapes
  Plan <- OnePlan
  TRIES = 4
  GIVE_UP = 3
  PATIENCE = 0
  RetryFlags = {FALSE}
  ForceFlags = {FALSE}
  Faults = {"kill", "write"}
  MaxFaults = 2
INVARIANTS
  AbandonedNeverRan
PROPERTIES
  HolesAreNamed
  Settles
