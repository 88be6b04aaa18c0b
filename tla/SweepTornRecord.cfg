SPECIFICATION Spec
CONSTANTS
  ALL <- OneAll
  Threads <- OneThreads
  Pipelines <- MCPipelines
  Perf <- MCPerf
  Runs = 1
  Engines <- OneEngines
  Shapes <- OneShapes
  Plan <- OnePlan
  TRIES = 2
  GIVE_UP = 2
  PATIENCE = 1
  RetryFlags = {FALSE}
  ForceFlags = {}
  Faults = {"kill"}
  MaxFaults = 2
INVARIANTS
  KilledSweepRestarts
