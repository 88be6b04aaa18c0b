SPECIFICATION RunningSpec
CONSTANTS
  ALL <- TwoAll
  Threads <- TwoThreads
  Pipelines <- MCPipelines
  Perf <- MCPerf
  Runs = 1
  Engines <- TwoEngines
  Shapes <- TwoShapes
  Plan <- TwoPlan
  TRIES = 2
  GIVE_UP = 2
  PATIENCE = 1
  RetryFlags = {FALSE, TRUE}
  ForceFlags = {FALSE, TRUE}
  Faults = {"kill"}
  MaxFaults = 1
INVARIANTS
  TriesAreCapped
  JournalNamesEveryFailure
PROPERTIES
  OkMeansMeasured
  KeepsThePromise
  WholeFilesAreKept
  SessionEnds
