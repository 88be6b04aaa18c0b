SPECIFICATION FiguresSpec
CONSTANTS
  Inputs <- MCCells
  FEWEST = 3
  sort_by <- InOrderOf
  sort_slice <- slice
  KIB = 4
  KILO = 3
  WORD = 1023
  U32 = 16
  TEN = 3
  DIGITS = 7
  TEN_MILLION = 21
  LEAST = 11
  SHARE = 2
  TOLERANCE = 10
  Files <- MCFiles
  Args <- MCArgs
  Machines <- MCMachines
  MILLE = 20
  OVER = 1
  Reports <- MCReports
  Which = {"sets"}
  PIPELINES = {1}
  PERCENTILES = {"P99"}
  ASSIGNED <- MCAssigned
  MOST = 8
  Corpora <- MCCorpora
  Modes = {"corrected", "upstream"}
INVARIANTS
  CorrectedIsRanked
  EnoughIsReadable
  UpstreamGetsAreRanked
  NobodyEvicts
  PinsAreApart
  RecordedIsDone
  NoisyAreNamed
  BarsRank
CHECK_DEADLOCK FALSE
