SPECIFICATION Spec
CONSTANTS
  g1 = g1
  g2 = g2
  none = none
  Nobody <- none
  Groups <- Spare
  ALL <- Two
  Forking <- Forks
  MaxFaults = 1
SYMMETRY Alike
INVARIANTS
  RowsAreOwn
  RowsAreKept
  DeepMeansAnswered
