SPECIFICATION Spec
CONSTANTS
  Groups = {g1, g2}
  Orphans = TRUE
INVARIANTS
  WrittenIsOwn
  GoneBeforeWritten
  NoCompany
  CountersAreWhole
PROPERTIES
  AttemptEnds
