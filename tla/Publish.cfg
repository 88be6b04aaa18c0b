SPECIFICATION PSpec
CONSTANTS
  CellOrder <- OneCell
  Slots = 4
  FEWEST = 3
  MaxRuns = 5
  MaxApplies = 1
  MaxKills = 1
  MaxPacks = 2
  NamePlace <- AsNumbers
  RefusedPlace = 0
INVARIANTS
  RenumberedInOrder
  PublishedFollows
  RefusedAreNamed
  UnfinishedIsRefused
PROPERTIES
  EvidenceKept
  PackedIsComplete
  ChartsHaveEvidence
