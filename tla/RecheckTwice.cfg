SPECIFICATION Spec
CONSTANTS
  CellOrder <- OneCell
  Slots = 3
  FEWEST = 3
  MaxRuns = 3
  MaxApplies = 2
  MaxKills = 0
PROPERTIES
  EvidenceKept
