SPECIFICATION Spec
CONSTANTS
  Pids = {p1, p2, p3}
  Overlap = FALSE
  MaxTicks = 3
  MaxBoots = 1
  MaxKills = 1
INVARIANTS
  OneHolder
  HolderIsNamed
PROPERTIES
  RecordIsObeyed
CHECK_DEADLOCK FALSE
SYMMETRY PidSymmetry
