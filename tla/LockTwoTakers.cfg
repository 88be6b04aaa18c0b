SPECIFICATION Spec
CONSTANTS
  Pids = {p1, p2, p3}
  Overlap = TRUE
  MaxTicks = 3
  MaxBoots = 0
  MaxKills = 0
INVARIANTS
  OneHolder
CHECK_DEADLOCK FALSE
SYMMETRY PidSymmetry
