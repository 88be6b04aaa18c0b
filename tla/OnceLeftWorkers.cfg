SPECIFICATION Spec
CONSTANTS
  Groups = {g1, g2}
  Orphans = TRUE
INVARIANTS
  ConfirmedGone
