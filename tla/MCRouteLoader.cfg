SPECIFICATION Spec
CONSTANTS
  Entries = {e0, e1, e2}
  FirstEntry = e0
  Loads = {l1, l2, l3}
  InitialLoad = l0
  MaxCaches = 3
SYMMETRY Symmetry
INVARIANTS
  ServesOwnPage
  NoStaleRoute
CHECK_DEADLOCK FALSE
