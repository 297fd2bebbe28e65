SPECIFICATION Spec
CONSTANTS
  Page = {p1, p2, p3}
  N = 2
  U = 1
  RefMod = 4
  MaxMaps = 3
  NULL = NULL
INVARIANTS RegionAllocCompletes
CHECK_DEADLOCK FALSE
