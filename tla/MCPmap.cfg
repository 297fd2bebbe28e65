SPECIFICATION Spec
CONSTANTS
  Page = {p1, p2, p3, p4, p5}
  N = 2
  U = 2
  RefMod = 4
  MaxMaps = 3
  NULL = NULL
SYMMETRY PageSymmetry
INVARIANTS TypeOK RefCountExact FramesAccounted TablesPrivate TlbCoherent PageFreeNeverPanics
PROPERTIES OneMappingAtATime
\* after a panic the kernel stays in the monitor
CHECK_DEADLOCK FALSE
