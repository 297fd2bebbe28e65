SPECIFICATION Spec
CONSTANTS
  CPU = {c0, c1, c2}
  BootCPU = c0
  NENV = 4
  ENVGEN = 4
  INTLIM = 32
  Frame = {f1, f2, f3}
  KERN = KERN
  NULL = NULL
  Redestroy = FALSE
  MaxBirths = 2
SYMMETRY FrameSymmetry
INVARIANTS TypeOK RunningOwned Cr3Live FreeListExact IdleMeansNobody
PROPERTIES DestroyAuthorised
\* CPUs end up halted or in the monitor
CHECK_DEADLOCK FALSE
