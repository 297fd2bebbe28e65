SPECIFICATION Spec
CONSTANTS
  CPU = {c0}
  BootCPU = c0
  NENV = 2
  ENVGEN = 4
  INTLIM = 16
  Frame = {f1, f2}
  KERN = KERN
  NULL = NULL
  Redestroy = FALSE
  MaxBirths = 5
SYMMETRY FrameSymmetry
INVARIANTS IdsValid IdsUnique
\* CPUs end up halted or in the monitor
CHECK_DEADLOCK FALSE
