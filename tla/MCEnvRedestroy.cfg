SPECIFICATION Spec
CONSTANTS
  CPU = {c0, c1}
  BootCPU = c0
  NENV = 2
  ENVGEN = 4
  INTLIM = 16
  Frame = {f1, f2}
  KERN = KERN
  NULL = NULL
  Redestroy = TRUE
  MaxBirths = 2
PROPERTIES ZombieFreedByItsTrap
CHECK_DEADLOCK FALSE
