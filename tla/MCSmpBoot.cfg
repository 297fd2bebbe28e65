SPECIFICATION Spec
CONSTANTS
  NCPU = 3
  Apic = {0, 1, 2, 3}
  Tables <- OrderedTables
  NULL = NULL
INVARIANTS TypeOK OwnStack OneAtATime BootcpuIsSelf
PROPERTIES AllComeUp
\* all processors up: nothing left to do
CHECK_DEADLOCK FALSE
