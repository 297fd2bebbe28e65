SPECIFICATION Spec
CONSTANTS
  NCPU = 3
  Apic = {0, 1, 2}
  Tables <- ReorderedTables
  NULL = NULL
INVARIANTS OneAtATime
\* all processors up: nothing left to do
CHECK_DEADLOCK FALSE
