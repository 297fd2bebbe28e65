SPECIFICATION FairSpec
CONSTANTS
  CPU = {c1, c2, c3}
  NULL = NULL
INVARIANTS TypeOK MutualExclusion PanicIsJustified MisuseIsCaught
PROPERTIES ImplementsLock LockIsPassedOn
\* a CPU that panicked stays in the monitor for ever
CHECK_DEADLOCK FALSE
