\* Two cores that sample two threads, which print, panic and end meanwhile.
SPECIFICATION Spec
CONSTANTS
  Cores = {c1, c2}
  Threads = {t1, t2}
  None = none
\* The process aborts, or hangs on the lock of stderr.
CHECK_DEADLOCK FALSE
INVARIANTS
  TypeOK
  HookRestored
PROPERTIES
  SuspensionEnds
