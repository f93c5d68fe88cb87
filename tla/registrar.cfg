\* Three registrars that wander between three threads and are used in any order.
SPECIFICATION Spec
CONSTANTS
  Threads = {t1, t2, t3}
  Registrars = {r1, r2, r3}
  None = none
SYMMETRY Symmetry
\* The threads end.
CHECK_DEADLOCK FALSE
INVARIANTS
  TypeOK
  InstrumentedIsSampled
  WellUsedNeverPanics
  WellUsedIsTracked
