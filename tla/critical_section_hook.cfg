\* Two cores whose sections overlap.
SPECIFICATION Spec
CONSTANTS
  Cores = {c1, c2}
  Threads = {t1, t2}
  None = none
SYMMETRY Symmetry
CHECK_DEADLOCK FALSE
INVARIANTS
  HookAlwaysRestored
