\* Two threads and a core that only uses what src/ exports for the purpose.
SPECIFICATION Spec
CONSTANTS
  Threads = {t1, t2}
  Controls = {}
  MaxControls = 0
  MaxMarkers = 1
  MaxCalls = 2
  MaxSamples = 1
SYMMETRY Symmetry
\* The system may stop: every party can finish, and wait_for_one_sample can block.
CHECK_DEADLOCK FALSE
INVARIANTS
  TypeOK
  PanicOnlyAfterStop
  SamplersConverge
  Attributable
  ProfileComplete
PROPERTIES
  ImplementsProfileLog
