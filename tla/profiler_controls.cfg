\* The application uses the pub senders of a registrar: the messages nothing in
\* src/ sends arrive in between the others.
SPECIFICATION Spec
CONSTANTS
  Threads = {t1, t2}
  Controls = {"StopSampling", "ClearExpiredMarkers"}
  MaxControls = 1
  MaxMarkers = 1
  MaxCalls = 2
  MaxSamples = 0
SYMMETRY Symmetry
\* The system may stop: every party can finish, and wait_for_one_sample can block.
CHECK_DEADLOCK FALSE
INVARIANTS
  Endpoints
  ThreadsNeverPanic
  NoMarkerLost
PROPERTIES
  ImplementsProfileLog
