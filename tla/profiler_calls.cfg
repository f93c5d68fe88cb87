\* One thread, longer sequences of calls, markers and samples,
\* with sampling paused in between.
SPECIFICATION Spec
CONSTANTS
  Threads = {t1}
  Controls = {"PauseSampling"}
  MaxControls = 1
  MaxMarkers = 2
  MaxCalls = 4
  MaxSamples = 2
\* The system may stop: every party can finish, and wait_for_one_sample can block.
CHECK_DEADLOCK FALSE
INVARIANTS
  Lockstep
  WaitSeesSample
  MarkersInOrder
