SPECIFICATION FairSpec
CONSTANTS
  Threads = {t1, t2}
  Controls = {}
  MaxControls = 0
  MaxMarkers = 0
  MaxCalls = 2
  MaxSamples = 1
CHECK_DEADLOCK FALSE
PROPERTIES
  RequestsAnswered
  WaitReturns
  UnregisterTakesEffect
  ShutdownCompletes
