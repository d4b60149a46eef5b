CONSTANTS
  MaxSources = 3
  MaxInFlight = 1
  BaseDelay = 3
  MaxDelay = 5
  SpawnMayFail = FALSE
  InferenceEnabled = TRUE
CHECK_DEADLOCK FALSE
SPECIFICATION FairSpec
INVARIANTS
  OneProcess
  KeepsTrying
PROPERTIES
  NoOutageAfterStop
  DroppedStreamRestarts
