CONSTANTS
  MaxSources = 2
  MaxInFlight = 1
  BaseDelay = 1
  MaxDelay = 12
  SpawnMayFail = TRUE
  InferenceEnabled = TRUE
CHECK_DEADLOCK FALSE
SPECIFICATION PipelineSpec
INVARIANT
  KeepsTrying
