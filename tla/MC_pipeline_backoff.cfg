CONSTANTS
  MaxSources = 3
  MaxInFlight = 1
  BaseDelay = 1
  MaxDelay = 12
  SpawnMayFail = FALSE
  InferenceEnabled = TRUE
CHECK_DEADLOCK FALSE
SPECIFICATION PipelineSpec
INVARIANT
  BackoffGrows
