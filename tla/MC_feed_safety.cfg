CONSTANTS
  t1 = t1
  t2 = t2
  Nil = Nil
  Tx = {t1}
  Report = {"CONNECTING", "ONLINE", "OFFLINE", "RECONNECTING", "AUTH_FAILED", "INVALID_STREAM"}
  MaxTests = 1
  MaxAlerts = 3
  MaxSources = 2
  MaxInFlight = 1
  BaseDelay = 1
  MaxDelay = 12
  SpawnMayFail = FALSE
  InferenceEnabled = FALSE
CHECK_DEADLOCK FALSE
SPECIFICATION Spec
CONSTRAINTS OneRefusal FewUnderWay
ACTION_CONSTRAINT GraceGoesOn
INVARIANTS
  OutagesNotInvented
  RecoveryIsReal
  OutageOnRecord
