CONSTANTS
  t1 = t1
  t2 = t2
  t3 = t3
  Nil = Nil
  Tx = {t1, t2}
  Report <- WorkerReports
  MaxAlerts = 4
CHECK_DEADLOCK FALSE
SPECIFICATION HealthSpec
INVARIANT
  RecoveryEndsOutage
