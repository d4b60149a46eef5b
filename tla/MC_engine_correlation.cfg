CONSTANTS
  cam1 = cam1
  e1 = e1
  e2 = e2
  e3 = e3
  t1 = t1
  t2 = t2
  Nil = Nil
  Camera = {cam1}
  EventId = {e1, e2, e3}
  Tx = {t1}
  EventType <- MixedTypes
  Request <- MixedRequests
  RuleChoice <- NoRules
  CorrelationWindow = 6
  DefaultCooldown = 3
  MaxTime = 5
SPECIFICATION Spec
INVARIANT
  FireAndSmokeCorrelated
