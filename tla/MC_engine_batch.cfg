CONSTANTS
  cam1 = cam1
  e1 = e1
  e2 = e2
  e3 = e3
  t1 = t1
  t2 = t2
  Nil = Nil
  Camera = {cam1}
  EventId = {e1, e2, e3}
  Tx = {t1, t2}
  EventType <- PersonTypes
  Request <- PersonRequests
  RuleChoice <- PersonRules
  CorrelationWindow = 1
  DefaultCooldown = 1
  MaxTime = 0
SPECIFICATION Spec
SYMMETRY Symmetry
INVARIANTS
  AlertedExactlyOnce
  CommittedWasPublished
