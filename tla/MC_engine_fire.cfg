CONSTANTS
  cam1 = cam1
  e1 = e1
  e2 = e2
  e3 = e3
  t1 = t1
  t2 = t2
  Nil = Nil
  Camera = {cam1}
  EventId = {e1, e2}
  Tx = {t1, t2}
  EventType <- FireTypes
  Request <- FireRequests
  RuleChoice <- NoRules
  CorrelationWindow = 1
  DefaultCooldown = 2
  MaxTime = 2
SPECIFICATION Spec
SYMMETRY Symmetry
INVARIANTS
  CooldownTracksIncident
  UpgradedIsCritical
  UpgradeAlertsBounded
PROPERTY
  IncidentsOnlyEscalate
