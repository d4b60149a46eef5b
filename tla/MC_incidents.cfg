CONSTANTS
  r1 = r1
  r2 = r2
  r3 = r3
  c1 = c1
  c2 = c2
  n1 = n1
  n2 = n2
  v1 = v1
  Nil = Nil
  Request = {r1, r2, r3}
  Camera = {c1, c2}
  Rule = {n1, n2}
  Correlation = {"k"}
  MinSeverity <- Minimum
  Severity = {1, 2}
  Viewer = {v1}
  CacheTtl = 1
  RequestTime = 1
  MaxClock = 3
SPECIFICATION Spec
SYMMETRY Symmetry
CONSTRAINTS
  TwoIngests
  OneOperator
  RulesAlone
  DashboardApart
ACTION_CONSTRAINT SecondStays
INVARIANTS
  RetriesAgree
  FailsOnlyIfDisturbed
  RowsComplete
  DueRulesNotified
  AnnouncedAsPromised
  DashboardFresh
