CONSTANTS
  c1 = c1
  c2 = c2
  c3 = c3
  c4 = c4
  r1 = r1
  r2 = r2
  Nil = Nil
  Camera = {c1, c2, c3}
  Call = {r1}
  Limit = 2
  SecretChoice = {"both", "one"}
  DatabaseFails = TRUE
  MaxChanges = 3
  MaxPipelines = 2
SPECIFICATION FairSpec
INVARIANTS
  RunningIsManaged
  LimitHoldsAtRest
PROPERTIES
  DisabledStops
  EnabledStarts
