CONSTANTS
  c1 = c1
  c2 = c2
  c3 = c3
  c4 = c4
  r1 = r1
  r2 = r2
  Nil = Nil
  Camera = {c1, c2}
  Call = {r1}
  Limit = 2
  SecretChoice = {"both", "one"}
  DatabaseFails = FALSE
  MaxChanges = 1
  MaxPipelines = 2
SPECIFICATION Spec
PROPERTY
  OthersUndisturbed
