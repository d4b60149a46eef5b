CONSTANTS
  a = a
  b = b
  r1 = r1
  r2 = r2
  r3 = r3
  r4 = r4
  t1 = t1
  t2 = t2
  Nil = Nil
  Org = {a, b}
  Id = {r1, r2, r3, r4}
  Tx = {t1, t2}
  Limit = {0, 1}
SPECIFICATION Spec
SYMMETRY Symmetry
CONSTRAINTS
  PlansChangeAlone
  FourthRowRefers
INVARIANTS
  ReferencesStayInOrg
  OvershootBounded
PROPERTY
  RowsChangeFromWithin
