CONSTANTS
  u1 = u1
  u2 = u2
  o1 = o1
  o2 = o2
  s1 = s1
  s2 = s2
  v1 = v1
  v2 = v2
  v3 = v3
  Nil = Nil
  User = {u1, u2}
  Org = {o1, o2}
  Session = {s1, s2}
  Visit = {v1, v2}
  RoleChoice = {"ADMIN", "VIEWER"}
  MaxChanges = 3
SPECIFICATION Spec
SYMMETRY Symmetry
PROPERTY
  OwnersAmongThemselves
