CONSTANTS
  c1 = c1
  c2 = c2
  v1 = v1
  v2 = v2
  p1 = p1
  p2 = p2
  p3 = p3
  Nil = Nil
  Camera = {c1, c2}
  Viewer = {v1, v2}
  Proc = {p1, p2}
  IdleTimeout = 1
  TokenTtl = 2
SPECIFICATION FairSpec
INVARIANT FreshTokenServes
