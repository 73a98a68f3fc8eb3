CONSTANTS
  a1 = a1  a2 = a2  u1 = u1
  t1 = t1  t2 = t2  t3 = t3
  p1 = p1  p2 = p2
  r1 = r1  r2 = r2
  None = None
  User = {a1}
  BootUser = {a1}
  Token = {t1, t2, t3}
  Password = {p1}
  FirstPassword = p1
  Request = {r1, r2}
  Edit <- NoEdits
  Ops = {"login", "refresh"}
SPECIFICATION Spec
INVARIANT SingleUse
