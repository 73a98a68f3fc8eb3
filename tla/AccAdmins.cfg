CONSTANTS
  a1 = a1  a2 = a2  u1 = u1
  t1 = t1  t2 = t2  t3 = t3
  p1 = p1  p2 = p2
  r1 = r1  r2 = r2
  None = None
  User = {a1, a2, u1}
  BootUser = {a1, a2}
  Token = {}
  Password = {p1}
  FirstPassword = p1
  Request = {r1, r2}
  Edit <- LossEdits
  Ops = {"login", "mfa", "profile", "edit", "delete", "crash"}
SPECIFICATION Spec
INVARIANTS AdminLossIsExcused
SYMMETRY RoleSymmetry
CHECK_DEADLOCK FALSE
CONSTRAINT MFAOfOne
