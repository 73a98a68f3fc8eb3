CONSTANTS
  b1 = b1  b2 = b2
  c1 = c1  c2 = c2
  r1 = r1  r2 = r2
  None = None
  Builtin = {b1, b2}
  FirstDefault = b1
  Custom = {c1}
  Request = {r1, r2}
SPECIFICATION Spec
INVARIANTS TypeOK TwoDefaultsNeedARace DefaultLossIsExcused
SYMMETRY ConfigSymmetry
