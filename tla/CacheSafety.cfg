CONSTANTS
  s1 = s1  s2 = s2
  c1 = c1  c2 = c2
  p1 = p1  p2 = p2  p3 = p3
  None = None
  Server = {s1, s2}
  Call = {c1, c2}
  Policy = {p1, p2, p3}
  Default = p1
  Faults = {"read", "answer"}
SPECIFICATION Spec
INVARIANTS TypeOK StaleCacheIsExcused
SYMMETRY CacheSymmetry
