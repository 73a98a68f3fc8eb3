SPECIFICATION Spec
CONSTANTS
  Device = {d1}
  Socket = {s1, s2, s3}
  Timer = {i1, i2}
  Run = {u1, u2}
  None = None
SYMMETRY Symmetry
INVARIANTS TypeOK IdleIsExcused SocketIsKnown TwoSocketsNeedAnOverlap
CHECK_DEADLOCK FALSE
CONSTRAINT FewPending
