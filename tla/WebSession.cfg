SPECIFICATION Spec
CONSTANTS
  Tab = {t1, t2}
  Request = {r1, r2}
  Token = {k1, k2}
  None = None
INVARIANTS TypeOK SingleFlight RefreshesDoNotRace
PROPERTIES CredentialsSpec WaitersAreReleased
CHECK_DEADLOCK FALSE
