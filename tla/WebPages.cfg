CONSTANTS
  g1 = g1  g2 = g2
  f1 = f1  f2 = f2
  s1 = s1  s2 = s2
  w1 = w1  w2 = w2
  c1 = c1  c2 = c2
  Conv = {g1, g2}
  KindOf <- MCKindOf
  Fetch = {f1, f2}
  MaxMsg = 2
  Page = 1
  NoConv = NoConv
  Partner = {a, b}
  MaxDms = 2
  MaxRow = 2
  Query = {q1, q2}
  Save = {s1, s2}
  MaxChange = 2
  MaxMet = 2
  Ask = {k1, k2}
  MaxGen = 2
  m1 = m1  m2 = m2
  Method = {m1, m2}
  MaxMetMfa = 1
  FormCall = {w1, w2}
  MaxEdit = 2
  MaxMetForm = 1
  Call = {c1, c2}
  MaxDrawing = 2
  MaxWork = 2
  MaxMetDraw = 1
  Find = {h1, h2}
  MaxRange = 2
SPECIFICATION PagesSpec
INVARIANTS
  PagesTypeOK ThreadsAreInOrder ConversationsAreListed ListsAreCurrent ListChangesAreMeant
  CodesAndMethodsAreTold  DrawingsAreKept ReplaysCanBeLeft
SYMMETRY Exchanges
\* A run ends when its bounds are reached.
CHECK_DEADLOCK FALSE
