SPECIFICATION ForeignSpec
\* The kernel stops when it reads what is not there.
CHECK_DEADLOCK FALSE
SYMMETRY MCSymmetry
CONSTANTS
  i = i  g1 = g1  g2 = g2  f1 = f1  fn1 = fn1  fn2 = fn2
  s1 = s1  s2 = s2  p1 = p1  o1 = o1  id1 = id1  id2 = id2  t1 = t1  t2 = t2
  NULL = NULL
  Interceptor = {i, g1, g2}
  Bound = i
  Foreign = {g1, g2}
  Field = {f1}
  Function = {fn1, fn2}
  Mode <- MCMode
  Object = {p1, o1}
  Factory = {p1}
  Watching <- MCWatching
  DirectObject = {}
  Ops = {s1, s2}
  Given = {s1, s2}
  Copy = {c}
  Direct = {}
  AtPlace <- MCAtPlace
  Content <- MCContent
INVARIANTS ForeignRefsExact LastOnTop CallReaches BoundInTime PointersHeld NoBug
