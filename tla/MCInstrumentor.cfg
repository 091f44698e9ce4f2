SPECIFICATION Spec
CONSTANTS
  i1 = i1  i2 = i2  f1 = f1  f2 = f2  fn1 = fn1  fn2 = fn2
  s1 = s1  s2 = s2
  NULL = NULL
  Interceptor = {i1, i2}
  Field = {f1, f2}
  Function = {fn1, fn2}
  Mode <- MCMode
  Object = {o1, o2}
  DirectObject = {}
  Ops = {s1, s2}
  Given = {s1, s2, NULL}
  Copy = {c1, c2, c3}
  Direct = {}
  AtPlace <- MCAtPlace
  Content <- MCContent
INVARIANTS RefsExact CopiesHeld Transparent PointersOwned
PROPERTIES Implements
