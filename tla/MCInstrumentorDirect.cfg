SPECIFICATION Spec
CONSTANTS
  i1 = i1  i2 = i2  f1 = f1  f2 = f2  fn1 = fn1  fn2 = fn2
  d1 = d1  d2 = d2  d3 = d3
  NULL = NULL
  Interceptor = {i1, i2}
  Field = {f1, f2}
  Function = {fn1, fn2}
  Mode <- MCMode
  Object = {}
  DirectObject = {d1, d2, d3}
  Ops = {}
  Given = {}
  Copy = {}
  Direct = {i1, i2}
  AtPlace <- MCAtPlace
  Content <- MCContent
INVARIANTS NeverStacked Transparent
PROPERTIES NorestoreUntouched
