SPECIFICATION Spec
CONSTANTS
  x = x
  y = y
  z = z
  Key <- MCKey
  Elem = {a, b, c}
  None = None
  BitsMax = 5
  hash_ptr <- MCHashPtr
INVARIANT ReallocKeeps
PROPERTIES FindsIt Implements
