SPECIFICATION Spec
CONSTANTS
  p1 = p1  p2 = p2  p3 = p3  p4 = p4  m1 = m1
  open = open  read = read  lock = lock
  NULL = NULL
  Payload = {p1, p2, p3, p4}
  Module = {m1}
  ModuleOf <- MCModuleOf
  PreHandlers <- MCPreHandlers
  PostHandlers <- MCPostHandlers
  Offset = {open, read, lock}
  Operation = {open, read, lock}
  Group <- MCGroup
  InternalOnly = {}
  InterceptAll = TRUE
INVARIANTS NoBug
