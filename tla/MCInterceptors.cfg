SPECIFICATION Spec
CONSTANTS
  n = n  g1 = g1  g2 = g2  o1 = o1  o2 = o2  a1 = a1
  Normal = n
  Factory = {g1, g2}
  Object = {o1, o2, a1}
  Watchable <- MCWatchable
  OpsOf <- MCOpsOf
  Thread = {t1, t2}
INVARIANTS StartedWhenUsed HandlersStay FactoriesWithin AllOrNothing ListedExist
PROPERTIES UndoEnds
