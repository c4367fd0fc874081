CONSTANTS
  Thread = {t1, t2}
  t1 = t1
  v1 = v1
  o1 = o1
  o2 = o2
  Object = {o1, o2}
  Variable = {v1, v2}
  nil = nil
  Table = {1, 2}
  TableOf <- MCTableOf
  MaxCalls = 3
SPECIFICATION MCSpec
INVARIANTS EntriesExact
PROPERTIES EveryCallReturns Implements
CHECK_DEADLOCK FALSE
