CONSTANTS
  Thread = {t1, t2}
  o1 = o1
  o2 = o2
  o3 = o3
  Object = {o1, o2, o3}
  Nobody = Nobody
  LockOrder <- OneOrder
  Misuse = {}
  InitialSlots = 1
  MaxCount = 2
  MaxCalls = 5
SPECIFICATION LiveSpec
INVARIANTS TypeOK CountsExact ExitReportsOwnership
PROPERTIES EveryCallReturns
CHECK_DEADLOCK FALSE
