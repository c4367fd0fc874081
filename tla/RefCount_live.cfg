CONSTANTS
  Thread = {t1, t2}
  Ref = {r1, r2, r3}
  Nobody = Nobody
  RC_HALF = 1
  MaxCalls = 6
SPECIFICATION LiveSpec
PROPERTIES EveryCallReturns DeallocCompletes
CHECK_DEADLOCK FALSE
