CONSTANTS
  Thread = {t1, t2, t3}
  o1 = o1
  o2 = o2
  o3 = o3
  Object = {o1, o2}
  Nobody = Nobody
  LockOrder <- AnyOrder
  Misuse = {"try_enter", "wrong_exit"}
  InitialSlots = 1
  MaxCount = 1
SPECIFICATION Spec
SYMMETRY Symmetry
VIEW View
INVARIANTS LockKept NotBuggy WaitsForItsObject MutualExclusion
CHECK_DEADLOCK FALSE
