CONSTANTS
  Thread = {t1, t2}
  Super = Super
  Sub = Sub
  Class = {Super, Sub}
  nil = nil
  Superclass <- MCSuperclass
  SEL = {3, 7, 10}
  INIT_CACHE_SIZE = 4
  MAX_CACHE_SIZE = 8
  garbage_threshold = 8
  RestartableRanges = {TRUE, FALSE}
  Block <- MCBlock
  MaxSends = 3
  MaxChanges = 1
SPECIFICATION MCSpec
SYMMETRY Symmetry
INVARIANTS NoStrayRead RightMethod GuaranteedEmptySlot
CHECK_DEADLOCK FALSE
