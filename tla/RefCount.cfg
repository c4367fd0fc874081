CONSTANTS
  Thread = {t1, t2, t3}
  Ref = {r1, r2, r3, r4}
  Nobody = Nobody
  RC_HALF = 1
SPECIFICATION Spec
SYMMETRY Symmetry
VIEW View
INVARIANTS TypeOK Conservation NoUseAfterFree SideTableClean AssertsHold MarkedWhileDeallocating BorrowIsNotLast NoOverrelease
PROPERTIES HasSidetableRcSticks LastReleaseDeallocates Implements
