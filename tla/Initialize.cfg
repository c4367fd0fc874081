CONSTANTS
  Thread = {t1, t2}
  Root = Root
  OBObject = OBObject
  OFObject = OFObject
  OWController = OWController
  OBPostLoader = OBPostLoader
  Class = {Root, OBObject, OFObject, OWController, OBPostLoader}
  nil = nil
  Superclass <- Hierarchy
  Sends <- Messages
  Trivial = {OWController}
  Forks = TRUE
SPECIFICATION LiveSpec
INVARIANTS OneInitializer Contiguous
PROPERTIES UsableOnReturn EveryMessageReturns
CHECK_DEADLOCK FALSE
