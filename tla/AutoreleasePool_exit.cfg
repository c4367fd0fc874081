CONSTANTS
  Boundary = Boundary
  Object = Object
  None = None
  Options = {{"DebugPoolAllocation"}}
  PageSize = 2
  MaxEntries = 8
  MaxDepth = 2
SPECIFICATION Spec
INVARIANTS ChildrenEmpty
