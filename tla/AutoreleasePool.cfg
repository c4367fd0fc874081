CONSTANTS
  Boundary = Boundary
  Object = Object
  None = None
  Options = {{}, {"DebugMissingPools"}, {"DebugMissingPools", "DebugPoolAllocation"}}
  PageSize = 2
  MaxEntries = 8
  MaxDepth = 2
SPECIFICATION Spec
INVARIANTS TokensValid PagesKept WhileCanBeIf
PROPERTIES Implements
