CONSTANTS
  VideoCount = 4
  Durations = {1, 2, 3, 4, 7}
  TransDuration = 2
SPECIFICATION Spec
INVARIANTS InstructionsTile LayersHaveMedia EverythingShown
CHECK_DEADLOCK FALSE
