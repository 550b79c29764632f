SPECIFICATION Spec
CONSTANTS
  Width = 4
  Programs <- EmitPrograms
CHECK_DEADLOCK FALSE
INVARIANT RepeatsTwice
