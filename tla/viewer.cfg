SPECIFICATION Spec
CONSTANTS
  Last = 3
  MaxTimers = 3
INVARIANT ShownIsCurrent
PROPERTY AllShown
CHECK_DEADLOCK FALSE
