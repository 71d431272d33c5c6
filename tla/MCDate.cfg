SPECIFICATION Spec
CONSTANTS
  Step = 47
INVARIANT DateIsToday
CHECK_DEADLOCK FALSE
