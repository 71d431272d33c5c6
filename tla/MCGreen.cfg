SPECIFICATION Spec
CONSTANTS
  Time <- TinyTime
  TimeMin <- TinyTimeMin
  debounceDelay = 1
  BlinkPeriod = 1
  MessagePeriod = 1
  Wrap = 16
  MaxLag = 1
  MarkUnit = 1
  MaxTimeMark = 100
  RevisionModulus = 1
  HourOffsets = {0}
INVARIANT GreenAlone
CHECK_DEADLOCK FALSE
