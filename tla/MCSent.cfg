SPECIFICATION Spec
CONSTANTS
  Time <- ShortTime
  TimeMin <- ShortTimeMin
  debounceDelay = 2
  BlinkPeriod = 1
  MessagePeriod = 2
  Wrap = 16
  MaxLag = 1
  MarkUnit = 1
  MaxTimeMark = 100
  RevisionModulus = 1
  HourOffsets = {0}
INVARIANT SentIsShown
CHECK_DEADLOCK FALSE
