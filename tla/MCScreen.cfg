SPECIFICATION V2ISpec
CONSTANTS
  Time <- TinyTime
  TimeMin <- TinyTimeMin
  debounceDelay = 1
  BlinkPeriod = 1
  MessagePeriod = 1
  Wrap = 8
  MaxLag = 1
  MarkUnit = 1
  MaxTimeMark = 100
  RevisionModulus = 1
  HourOffsets = {0}
  MaxLosses = 1
INVARIANT CarCatchesUp
PROPERTY EmergencyAnnounced
CHECK_DEADLOCK FALSE
