SPECIFICATION V2ISpec
CONSTANTS
  Time <- TinyTime
  TimeMin <- TinyTimeMin
  debounceDelay = 1
  BlinkPeriod = 1
  MessagePeriod = 1
  Wrap = 32
  MaxLag = 1
  MarkUnit = 1
  MaxTimeMark = 12
  RevisionModulus = 1
  HourOffsets = {10}
  MaxLosses = 0
INVARIANT ReceivesFrames
CHECK_DEADLOCK FALSE
