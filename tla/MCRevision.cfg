SPECIFICATION V2ISpec
CONSTANTS
  Time <- PeriodTime
  TimeMin <- PeriodTimeMin
  debounceDelay = 1
  BlinkPeriod = 1
  MessagePeriod = 1
  Wrap = 5
  MaxLag = 1
  MarkUnit = 1
  MaxTimeMark = 100
  RevisionModulus = 6
  HourOffsets = {0}
  MaxLosses = 0
PROPERTY RevisionTells
CHECK_DEADLOCK FALSE
