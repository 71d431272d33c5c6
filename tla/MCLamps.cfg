SPECIFICATION FairSpec
CONSTANTS
  Time <- TinyTime
  TimeMin <- TinyTimeMin
  debounceDelay = 1
  BlinkPeriod = 1
  MessagePeriod = 1
  Wrap = 8
  MaxLag = 1
  MarkUnit = 1
  MaxTimeMark = 100
  RevisionModulus = 1
  HourOffsets = {0}
PROPERTIES
  EmergencyEnds
  EmergencyServed
  PedestrianServed
  GoesRound
  KeepsSending
CHECK_DEADLOCK FALSE
