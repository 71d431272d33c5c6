SPECIFICATION Spec
CONSTANTS
  Time <- ShortTime
  TimeMin <- ShortTimeMin
  debounceDelay = 3
  BlinkPeriod = 1
  MessagePeriod = 1
  Wrap = 20
  MaxLag = 1
  MarkUnit = 1
  MaxTimeMark = 100
  RevisionModulus = 2
  HourOffsets = {0}
INVARIANTS
  TypeOK
  EmergencyConsistent
  EmergencyBounded
  TruthfulFrame
  LampsConsistent
  PhaseBounded
  EmergencyReleased
  Inductive
PROPERTIES
  ImplementsSignal
  MinimumKept
  RequestKept
CHECK_DEADLOCK FALSE
