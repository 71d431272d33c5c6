SPECIFICATION DatagramsSpec
CONSTANTS
  ToBytes <- uper_encode
  FromBytes <- uper_decode
  TmpSize = 32
  Debris = 255
  NumOfIntersections = 4
  Memory <- SomeMemory
  Contents <- SomeContents
  SocketSize = 2
  CountCap = 1
  MaxFrames = 3
INVARIANTS
  PacksFields
  RoundTrip
PROPERTIES
  ImplementsReception
  NeverBack
CHECK_DEADLOCK FALSE
