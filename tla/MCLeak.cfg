SPECIFICATION ReceptionSpec
CONSTANTS
  NoFrame = 0
  SocketSize = 2
  CountCap = 3
  MaxFrames = 5
INVARIANT NothingLeaks
CHECK_DEADLOCK FALSE
