SPECIFICATION Spec
CONSTANTS
  Clients = 2
  MaxFrames <- FewFrames
  ClientFrames <- LongName
  Divided <- Halves
  Burst = 2
  Endings <- Ends
  RoomNames = {"r"}
  Size <- Sizes
  MaxPayload = 3
  SocketRoom = 1
INVARIANT
  Survives
CHECK_DEADLOCK FALSE
