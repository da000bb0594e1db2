SPECIFICATION LiveSpec
CONSTANTS
  Clients = 2
  MaxFrames <- FewFrames
  ClientFrames <- Sensible
  Divided <- Halves
  Burst = 2
  Endings <- Ends
  RoomNames = {"r"}
  Size <- Sizes
  MaxPayload = 3
  SocketRoom = 1
INVARIANTS
  MembersAgree
  NoFrameLeftBehind
PROPERTIES
  ImplementsChatRooms
  SettlesInTheEnd
CHECK_DEADLOCK FALSE
