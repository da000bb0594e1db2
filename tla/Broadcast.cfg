SPECIFICATION Spec
CONSTANTS
  Clients = 3
  MaxLines <- MCMaxLines
  Lines <- MCLines
  Endings <- MCEndings
  Lazy = {3}
  SocketRoom = 2
CHECK_DEADLOCK FALSE
INVARIANTS EntriesOwnTheirDescriptors
PROPERTIES ImplementsFeed EveryNoteArrives
