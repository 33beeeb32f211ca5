SPECIFICATION FairSpec
CONSTANTS
  MSGHDRLEN = 2
  RECV_BUFFER_SIZE = 4
  LoginBuffer = 5
  LoginSize = 3
  Sizes = {2, 4}
  MaxFrames = 3
INVARIANTS TypeOK RoomToRead OnceInOrder InStep NoneLeftBehind
PROPERTIES CursorAdvances EverythingDecoded
CHECK_DEADLOCK FALSE
