SPECIFICATION LiveSpec
CONSTANTS
  Addr = {1}
  MaxFails = 1
  Streams <- MCStreams
  Sockets = {1, 2}
  LEN_BUF_RCV = 10
  Chunks = {8}
  MaxConns = 3
  MaxStarts = 1
INVARIANTS BusTypeOK RowsFollow FramesKept ToRegistrant
PROPERTIES NoSelfClose EveryFrameHandled
CHECK_DEADLOCK FALSE
