SPECIFICATION FairSpec
CONSTANTS
  BufferSize = 6
  LineSizes = {1, 2, 4, 5, 6}
  MaxLines = 3
  MemcpyForward = TRUE
CHECK_DEADLOCK FALSE
INVARIANTS
  ReaderTypeOK
  LinesArriveIntact
  DroppedForAReason
PROPERTY
  NextBytesReleaseLine
