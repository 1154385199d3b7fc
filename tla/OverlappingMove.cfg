SPECIFICATION FairSpec
CONSTANTS
  BufferSize = 6
  LineSizes = {1, 2, 4, 5, 6}
  MaxLines = 3
  MemcpyForward = FALSE
CHECK_DEADLOCK FALSE
INVARIANT
  LinesArriveIntact
