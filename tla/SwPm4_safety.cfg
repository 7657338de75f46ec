\* No register, 0..2 (too few for a dispatch) or 0..5 are mapped; offsets modulo
\* 16, three levels of indirect buffers.
SPECIFICATION Pm4Spec
CONSTANTS
  Streams <- MCStreams
  Memories <- MCMemories
  Windows <- MCWindows
  Word = 16
  MmioSizes = {0, 3, 6}
  DispatchRegs = {0, 4}
  Low = 8
  Gc = 1
  MaxIb = 8
  MaxMove = 2
  MaxDepth = 3
CHECK_DEADLOCK FALSE
INVARIANTS
  StaysInside
  MovesOwned
  NothingMisread
PROPERTIES
  Ends
