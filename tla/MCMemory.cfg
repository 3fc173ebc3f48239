CONSTANTS
  Procs = {1, 2}
  ByteBits = 2
  PageBytes = 2
  LargePages = 4
  Spans = {4, 16}
  MemMaps <- MCMemMaps
  Requests = {1, 2, 3}
SPECIFICATION Spec
INVARIANTS FramesExact HeapExact
CHECK_DEADLOCK FALSE
