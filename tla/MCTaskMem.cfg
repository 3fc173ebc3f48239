CONSTANTS
  Word = 64
  PageSize = 2
  USER_CODE_BASE = 4
  SearchBase = 6
  USER_STARTUP_BASE = 14
  USER_STACK_TOP = 20
  USER_VA_END = 22
  ProgramPages = 1
  StartupPages = 1
  StackPages = 1
  Spans <- MCSpans
  Frames <- MCFrames
  Addrs <- MCAddrs
  Lengths <- MCLengths
SPECIFICATION Spec
INVARIANTS MappingsExact FramesAccounted
CHECK_DEADLOCK FALSE
