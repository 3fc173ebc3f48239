CONSTANTS
  Fan = 2
  Frames <- MCFrames
  KRoot = 20
  KVas = {9, 12}
  TVas = {2, 3, 5}
  Targets = {4}
  KSizes = {1, 2, 4}
SPECIFICATION Spec
INVARIANTS TablesExact TranslationsExact
PROPERTY ImplementsAddrSpec
CHECK_DEADLOCK FALSE
