SPECIFICATION Spec
CONSTANTS
  Owners = {o1, o2}
  Cells = 15
  HDR = 2
  MaxAlign = 2
  Aligns = {2, 4}
  Sizes = {1, 3}
  Bits = 4
  VFS_PATH_MAX = 7
  ALIGN = 2
  INFO = 4
  STR = 4
  PAGE = 16
  MaxSplit = 5
  MaxPieces = 2
  MaxPath = 7
  MaxArgs = 2
  MaxText = 3
  Frames = {1, 2, 3, 5}
  Nodes = {n1, n2, n3}
  Wakers = {w1, w2}
  Nil = Nil
  Dangling = Dangling
INVARIANTS StringsExact NormalizeExact StartupIntact BlocksKept
PROPERTY ImplementsListSpec
CHECK_DEADLOCK FALSE
SYMMETRY OwnerSymmetry
