CONSTANTS
  o1 = o1
  NULL = NULL
  Objs <- MCObjs
  Rights = {"read"}
  MaxCap = 4
  InitCap = 3
  GenMax = 2
  MaxGot = 1
SPECIFICATION Spec
INVARIANTS FreeListExact RefcountExact
PROPERTY ImplementsCapSpec
CHECK_DEADLOCK FALSE
