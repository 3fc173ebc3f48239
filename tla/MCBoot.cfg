CONSTANTS
  p1 = p1
  p2 = p2
  p3 = p3
  Cpus <- MCCpus
  BSP = p2
SPECIFICATION BootSpec
INVARIANTS LoadedBeforeTasks PicMasked
PROPERTY BootCompletes
