CONSTANTS
  a = a
  b = b
  c = c
  d = d
  NULL = NULL
  Threads <- MCThreads
  Permits = 1
SPECIFICATION Spec
INVARIANTS MutualExclusion MutexWakeupPending WaitersListed PermitsConserved WaitersCounted
PROPERTIES MutexTaken PermitServed BroadcastWakes
CHECK_DEADLOCK FALSE
