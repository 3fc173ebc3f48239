CONSTANTS
  t1 = t1
  t2 = t2
  t3 = t3
  Idle = Idle
  Tasks <- MCTasks
  Boot <- MCBoot
  Delays = {1, 2}
SPECIFICATION Spec
CHECK_DEADLOCK FALSE
INVARIANT LiveTargetFound
