CONSTANTS
  Users = {u1, u2}
  Kernels = {k1}
  Idle = idle_task
  None = none
SPECIFICATION Spec
INVARIANTS PerCpuReached ReturnsHome OnOwnStack
PROPERTY EnabledAgain
