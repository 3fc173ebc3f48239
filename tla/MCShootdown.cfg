CONSTANTS
  Procs = {p1, p2, p3}
  Cached = {a, b}
  None = None
SPECIFICATION ShootSpec
INVARIANT Flushed
PROPERTY ShootdownReturns
