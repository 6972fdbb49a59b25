CONSTANTS
  NPROC = 2
  Harts = {h1}
  MaxPid = 3
  Priorities = {50}
  MaxTicks = 1
  MaxRuns = 1
SPECIFICATION Spec
INVARIANT RunningOnHart
