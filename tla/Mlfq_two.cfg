CONSTANTS
  NPROC = 2
  Harts = {h1, h2}
  ClockHart = h1
  MaxPid = 2
  NLEVEL = 2
  AGING_LIMIT = 1
  MaxIndex = 0
SPECIFICATION Spec
INVARIANT TypeOK RunningOnHart
