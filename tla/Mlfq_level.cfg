CONSTANTS
  NPROC = 2
  Harts = {h1}
  ClockHart = h1
  MaxPid = 2
  NLEVEL = 3
  AGING_LIMIT = 2
  MaxIndex = 0
SPECIFICATION Spec
PROPERTY HighestFirst
