CONSTANTS
  NPROC = 2
  Harts = {h1}
  MaxPid = 3
  MaxTicks = 1
  Priorities = {50, 120}
  MaxRuns = 1
  ClockHart = h1
  NLEVEL = 2
  AGING_LIMIT = 2
  MaxIndex = 0
SPECIFICATION FairSpec
PROPERTY NoOvertaking LeastDP BestLevelFirst PicksSomeone AgedOrRuns
