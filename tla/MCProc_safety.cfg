CONSTANTS
  NPROC = 3
  Cpus = {c1, c2}
  NoCpu = NoCpu
  MaxPid = 4
  KillPids = {3}
SPECIFICATION Spec
SYMMETRY CpuSymmetry
INVARIANT TypeOK OneHart RunningIffOnHart FreedOffStack LiveParent NoLostExit UniquePids KilledByRequest
PROPERTY TreeSpec
