CONSTANTS
  NPROC = 3
  Cpus = {c1}
  NoCpu = NoCpu
  MaxPid = 3
  KillPids = {2}
SPECIFICATION FairSpec
PROPERTY ZombieReaped RunnableRuns KilledExits
