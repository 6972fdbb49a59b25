SPECIFICATION Spec
CONSTANTS
 NINODES = 24
 NINODE = 9
 FSSIZE = 40
 BSIZE = 4
 NDIRECT = 2
 NINDIRECT = 2
 PGSIZE = 3
 PTSPAN = 8
 MAXVA = 1000
 WORD = 4000
 IMAGE = 1
 NFILE = 8
 NOFILE = 6
 PIPESIZE = 2
 CONSOLE = 1
 NDEV = 10
 MAXARG = 4
 CHUNK = 1
 NPROC = 7
 NPAGES = 72
 KERNBASE = 200
 BIG = 60
 Kernel <- syscall
 UserMain <- UserProgram
INVARIANTS TestsPass NothingLeaks DiskSound
CHECK_DEADLOCK FALSE
