CONSTANTS
  Procs = {p1, p2}
  Blocks = {b1, b2}
  Vals = {0, 1}
  Absent = Absent
  MAXOPBLOCKS = 1
  LOGSIZE = 3
  SIZE = 3
  Buffered = {n1, n2, n3, n4}
  NBUF = 2
  Changing = {n1}
  MaxPin = 1
  Names = {a, b}
  Inums = {1, 2}
  Callers = {p1, p2, p3}
  KillSet = {p1}
  NUM = 7
  Nobody = Nobody
SPECIFICATION FairSpec
INVARIANTS CallsAdmitted InodeKept RequestsKnown
PROPERTIES CommittedOnReturn DiskSpec StoreSpec DoneOnReturn NobodyWaitsForEver
