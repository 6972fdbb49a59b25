CONSTANTS
  Procs = {p1, p2}
  Names = {a, b}
  Inums = {1, 2}
  Nobody = Nobody
SPECIFICATION Spec
INVARIANT LastPutFrees
