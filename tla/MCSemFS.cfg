CONSTANTS
  p1 = p1
  p2 = p2
  p3 = p3
  a = a
  b = b
  Proc = {p1, p2, p3}
  Creator = p1
  Name = {a, b}
  SEMFS_ROOTDIR = 3
  CountMod = 2
  NONE = NONE
SPECIFICATION Spec
SYMMETRY Symm
INVARIANTS RefcountExact SemaphoresStay NoLeak NamesUnique NoDeadlock
CHECK_DEADLOCK FALSE
