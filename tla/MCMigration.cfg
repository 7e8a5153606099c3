CONSTANTS
  t0 = t0
  t1 = t1
  t2 = t2
  t3 = t3
  NumCpus = 2
  Thread = {t0, t1, t2, t3}
  BootThread <- MCBootThread
  NONE = NONE
  CountMod = 5
  Calls = {"fork", "clocksleep"}
SPECIFICATION Spec
SYMMETRY Symm
INVARIANTS OnePlace CurthreadInv MigrationFits
PROPERTY MovesOnlyReady
CHECK_DEADLOCK FALSE
