CONSTANTS
  t0 = t0
  t1 = t1
  t2 = t2
  t3 = t3
  NumCpus = 2
  Thread = {t0, t1, t2}
  BootThread <- MCBootThread
  NONE = NONE
  CountMod = 4
  Calls = {"menu", "exit"}
SPECIFICATION Spec
INVARIANT OnlyMenuCounted
CHECK_DEADLOCK FALSE
