CONSTANTS
  boot = boot
  t1 = t1
  Thread = {boot, t1}
  Creator = boot
  Depth = 2
SPECIFICATION Spec
INVARIANT OneThreadInside
CHECK_DEADLOCK FALSE
