CONSTANTS
  t1 = t1
  t2 = t2
  t3 = t3
  h1 = h1
  NONE = NONE
  Thread <- MCThread
  Handler <- MCHandler
  InitCount = 0
  CountMax = 3
  LockThread <- MCThread
  LockCountMax = 2
  NOHOLDER = NONE
  NumCpus = 3
SPECIFICATION SynchSpec
INVARIANTS NoLostWakeup QueueInv MutualExclusion LockIInv
PROPERTIES AbsSpec WakeupHonoured SomebodyGets StopSticks StopTaken
CHECK_DEADLOCK FALSE
