SPECIFICATION Spec
CONSTANTS
  init = init
  main = main
  None = None
  PROCS = {init, p1, p2, p3}
  THREADS = {main, t1, t2, t3, t4}
  p1 = p1
  p2 = p2
  p3 = p3
  Calls <- LifeCalls
INVARIANTS
  PTypeOK
  WaitersHaveChildren
  OneKeeper
  NoMissedChild
  NoProcUseAfterFree
  NoLockCycle
SYMMETRY Alike
CHECK_DEADLOCK FALSE
