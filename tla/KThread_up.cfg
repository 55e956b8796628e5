SPECIFICATION KFairSpec
CONSTANTS
  c1 = c1
  c2 = c2
  idle1 = idle1
  idle2 = idle2
  kth1 = kth1
  kth2 = kth2
  A = A
  B = B
  C = C
  q1 = q1
  ReadyLock = ReadyLock
  TimerLock = TimerLock
  ThreadsLock = ThreadsLock
  RefLock = RefLock
  MallocLock = MallocLock
  None = None
  CVS = {q1}
  CPUS <- OneCpu
  idle <- UpIdle
  kthread <- UpKth
  THREADS = {A, B}
  MUTEXES = {ThreadsLock, RefLock, MallocLock}
  Below <- Flat
  InitReady <- Two
  Calls <- UpCalls
  MaxSleep = 1
INVARIANTS
  KTypeOK
  KOnePlace
PROPERTIES
  KilledExits
