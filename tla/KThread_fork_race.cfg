SPECIFICATION KSpec
CONSTANTS
  c1 = c1
  c2 = c2
  idle1 = idle1
  idle2 = idle2
  kth1 = kth1
  kth2 = kth2
  A = A
  B = B
  C = C
  q1 = q1
  ReadyLock = ReadyLock
  TimerLock = TimerLock
  ThreadsLock = ThreadsLock
  RefLock = RefLock
  MallocLock = MallocLock
  None = None
  CVS = {q1}
  CPUS <- OneCpu
  idle <- UpIdle
  kthread <- UpKth
  THREADS = {A, B, C}
  MUTEXES = {ThreadsLock, RefLock, MallocLock}
  Below <- Flat
  InitReady <- Two
  Calls <- ForkRace
  MaxSleep = 0
INVARIANTS
  AllKilled
