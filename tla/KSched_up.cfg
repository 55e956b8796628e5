SPECIFICATION FairSpec
CONSTANTS
  c1 = c1
  c2 = c2
  idle1 = idle1
  idle2 = idle2
  kth1 = kth1
  kth2 = kth2
  A = A
  B = B
  C = C
  m1 = m1
  m2 = m2
  q1 = q1
  ReadyLock = ReadyLock
  TimerLock = TimerLock
  None = None
  CVS = {q1}
  CPUS <- OneCpu
  idle <- UpIdle
  kthread <- UpKth
  THREADS = {A, B, C}
  MUTEXES = {m1}
  Below <- Flat
  InitReady <- Three
  Calls <- MutexCalls
  MaxSleep = 1
PROPERTIES
  MonitorSpec
  MutexServed
  ReadyRuns
