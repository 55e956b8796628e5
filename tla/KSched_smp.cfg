SPECIFICATION Spec
CONSTANTS
  c1 = c1
  c2 = c2
  idle1 = idle1
  idle2 = idle2
  kth1 = kth1
  kth2 = kth2
  A = A
  B = B
  C = C
  m1 = m1
  m2 = m2
  q1 = q1
  ReadyLock = ReadyLock
  TimerLock = TimerLock
  None = None
  CVS = {q1}
  CPUS <- TwoCpus
  idle <- SmpIdle
  kthread <- SmpKth
  THREADS = {A, B, C}
  MUTEXES = {m1, m2}
  Below <- Nested
  InitReady <- Three
  Calls <- MonitorCalls
  MaxSleep = 1
INVARIANTS
  TypeOK
  OnePlace
  SavedBeforeSwitch
  Ownership
  NoSpinDeadlock
SYMMETRY SwapCpus
