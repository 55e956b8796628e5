SPECIFICATION Spec
CONSTANTS
  None = None
  NoArg = NoArg
  THREADS = {A, B, C}
  CALLERS = {A}
  NumPages = 6
  NumBins = 3
  MaxTid = 7
  IdlePid = 2
  KEYS = {"k1", "k2"}
  OtherCpu = FALSE
  A = A
  B = B
  C = C
  D = D
  CVS = {cv, rcv, wcv, b0, b1, b2}
  count = 1
  value_cv = cv
  reader_cv = rcv
  writer_cv = wcv
  Uses <- RwUses
  TCBS = {b0, b1, b2}
  main = A
  mainTcb = b0
  Parts = {"mem"}
  USERS = {A, B}
  CONSOLES = {"c0", "c1", "c2"}
  kernel_pts = "c0"
  init = A
  Handler = Handler
  NoPts = NoPts
  READERS = {A, B}
  RingSize = 3
  Reads = {0, 1, 2}
  MaxKeys = 4
  DIRS = {"d1", "d2"}
  SHADOWS = {"s0", "s1", "s2"}
  boot = "s0"
  ShadowFrames = 6
  MaxHeld = 1
  BaseAtStart = TRUE
  NoPd = NoPd
  NumFrames = 10
  Layouts <- CrossingText
  NewCalls <- CrossingCall
PROPERTIES
  ForkCopiesAll
CHECK_DEADLOCK FALSE
