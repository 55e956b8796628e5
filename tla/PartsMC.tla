------------------------------ MODULE PartsMC ------------------------------
(***************************************************************************)
(* Small instances of the parts of the system that stand alone, for TLC:   *)
(* the user library's, and the structures and devices of the kernel.  They *)
(* share no state: a behaviour is one of the part that Init chooses.       *)
(***************************************************************************)
EXTENDS UMutex, USem, URwlock, UThread, KTid, KPages, KConsole, KKeyboard,
        KVirq, KShadow, TLC

CONSTANTS
  Parts,              \* the parts to check
  A, B, C, D,         \* threads
  NumFrames,          \* the physical frames of part mem
  Layouts, NewCalls   \* and its programs and calls of new_pages

VARIABLES
  part,
  rb, stored, fix, rbNode,
  ticks, timers, room, sleeper, now,
  mem, space, undone

\* Two writers and two readers; or one writer, that downgrades, and two readers.
RwUses ==
  { A :> {"READ"} @@ B :> {"WRITE"} @@ C :> {"READ", "WRITE"},
    A :> {"READ"} @@ B :> {"WRITE", "DOWNGRADE"} @@ C :> {"READ"} }

\* A program of one page of text; the same with a page of data that waits for its
\* first access; a text that needs two page tables; a call of new_pages that does.
TextOnly == <<[start |-> 0, n |-> 1, rw |-> FALSE, file |-> TRUE]>>
TextData == TextOnly \o <<[start |-> 1, n |-> 1, rw |-> TRUE, file |-> FALSE]>>
CrossingText == {<<[start |-> 1, n |-> 2, rw |-> FALSE, file |-> TRUE]>>}
OneProgram   == {TextData}
CrossingCall == {<<1, 2>>}

Tree     == INSTANCE KTree WITH MaxKey <- 7, tree <- rb, node <- rbNode
Timer    == INSTANCE KTimer WITH SLEEPERS <- {A, B, C, D}, Width <- 4, MaxTime <- 3, MaxSleep <- 3,
                                 InitRoom <- 2, MinRoom <- 2, node <- sleeper
Mem      == INSTANCE KMem WITH NumVPages <- 3, PerTable <- 2, PROCS <- {A, B}

rwOwnVars   == <<use, mode, status, num_reader, panicked>>
ulibVars    == <<mutexVars, condVars, value, rwOwnVars, tcbVars>>
treeVars    == <<rb, stored, fix, rbNode>>
timerVars   == <<ticks, timers, room, sleeper, now>>
memVars     == <<mem, space, undone>>
dataVars    == <<treeVars, pageVars, timerVars, tidVars, memVars>>
deviceVars  == <<consoleVars, kbdVars, virqVars, shadowVars>>
vars == <<part, ulibVars, dataVars, deviceVars>>

-----------------------------------------------------------------------------
\* Nobody uses the reader/writer lock; the threads are there, each with a block.
NoRwlock ==
  /\ use = [t \in THREADS |-> {}] /\ mode = [t \in THREADS |-> "READ"]
  /\ status = "UNLOCK" /\ num_reader = 0 /\ panicked = FALSE
NoThread ==
  /\ tcb = CHOOSE f \in [THREADS -> TCBS] : IsInjective(f)
  /\ utid = [b \in TCBS |-> CHOOSE t \in THREADS : tcb[t] = b]
  /\ tree = TCBS /\ mapped = TCBS /\ freeTcbs = <<>>
  /\ exited = {} /\ waiter = {} /\ work = [t \in THREADS |-> None]
NoMem    == mem = None /\ space = [p \in {A, B} |-> None] /\ undone = FALSE

Init ==
  /\ part \in Parts
  /\ UMInit
  /\ CASE part = "rwlock" -> RwInit /\ value = 0 /\ NoThread
       [] part = "thread" -> ThrInit /\ value = 0 /\ NoRwlock
       [] OTHER -> SemInit /\ NoRwlock /\ NoThread
  /\ Tree!TreeInit /\ PageInit /\ Timer!TimerInit /\ TidInit
  /\ IF part = "mem" THEN Mem!MemInit ELSE NoMem
  /\ ConsoleInit /\ KbdInit /\ VirqInit /\ ShadowInit

InULib(p)  == part = p /\ UNCHANGED <<part, dataVars, deviceVars>>
InMutex    == InULib("mutex") /\ UNCHANGED <<condVars, value, rwOwnVars, tcbVars>>
InSem      == InULib("sem") /\ UNCHANGED <<mutexVars, rwOwnVars, tcbVars>>
InRwlock   == InULib("rwlock") /\ ~panicked /\ UNCHANGED <<mutexVars, value, tcbVars>>
InThread   == InULib("thread") /\ UNCHANGED <<mutexVars, value, rwOwnVars>>
InData(p)  == part = p /\ UNCHANGED <<part, ulibVars, deviceVars>>
InTree     == InData("tree") /\ UNCHANGED <<pageVars, timerVars, tidVars, memVars>>
InPages    == InData("pages") /\ UNCHANGED <<treeVars, timerVars, tidVars, memVars>>
InTimer    == InData("timer") /\ UNCHANGED <<treeVars, pageVars, tidVars, memVars>>
InTid      == InData("tid") /\ UNCHANGED <<treeVars, pageVars, timerVars, memVars>>
InMem      == InData("mem") /\ ~undone /\ UNCHANGED <<treeVars, pageVars, timerVars, tidVars>>
InDevice(p) == part = p /\ UNCHANGED <<part, ulibVars, dataVars>>
InConsole  == InDevice("console") /\ Intact
              /\ UNCHANGED <<kbdVars, virqVars, shadowVars>>
InKeyboard == InDevice("keyboard") /\ UNCHANGED <<consoleVars, virqVars, shadowVars>>
InVirq     == InDevice("virq") /\ UNCHANGED <<consoleVars, kbdVars, shadowVars>>
InShadow   == InDevice("shadow") /\ loaded = "ok"
              /\ UNCHANGED <<consoleVars, kbdVars, virqVars>>

MutexStep(t) ==
  \/ InMutex /\ LockQueue(t)
  \/ InMutex /\ TryTake(t)
  \/ InMutex /\ TryFail(t)
  \/ InMutex /\ UDeschedule(t)
  \/ InMutex /\ Leave(t)
  \/ InMutex /\ Release(t)
  \/ InMutex /\ WakeFirst(t)
  \/ InMutex /\ WakeRunnable(t)

MutexNext == \E t \in THREADS :
  \/ InMutex /\ LockEnter(t)
  \/ InMutex /\ Nudge(t)
  \/ MutexStep(t)

SemParts == \E t \in THREADS :
  \/ InSem /\ SemWait(t)
  \/ InSem /\ SemBlock(t)
  \/ InSem /\ SemTake(t)
  \/ InSem /\ SemSignal(t)
  \/ InSem /\ SemCond(t)

RwlockNext == \E t \in THREADS :
  \/ InRwlock /\ RwLock(t)
  \/ InRwlock /\ RwRead(t)
  \/ InRwlock /\ RwWrite(t)
  \/ InRwlock /\ RwBlock(t)
  \/ InRwlock /\ RwAffirm(t)
  \/ InRwlock /\ RwUnlockRead(t)
  \/ InRwlock /\ RwUnlockWrite(t)
  \/ InRwlock /\ RwDowngrade(t)
  \/ InRwlock /\ RwWalkEnd(t)
  \/ InRwlock /\ RwUnlocked(t)
  \/ InRwlock /\ RwCond(t)

ThreadNext == \E t \in THREADS :
  \/ InThread /\ CreateFork(t)
  \/ InThread /\ CreateInsert(t)
  \/ InThread /\ CreateFail(t)
  \/ InThread /\ Begin(t)
  \/ InThread /\ JoinFail(t)
  \/ InThread /\ Join(t)
  \/ InThread /\ JoinReap(t)
  \/ InThread /\ Exit(t)
  \/ InThread /\ ExitUnlock(t)
  \/ InThread /\ Vanish(t)
  \/ InThread /\ ThrCond(t)

DataNext ==
  \/ InTree /\ Tree!RbFixup
  \/ InTree /\ Tree!RbDeleteFixup
  \/ \E k \in 1 .. 7 :
       \/ InTree /\ Tree!RbInsert(k)
       \/ InTree /\ Tree!RbDelete(k)
       \/ InPages /\ AllocUserPages(k)
       \/ InTid /\ TidRemove(k)
  \/ \E c \in chunks : InPages /\ FreeUserPages(c)
  \/ InTimer /\ Timer!TimerTick
  \/ \E t \in {A, B, C, D} :
       \/ InTimer /\ Timer!SleepInsert(t)
       \/ InTimer /\ Timer!SleepFail(t)
       \/ \E dt \in 1 .. 3 : InTimer /\ Timer!SleepEnter(t, dt)
  \/ InTid /\ AllocCheck(A)
  \/ InTid /\ AllocTake(A)
  \/ InTid /\ AllocStore(A)
  \/ InTid /\ TidAdd(A)

MemNext == \E p \in {A, B} :
  \/ \E v \in 0 .. 2 : InMem /\ Mem!HandleZfod(p, v)
  \/ \E v \in 0 .. 2 : InMem /\ Mem!UserWrite(p, v)
  \/ \E c \in NewCalls : InMem /\ Mem!NewPages(p, c[1], c[2])
  \/ InMem /\ Mem!Alive(p) /\ \E i \in DOMAIN space[p].regions : Mem!RemovePages(p, i)
  \/ \E q \in {A, B} : InMem /\ Mem!Fork(p, q)
  \/ \E l \in Layouts : InMem /\ Mem!Exec(p, l)
  \/ InMem /\ Mem!Reclaim(p)

ConsoleParts ==
  \/ InConsole /\ SwitchCheck
  \/ InConsole /\ SwitchDetachNext
  \/ InConsole /\ SwitchDetachPrev
  \/ InConsole /\ SwitchFree
  \/ InConsole /\ SwitchUnlock
  \/ InConsole /\ HandlerRead
  \/ InConsole /\ Tab
  \/ InConsole /\ TabSwitch
  \/ InConsole /\ HandlerDone
  \/ \E t \in USERS :
       \/ InConsole /\ NewConsole(t)
       \/ InConsole /\ NewConsoleLink(t)
       \/ InConsole /\ NewConsoleClose(t)
       \/ InConsole /\ NewConsoleCount(t)
       \/ InConsole /\ NewConsoleDrop(t)
       \/ InConsole /\ ConsoleUnlock(t)
       \/ InConsole /\ NewConsoleSwitch(t)
       \/ InConsole /\ ConsoleExit(t)
       \/ \E u \in USERS : InConsole /\ ConsoleFork(t, u)

KeyboardNext ==
  \/ \E kind \in {"letter", "newline", "erase"} : InKeyboard /\ KbdHandler(kind)
  \/ \E t \in READERS :
       \/ \E n \in Reads : InKeyboard /\ KbdRequest(t, n)
       \/ InKeyboard /\ KbdWoken(t)
       \/ InKeyboard /\ KbdTurn(t)
       \/ InKeyboard /\ ScProcess(t)
       \/ InKeyboard /\ ScSleep(t)
       \/ InKeyboard /\ FlushLine(t)
       \/ InKeyboard /\ KbdDone(t)

VirqParts ==
  \/ InVirq /\ TickInGuest
  \/ InVirq /\ TickInHost
  \/ InVirq /\ Resume
  \/ \E k \in KEYS : InVirq /\ Key(k)
  \/ InVirq /\ Fault
  \/ InVirq /\ Syscall
  \/ InVirq /\ Hypercall
  \/ InVirq /\ HvExit
  \/ \E v \in BOOLEAN : InVirq /\ SetVif(v)
  \/ \E v, u \in BOOLEAN : InVirq /\ Iret(v, u)
  \/ \E i \in VECTORS : InVirq /\ SetIdt(i)
  \/ InVirq /\ PvCheckPendingIrq
  \/ InVirq /\ ClearPending
  \/ InVirq /\ IretToGuest

ShadowParts ==
  \/ \E d \in {"d1", "d2"} : InShadow /\ LoadPd(d)
  \/ \E e \in {NoPd, "sup", "user", "bad"}, f \in {NoPd, "sup", "user"} :
       \/ InShadow /\ AdjustPg(e, f)
       \/ \E d \in {"d1", "d2"} : InShadow /\ SetPd(d, e, f)
  \/ InShadow /\ RefPd
  \/ InShadow /\ UnrefPd
  \/ InShadow /\ ShadowExit

Next == MutexNext \/ SemParts \/ RwlockNext \/ ThreadNext \/ DataNext \/ MemNext
        \/ ConsoleParts \/ KeyboardNext \/ VirqParts \/ ShadowParts

\* A thread in mutex_lock or mutex_unlock goes on.
Spec == Init /\ [][Next]_vars /\ \A t \in THREADS : WF_vars(MutexStep(t))
-----------------------------------------------------------------------------
\* The tree of threads is a red-black search tree (KTree).
TreeCorrect == part = "tree" => Tree!RedBlack /\ Tree!Searchable

\* A sleeper is woken when its time has come, not before (KTimer).
WakesOnTime == Timer!WakesOnTime

\* Frames have one owner, and a process sees its own (KMem).
MemCorrect == part = "mem" => Mem!FramesPartition /\ Mem!OwnPages

\* A forked process reads what its parent does, if no region needs two page tables
\* (KMem).
ForkCopies == Mem!ForkCopies

\* The same for all regions (KMem).
ForkCopiesAll == Mem!ForkCopiesAll

=============================================================================
