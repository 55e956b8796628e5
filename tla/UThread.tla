------------------------------ MODULE UThread ------------------------------
(***************************************************************************)
(* The user thread library (thread.c): thr_create, thr_join and thr_exit   *)
(* under tcb_lock.  A thread runs on a stack that belongs to its control   *)
(* block; a joined thread's stack is unmapped, and the block is reused.    *)
(* The condition variable of a block is named by the block.                *)
(***************************************************************************)
EXTENDS UCond

CONSTANTS
  TCBS,     \* control blocks
  main,     \* the main thread
  mainTcb   \* main_tcb

ASSUME ThrAssumption ==
  /\ main \in THREADS /\ mainTcb \in TCBS /\ TCBS \subseteq CVS
  /\ None \notin THREADS \cup TCBS

VARIABLES
  tcb,       \* [THREADS -> TCBS or None]: what get_self_tcb() returns
  utid,      \* [TCBS -> THREADS or None]: tid
  tree,      \* blocks in the tree of threads
  freeTcbs,  \* free_tcbs
  mapped,    \* blocks whose stack has pages
  exited,    \* blocks with exited = 1
  waiter,    \* blocks with waiter = 1
  work       \* [THREADS -> the block it creates or joins, or None]

tcbVars == <<tcb, utid, tree, freeTcbs, mapped, exited, waiter, work>>
thrVars == <<condVars, tcbVars>>

ThrInit ==
  /\ pc = [t \in THREADS |-> IF t = main THEN "out" ELSE "unused"]
  /\ owner = None /\ signaled = {}
  /\ cvOwner = [c \in CVS |-> None] /\ queue = [c \in CVS |-> <<>>]
  /\ walk = [t \in THREADS |-> <<>>]
  /\ tcb = [t \in THREADS |-> IF t = main THEN mainTcb ELSE None]
  /\ utid = [b \in TCBS |-> IF b = mainTcb THEN main ELSE None]
  /\ tree = {mainTcb} /\ mapped = {mainTcb}
  /\ freeTcbs = <<>> /\ exited = {} /\ waiter = {}
  /\ work = [t \in THREADS |-> None]

-----------------------------------------------------------------------------
(* thr_create *)

\* The first free block, or a new one.
NewTcbs ==
  IF freeTcbs # <<>> THEN {Head(freeTcbs)}
  ELSE {b \in TCBS : /\ b \notin tree \cup Range(freeTcbs) \cup {mainTcb}
                     /\ \A t \in THREADS : work[t] # b}

\* Mutant: a block that is reused keeps its exited flag.
CreateForkStale(t) ==
  /\ At(t, "out") /\ Lock(t)
  /\ \E b \in NewTcbs, u \in {v \in THREADS : At(v, "unused")} :
       /\ mapped' = mapped \cup {b}
       /\ freeTcbs' = IF freeTcbs = <<>> THEN <<>> ELSE Tail(freeTcbs)
       /\ waiter' = waiter \ {b}
       /\ tcb' = [tcb EXCEPT ![u] = b]
       /\ work' = [work EXCEPT ![t] = b]
       /\ pc' = [pc EXCEPT ![t] = "insert", ![u] = "begin"]
  /\ UNCHANGED <<cvOwner, queue, walk, signaled, utid, tree, exited>>

\* The new thread u can run from here on.
CreateFork(t) ==
  /\ At(t, "out") /\ Lock(t)
  /\ \E b \in NewTcbs, u \in {v \in THREADS : At(v, "unused")} :
       /\ mapped' = mapped \cup {b}
       /\ freeTcbs' = IF freeTcbs = <<>> THEN <<>> ELSE Tail(freeTcbs)
       /\ exited' = exited \ {b} /\ waiter' = waiter \ {b}
       /\ tcb' = [tcb EXCEPT ![u] = b]
       /\ work' = [work EXCEPT ![t] = b]
       /\ pc' = [pc EXCEPT ![t] = "insert", ![u] = "begin"]
  /\ UNCHANGED <<cvOwner, queue, walk, signaled, utid, tree>>

CreateInsert(t) ==
  /\ At(t, "insert") /\ Unlock(t)
  /\ \E u \in THREADS : tcb[u] = work[t] /\ At(u, "begin")
                        /\ utid' = [utid EXCEPT ![work[t]] = u]
  /\ tree' = tree \cup {work[t]}
  /\ work' = [work EXCEPT ![t] = None]
  /\ Goto(t, "out")
  /\ UNCHANGED <<cvOwner, queue, walk, signaled, tcb, freeTcbs, mapped, exited, waiter>>

\* thread_fork fails: the stack is unmapped and the block is kept for later.
\* (When new_pages or malloc fails nothing has changed.)
CreateFail(t) ==
  /\ At(t, "out") /\ owner = None
  /\ \E b \in NewTcbs :
       freeTcbs' = IF freeTcbs = <<>> THEN <<b>> ELSE freeTcbs
  /\ UNCHANGED <<condVars, tcb, utid, tree, mapped, exited, waiter, work>>

\* Mutant: the new thread does not wait for its creator.
BeginAtOnce(t) ==
  /\ At(t, "begin")
  /\ Goto(t, "out")
  /\ UNCHANGED <<owner, cvOwner, queue, walk, signaled, tcbVars>>

\* thr_begin locks and unlocks tcb_lock before it calls the function.
Begin(t) ==
  /\ At(t, "begin") /\ owner = None
  /\ Goto(t, "out")
  /\ UNCHANGED <<owner, cvOwner, queue, walk, signaled, tcbVars>>

-----------------------------------------------------------------------------
(* thr_join *)

\* No such thread, or somebody else joins it: -1.
JoinFail(t) ==
  /\ At(t, "out") /\ owner = None
  /\ \E u \in THREADS \ {t} : \A b \in tree : utid[b] = u => b \in waiter
  /\ UNCHANGED thrVars

JoinExited(t, b) ==
  /\ b \in exited
  /\ Lock(t)
  /\ Goto(t, "test")
  /\ UNCHANGED <<cvOwner, queue, walk, signaled>>

JoinWait(t, b) ==
  /\ b \notin exited /\ owner = None /\ cvOwner[b] = None
  /\ queue' = [queue EXCEPT ![b] = Append(@, t)]
  /\ signaled' = signaled \ {t}
  /\ Goto(t, "wait")
  /\ UNCHANGED <<owner, cvOwner, walk>>

Join(t) ==
  /\ At(t, "out")
  /\ \E b \in tree \ waiter :
       /\ utid[b] # t
       /\ JoinExited(t, b) \/ JoinWait(t, b)
       /\ waiter' = waiter \cup {b}
       /\ work' = [work EXCEPT ![t] = b]
  /\ UNCHANGED <<tcb, utid, tree, freeTcbs, mapped, exited>>

\* The block leaves the tree and, unless it is the main thread's, its stack is
\* unmapped and it can be used again.
JoinReap(t) ==
  LET b == work[t] IN
  /\ At(t, "test") /\ Unlock(t)
  /\ tree' = tree \ {b}
  /\ IF b = mainTcb THEN UNCHANGED <<mapped, freeTcbs>>
     ELSE mapped' = mapped \ {b} /\ freeTcbs' = <<b>> \o freeTcbs
  /\ work' = [work EXCEPT ![t] = None]
  /\ Goto(t, "out")
  /\ UNCHANGED <<cvOwner, queue, walk, signaled, tcb, utid, exited, waiter>>

-----------------------------------------------------------------------------
(* thr_exit *)

Exit(t) ==
  /\ At(t, "out") /\ Lock(t)
  /\ exited' = exited \cup {tcb[t]}
  /\ CondSignal(t, tcb[t], "exit")
  /\ UNCHANGED <<cvOwner, walk, tcb, utid, tree, freeTcbs, mapped, waiter, work>>

\* Mutant: the thread returns from mutex_unlock and calls vanish.
ExitUnlockReturn(t) ==
  /\ At(t, "exit") /\ Unlock(t)
  /\ Goto(t, "vanish")
  /\ UNCHANGED <<cvOwner, queue, walk, signaled, tcbVars>>

\* mutex_unlock_vanish: from here on the thread does not use its stack; it may
\* still have to wake a waiter of tcb_lock.
ExitUnlock(t) ==
  /\ At(t, "exit") /\ Unlock(t)
  /\ Goto(t, "unlocked")
  /\ UNCHANGED <<cvOwner, queue, walk, signaled, tcbVars>>

Vanish(t) ==
  /\ pc[t] \in {"unlocked", "vanish"}
  /\ Goto(t, "gone")
  /\ tcb' = [tcb EXCEPT ![t] = None]
  /\ UNCHANGED <<owner, cvOwner, queue, walk, signaled, utid, tree, freeTcbs,
                 mapped, exited, waiter, work>>

ThrCond(t) == (CondSleep(t) \/ CondRelock(t)) /\ UNCHANGED tcbVars

ThrNext ==
  \E t \in THREADS :
    \/ CreateFork(t) \/ CreateInsert(t) \/ CreateFail(t) \/ Begin(t)
    \/ JoinFail(t) \/ Join(t) \/ JoinReap(t)
    \/ Exit(t) \/ ExitUnlock(t) \/ Vanish(t) \/ ThrCond(t)

ThrSpec == ThrInit /\ [][ThrNext]_thrVars
-----------------------------------------------------------------------------
(* Properties *)

UsesStack(t) == pc[t] \notin {"unused", "unlocked", "gone"}

\* A thread that may still touch its stack has one, and has it for itself,
\* though whoever joins it unmaps the stack and gives it to another thread
\* while it is still on its way to vanish.
StackIsOwn ==
  \A t \in THREADS : UsesStack(t) =>
    /\ tcb[t] \in mapped
    /\ \A u \in THREADS : UsesStack(u) /\ tcb[u] = tcb[t] => u = t

\* A block is free, or in the tree, or being set up; and a thread that runs its
\* function or waits finds itself under its own tid.
TcbOnePlace ==
  /\ IsInjective(freeTcbs)
  /\ Range(freeTcbs) \cap tree = {}
  /\ \A t \in THREADS : pc[t] \in {"out", "wait", "asleep", "relock", "test"} =>
       tcb[t] \in tree /\ utid[tcb[t]] = t
=============================================================================
