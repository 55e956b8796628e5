------------------------------- MODULE UCond -------------------------------
(***************************************************************************)
(* The user condition variable (cond.c) and the mutex it is used with:     *)
(* the steps from which semaphores, reader/writer locks and the thread     *)
(* library are built.  The mutex is its owner (module UMutex).  A waiter's *)
(* node is on its own stack, and is gone when cond_wait has seen it        *)
(* signaled; a thread waits for one condition variable at a time, so nodes *)
(* are named by their threads.                                             *)
(***************************************************************************)
EXTENDS ULib, Naturals, Sequences, SequencesExt, FiniteSets

CONSTANT CVS  \* condition variables

VARIABLES
  pc,        \* [THREADS -> label]
  owner,     \* the thread that holds the mutex, or None
  cvOwner,   \* [CVS -> the thread that holds cv.lock, or None]
  queue,     \* [CVS -> the nodes in the list, oldest first]
  walk,      \* [THREADS -> the nodes a broadcast has still to visit]
  signaled   \* threads whose node is signaled

condVars == <<pc, owner, cvOwner, queue, walk, signaled>>

CondInit ==
  /\ pc = [t \in THREADS |-> "out"]
  /\ owner = None
  /\ cvOwner = [c \in CVS |-> None]
  /\ queue = [c \in CVS |-> <<>>]
  /\ walk = [t \in THREADS |-> <<>>]
  /\ signaled = {}

At(t, l) == pc[t] = l

Goto(t, l) == pc' = [pc EXCEPT ![t] = l]

Lock(t)   == owner = None /\ owner' = t
Unlock(t) == owner = t /\ owner' = None

-----------------------------------------------------------------------------
\* cond_wait queues the node and only then unlocks the mutex.
CondWait(t, c) ==
  /\ cvOwner[c] = None
  /\ queue' = [queue EXCEPT ![c] = Append(@, t)]
  /\ signaled' = signaled \ {t}
  /\ Unlock(t)
  /\ Goto(t, "wait")

\* A node that is not signaled yet when its thread looks is signaled later.
CondSleep(t) ==
  /\ At(t, "wait")
  /\ Goto(t, IF t \in signaled THEN "relock" ELSE "asleep")
  /\ UNCHANGED <<owner, cvOwner, queue, walk, signaled>>

CondRelock(t) ==
  /\ At(t, "relock") /\ Lock(t)
  /\ Goto(t, "test")
  /\ UNCHANGED <<cvOwner, queue, walk, signaled>>

\* signaled = 1 and make_runnable.
AfterSignal(u) == IF pc[u] = "asleep" THEN "relock" ELSE pc[u]

\* cond_signal: the oldest waiter, if any, leaves the list; t goes to l.
CondSignal(t, c, l) ==
  /\ cvOwner[c] = None
  /\ IF queue[c] = <<>>
     THEN /\ Goto(t, l)
          /\ UNCHANGED <<queue, signaled>>
     ELSE LET u == Head(queue[c]) IN
          /\ queue' = [queue EXCEPT ![c] = Tail(@)]
          /\ signaled' = signaled \cup {u}
          /\ pc' = [pc EXCEPT ![u] = AfterSignal(u), ![t] = l]

\* cond_broadcast: the list is walked with cv.lock held.
CondBroadcast(t, c) ==
  /\ cvOwner[c] = None
  /\ cvOwner' = [cvOwner EXCEPT ![c] = t]
  /\ walk' = [walk EXCEPT ![t] = queue[c]]
  /\ Goto(t, "walk")

\* Mutant: the next node is read after the node has been signaled.
CondBroadcastLate(t) ==
  LET u == Head(walk[t]) IN
  /\ At(t, "walk") /\ walk[t] # <<>>
  /\ IF u \in signaled
     THEN walk' = [walk EXCEPT ![t] = Tail(@)] /\ UNCHANGED <<pc, signaled>>
     ELSE /\ signaled' = signaled \cup {u}
          /\ pc' = [pc EXCEPT ![u] = AfterSignal(u)]
          /\ UNCHANGED walk
  /\ UNCHANGED <<owner, cvOwner, queue>>

\* The next node is read before this one is signaled.
CondBroadcastOne(t) ==
  LET u == Head(walk[t]) IN
  /\ At(t, "walk") /\ walk[t] # <<>>
  /\ walk' = [walk EXCEPT ![t] = Tail(@)]
  /\ signaled' = signaled \cup {u}
  /\ pc' = [pc EXCEPT ![u] = AfterSignal(u)]
  /\ UNCHANGED <<owner, cvOwner, queue>>

CondBroadcastEnd(t, c, l) ==
  /\ At(t, "walk") /\ walk[t] = <<>> /\ cvOwner[c] = t
  /\ queue' = [queue EXCEPT ![c] = <<>>]
  /\ cvOwner' = [cvOwner EXCEPT ![c] = None]
  /\ Goto(t, l)

-----------------------------------------------------------------------------
(* Properties *)

\* A broadcast reads only nodes whose threads are still in cond_wait: a node
\* is on the stack of its thread and dies when that has seen the signal.
NodesAlive ==
  \A t \in THREADS : \A u \in Range(walk[t]) :
    At(u, "wait") \/ At(u, "asleep")
=============================================================================
