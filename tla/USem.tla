-------------------------------- MODULE USem --------------------------------
(***************************************************************************)
(* The counting semaphore (sem.c).  Threads use it to guard something that *)
(* count of them may use at a time: sem_wait, use it, sem_signal.          *)
(***************************************************************************)
EXTENDS UCond

CONSTANTS
  count,    \* the argument of sem_init
  value_cv  \* a condition variable

ASSUME SemAssumption ==
  /\ None \notin THREADS /\ IsFiniteSet(THREADS)
  /\ value_cv \in CVS /\ count \in Nat

VARIABLE value

semVars == <<condVars, value>>

SemInit == CondInit /\ value = count

SemWait(t) ==
  /\ At(t, "out") /\ Lock(t)
  /\ Goto(t, "test")
  /\ UNCHANGED <<cvOwner, queue, walk, signaled, value>>

SemBlock(t) ==
  /\ At(t, "test") /\ value <= 0
  /\ CondWait(t, value_cv)
  /\ UNCHANGED <<cvOwner, walk, value>>

SemTake(t) ==
  /\ At(t, "test") /\ value > 0
  /\ value' = value - 1
  /\ Unlock(t)
  /\ Goto(t, "in")
  /\ UNCHANGED <<cvOwner, queue, walk, signaled>>

\* Mutant: a waiter is woken only if the value was positive already.
SemSignalLate(t) ==
  /\ At(t, "in") /\ owner = None
  /\ value' = value + 1
  /\ IF value' # 1 THEN CondSignal(t, value_cv, "out")
     ELSE Goto(t, "out") /\ UNCHANGED <<queue, signaled>>
  /\ UNCHANGED <<owner, cvOwner, walk>>

\* A waiter is woken only when the value goes up from zero.
SemSignal(t) ==
  /\ At(t, "in") /\ owner = None
  /\ value' = value + 1
  /\ IF value' = 1 THEN CondSignal(t, value_cv, "out")
     ELSE Goto(t, "out") /\ UNCHANGED <<queue, signaled>>
  /\ UNCHANGED <<owner, cvOwner, walk>>

SemCond(t) == (CondSleep(t) \/ CondRelock(t)) /\ UNCHANGED value

SemNext ==
  \E t \in THREADS :
    SemWait(t) \/ SemBlock(t) \/ SemTake(t) \/ SemSignal(t) \/ SemCond(t)

SemSpec == SemInit /\ [][SemNext]_semVars
-----------------------------------------------------------------------------
\* No thread sleeps in sem_wait while there is a unit for it: the threads
\* that are awake in sem_wait will use up all the units.
NoUnitUnused ==
  queue[value_cv] # <<>> =>
    value <= Cardinality({t \in THREADS : \/ pc[t] \in {"test", "relock"}
                                          \/ At(t, "wait") /\ t \in signaled})
=============================================================================
