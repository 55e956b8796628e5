------------------------------- MODULE UMutex -------------------------------
(***************************************************************************)
(* The user mutex (mutex.c, mutex_lock.S): a lock word, and a list of the  *)
(* threads that want it under a spinlock.  A waiter polls the lock word    *)
(* and, when it is taken, deschedules itself until an unlocker sets its    *)
(* mutex_resume flag and makes it runnable.  The list is a sequence; what  *)
(* is done to it with w_lock held is one step where it calls nothing.      *)
(***************************************************************************)
EXTENDS ULib, Naturals, Sequences, SequencesExt

VARIABLES
  upc,     \* [THREADS -> label]
  locked,  \* the lock word
  wLock,   \* w_lock
  wList,   \* w_list: its head is the thread an unlock wakes
  resume,  \* threads whose mutex_resume is set
  waking   \* [THREADS -> the thread an unlocker is making runnable, or None]

mutexVars == <<upc, locked, wLock, wList, resume, waking>>

UMInit ==
  /\ upc = [t \in THREADS |-> "out"]
  /\ locked = FALSE /\ wLock = FALSE
  /\ wList = <<>> /\ resume = {}
  /\ waking = [t \in THREADS |-> None]

Go(t, from, to) == upc[t] = from /\ upc' = [upc EXCEPT ![t] = to]

-----------------------------------------------------------------------------
LockEnter(t) ==
  /\ Go(t, "out", "queue")
  /\ resume' = resume \ {t}
  /\ UNCHANGED <<locked, wLock, wList, waking>>

LockQueue(t) ==
  /\ Go(t, "queue", "try") /\ ~wLock
  /\ wList' = Append(wList, t)
  /\ UNCHANGED <<locked, wLock, resume, waking>>

TryTake(t) ==
  /\ Go(t, "try", "taken") /\ ~locked
  /\ locked' = TRUE
  /\ UNCHANGED <<wLock, wList, resume, waking>>

TryFail(t) ==
  /\ Go(t, "try", "sleep") /\ locked
  /\ UNCHANGED <<locked, wLock, wList, resume, waking>>

\* Mutant: deschedule blocks whatever the flag says.
DescheduleBlind(t) ==
  /\ Go(t, "sleep", "asleep")
  /\ UNCHANGED <<locked, wLock, wList, resume, waking>>

\* deschedule(&mutex_resume) tests the flag and blocks in one step
\* (module KThread).
UDeschedule(t) ==
  /\ Go(t, "sleep", IF t \in resume THEN "try" ELSE "asleep")
  /\ UNCHANGED <<locked, wLock, wList, resume, waking>>

\* Mutant: the waiter leaves the list without w_lock.
LeaveUnlocked(t) ==
  /\ Go(t, "taken", "in")
  /\ \E i \in DOMAIN wList : wList[i] = t /\ wList' = RemoveAt(wList, i)
  /\ UNCHANGED <<locked, wLock, resume, waking>>

Leave(t) ==
  /\ Go(t, "taken", "in") /\ ~wLock
  /\ \E i \in DOMAIN wList : wList[i] = t /\ wList' = RemoveAt(wList, i)
  /\ UNCHANGED <<locked, wLock, resume, waking>>

Release(t) ==
  /\ Go(t, "in", "wake")
  /\ locked' = FALSE
  /\ UNCHANGED <<wLock, wList, resume, waking>>

\* Mutant: the head is made runnable but its flag is not set.
WakeFirstUnset(t) ==
  /\ Go(t, "wake", IF wList = <<>> THEN "out" ELSE "make_runnable") /\ ~wLock
  /\ wLock' = (wList # <<>>)
  /\ waking' = [waking EXCEPT ![t] = IF wList = <<>> THEN None ELSE Head(wList)]
  /\ UNCHANGED <<locked, wList, resume>>

\* The head of the list is told to go on, and then made runnable with w_lock
\* held.
WakeFirst(t) ==
  /\ Go(t, "wake", IF wList = <<>> THEN "out" ELSE "make_runnable") /\ ~wLock
  /\ wLock' = (wList # <<>>)
  /\ waking' = [waking EXCEPT ![t] = IF wList = <<>> THEN None ELSE Head(wList)]
  /\ resume' = IF wList = <<>> THEN resume ELSE resume \cup {Head(wList)}
  /\ UNCHANGED <<locked, wList>>

\* make_runnable of a thread that is not descheduled does nothing.
Awakened(u) == IF upc[u] = "asleep" THEN "try" ELSE upc[u]

WakeRunnable(t) ==
  /\ upc[t] = "make_runnable"
  /\ upc' = [upc EXCEPT ![waking[t]] = Awakened(waking[t]), ![t] = "out"]
  /\ waking' = [waking EXCEPT ![t] = None]
  /\ wLock' = FALSE
  /\ UNCHANGED <<locked, wList, resume>>

\* A make_runnable that comes late from a condition variable the thread had
\* waited for, or from the application.
Nudge(t) ==
  /\ Go(t, "asleep", "try")
  /\ UNCHANGED <<locked, wLock, wList, resume, waking>>

UMStep(t) ==
  \/ LockQueue(t) \/ TryTake(t) \/ TryFail(t) \/ UDeschedule(t) \/ Leave(t)
  \/ Release(t) \/ WakeFirst(t) \/ WakeRunnable(t)

UMNext == \E t \in THREADS : LockEnter(t) \/ UMStep(t) \/ Nudge(t)

\* A thread that can run does; nobody has to call mutex_lock.
UMSpec == UMInit /\ [][UMNext]_mutexVars /\ \A t \in THREADS : WF_mutexVars(UMStep(t))
-----------------------------------------------------------------------------
(* Properties *)

\* A free mutex is not left to sleepers: if threads sleep in its list, then the
\* lock is held, or an unlocker has still to wake the head, or the head has
\* been told to go on.  (mutex_lock.S, the flag, the list and the lock word
\* are three separate words.)
NobodyForgotten ==
  (\E t \in THREADS : upc[t] = "asleep") =>
    \/ locked
    \/ \E t \in THREADS : upc[t] \in {"wake", "make_runnable"}
    \/ upc[Head(wList)] \in {"try", "sleep"}

\* An unlocker writes the flag and reads the tid of a thread in the list: that
\* thread has not left mutex_lock, so that its control block, which thr_join
\* may free, is still there.
WakesOnlyWaiters ==
  \A t \in THREADS : waking[t] # None => waking[t] \in Range(wList)

\* A mutex somebody waits for is taken again and again; which of the waiters
\* gets it is not said: one that has just come may overtake the others.
FreeMutexTaken == (~locked /\ wList # <<>>) ~> locked
=============================================================================
