----------------------------- MODULE KSchedInv -----------------------------
(***************************************************************************)
(* The inductive invariant of KSched.  It says of every CPU which spinlocks *)
(* it holds and where its current thread is linked, and of every queue that *)
(* its threads are nowhere else; type correctness, OnePlace,                *)
(* SavedBeforeSwitch, Ownership and NoSpinDeadlock rest on it.  It leaves   *)
(* room for what the system calls of KThread do to the same variables, and  *)
(* is invariant there too.                                                  *)
(***************************************************************************)
EXTENDS KSched

Waiting(q) == Range(waiters[q])

\* Every spinlock but the threads' status_locks, which KSched does not use.
GUARDS == QUEUES \cup {ReadyLock, TimerLock}

\* Thread t is inside cv_wait, between its queueing and its switch.
InCvWait(t) == pc[t] = "cw_sel" \/ ret[t] = "cw_sel"

\* Thread t runs code that holds a spinlock.
Busy(t) ==
  \/ pc[t] \in {"lk_sel", "ul_wake", "sg_wake", "sl_sel"}
  \/ InCvWait(t)

ThreadHolds(t, l) ==
  \/ pc[t] \in {"lk_sel", "ul_wake"} /\ l = mtx[t]
  \/ (pc[t] = "sg_wake" \/ InCvWait(t)) /\ l = wait[t][1]
  \/ pc[t] = "sl_sel" /\ l = TimerLock

Holds(c, l) ==
  \/ phase[c] = "run" /\ ThreadHolds(current[c], l)
  \/ phase[c] = "timers" /\ l = TimerLock
  \/ phase[c] \in {"switch", "release"} /\ l = rel[c]

\* A spinlock is held by the CPU whose control point says so.
SpinInv == \A c \in CPUS : \A l \in GUARDS : spl[l] = c <=> Holds(c, l)

\* A thread that is inside a critical section is on a CPU, uninterrupted.
BusyInv ==
  \A t \in AllThreads :
    Busy(t) => \E c \in CPUS : current[c] = t /\ phase[c] = "run"

\* The labels at which code may go on after a mutex operation.
Resumes == Labels \ {"lk", "lk_sel", "lk_own", "ul", "ul_wake", "sg_wake", "sl_sel"}

\* What a thread's label says of its parameters.
PcInv ==
  /\ \A t \in AllThreads :
       /\ ret[t] \in Resumes
       /\ ret[t] # "run" => pc[t] \in {"lk", "lk_sel", "lk_own", "ul", "ul_wake"}
       /\ ret[t] = "cw_sel" => pc[t] \in {"ul", "ul_wake"}
       /\ pc[t] \in {"lk", "lk_sel", "lk_own"} => mtx[t] \in MUTEXES
       /\ pc[t] \in {"ul", "ul_wake"} => mtx[t] \in MUTEXES /\ mtx[t] \in held[t]
       /\ InCvWait(t) => wait[t] \in CVS \X MUTEXES
       /\ pc[t] = "sg_wake" => wait[t] \in {<<q>> : q \in CVS}
  /\ \A t \in IdleThreads : pc[t] = "run"
  /\ \A t \in KThreads :
       pc[t] = "kloop" \/ (pc[t] \in {"ul", "ul_wake"} /\ ret[t] = "kloop")
  /\ \A t \in THREADS : pc[t] # "kloop" /\ ret[t] # "kloop"

CpuInv ==
  /\ \A c, d \in CPUS : current[c] = current[d] => c = d
  /\ \A c \in CPUS :
       /\ current[c] \in THREADS \cup {idle[c], kthread[c]}
       /\ phase[c] \in {"tick", "timers", "preempt"} => current[c] \notin KThreads
       /\ phase[c] \in {"switch", "release"} =>
            rel[c] \in GUARDS \cup THREADS
       /\ phase[c] \notin {"switch", "release"} => rel[c] = None
       /\ phase[c] = "switch" =>
            /\ next[c] \in THREADS \cup {idle[c]}
            /\ \A d \in CPUS : current[d] = next[c] => d = c
            /\ \A d \in CPUS : phase[d] = "switch" /\ next[d] = next[c] => d = c
            /\ next[c] = current[c] => rel[c] = ReadyLock

\* The queues, and the threads chosen but not yet switched to, are disjoint.
QueueInv ==
  /\ IsInjective(ready)
  /\ \A q \in QUEUES : IsInjective(waiters[q])
  /\ Range(ready) \cap timers = {}
  /\ \A q \in QUEUES :
       /\ Waiting(q) \cap Range(ready) = {}
       /\ Waiting(q) \cap timers = {}
       /\ \A r \in QUEUES : q # r => Waiting(q) \cap Waiting(r) = {}
  /\ \A c \in CPUS : phase[c] = "switch" =>
       /\ next[c] \notin Range(ready) \cup timers
       /\ \A q \in QUEUES : next[c] \notin Waiting(q)

\* The current thread of c has queued itself on q and not left the CPU yet.
LeavingVia(c, q) ==
  \/ phase[c] = "switch" /\ rel[c] = q
  \/ /\ phase[c] = "run"
     /\ \/ pc[current[c]] = "lk_sel" /\ mtx[current[c]] = q
        \/ InCvWait(current[c]) /\ wait[current[c]][1] = q

\* A current thread is linked only where it is about to leave to.
CurrentInv ==
  \A c \in CPUS :
    /\ current[c] \in Range(ready) => phase[c] = "switch" /\ rel[c] = ReadyLock
    /\ phase[c] = "switch" /\ rel[c] = ReadyLock /\ current[c] \in THREADS
         => current[c] \in Range(ready) \cup {next[c]}
    /\ \A q \in QUEUES : current[c] \in Waiting(q) <=> LeavingVia(c, q)
    /\ current[c] \in timers <=>
         \/ phase[c] = "switch" /\ rel[c] = TimerLock
         \/ phase[c] = "run" /\ pc[current[c]] = "sl_sel"

Dead(t) == status[t] = "DEAD"
Off(t)  == status[t] = "DESCHEDULED"

\* A thread that does not exist, or has descheduled itself, is linked nowhere; it
\* has left its CPU, or leaves it under its status_lock.
GoneInv ==
  /\ \A t \in THREADS : Dead(t) \/ Off(t) =>
       /\ t \notin Range(ready) \cup timers
       /\ \A q \in QUEUES : t \notin Waiting(q)
       /\ \A c \in CPUS : phase[c] = "switch" => next[c] # t
  /\ \A c \in CPUS : current[c] \in THREADS =>
       /\ ~Dead(current[c])
       /\ Off(current[c]) => phase[c] = "switch" /\ rel[c] = current[c]
  /\ \A c \in CPUS : phase[c] = "switch" /\ rel[c] \in THREADS =>
       rel[c] = current[c] /\ Off(current[c])

\* No other thread is lost.
LinkedInv ==
  \A t \in THREADS :
    \/ Dead(t) \/ Off(t)
    \/ t \in Range(ready) \cup timers
    \/ \E q \in QUEUES : t \in Waiting(q)
    \/ \E c \in CPUS : current[c] = t \/ (phase[c] = "switch" /\ next[c] = t)

SavedInv ==
  \A t \in AllThreads :
    /\ saved[t] => \A c \in CPUS : current[c] # t
    /\ saved[t] \/ (t \in THREADS /\ Dead(t)) \/ \E c \in CPUS : current[c] = t

\* An unlock or a signal that has taken the guard finds its waiter there, and
\* a mutex's waiters are inside mutex_lock.
WaiterInv ==
  /\ \A t \in AllThreads :
       /\ pc[t] = "ul_wake" => waiters[mtx[t]] # <<>>
       /\ pc[t] = "sg_wake" => waiters[wait[t][1]] # <<>>
  /\ \A m \in MUTEXES : \A t \in Waiting(m) :
       pc[t] \in {"lk_sel", "lk_own"} /\ mtx[t] = m

Owns(t, m) ==
  \/ m \in held[t]
  \/ pc[t] = "lk_own" /\ mtx[t] = m /\ t \notin Waiting(m)

OwnInv ==
  \A m \in MUTEXES :
    /\ ~locked[m] => waiters[m] = <<>> /\ \A t \in AllThreads : ~Owns(t, m)
    /\ locked[m] => \E t \in AllThreads : Owns(t, m)
    /\ \A t, u \in AllThreads : Owns(t, m) /\ Owns(u, m) => t = u

\* A thread does not lock a mutex it holds: cv_wait has released the one it is
\* going to lock again.
LockingInv ==
  \A t \in AllThreads :
    /\ pc[t] = "lk" => mtx[t] \notin held[t]
    /\ pc[t] = "cw_sel" => wait[t][2] \notin held[t]
    /\ ret[t] = "cw_sel" => wait[t][2] = mtx[t]

\* Type correctness, spinlocks, control points, CPUs, queues and owners.
IInv ==
  /\ TypeOK
  /\ SpinInv /\ BusyInv /\ PcInv /\ CpuInv
  /\ QueueInv /\ CurrentInv /\ GoneInv /\ LinkedInv /\ SavedInv
  /\ WaiterInv /\ OwnInv
=============================================================================
