---------------------------- MODULE KThreadInv ----------------------------
(***************************************************************************)
(* The inductive invariant of KThread: that of the scheduler, and what the *)
(* thread system calls add to it.  It says of every thread how far it is in *)
(* a system call, which mutex and which status_lock that takes, what is    *)
(* true of the thread it works on, and where a thread that is descheduled  *)
(* or does not exist can still be found.                                   *)
(***************************************************************************)
EXTENDS KThread, KSchedInv

\* The programs the theorems are about: yield(tid) is called with a tid nobody
\* has, or not at all.
NoYieldTo == \A t, u \in THREADS : <<"yieldto", u>> \notin Calls[t]

\* The labels of the system calls.
CallLabels ==
  {"yt_find", "yt_go", "mr_find", "mr_go", "ds_sel", "fk_join", "fk_joined",
   "fk_add", "fk_go", "vn_enter", "vn_remove", "vn_removed", "vn_leave",
   "vn_left", "vn_die", "tv_list", "tv_lock", "tv_wake"}

\* How far thread t is in a system call: at a label, or in a mutex operation on
\* its way there.
Doing(t) ==
  IF ret[t] \in CallLabels THEN ret[t]
  ELSE IF pc[t] \in CallLabels THEN pc[t] ELSE "user"

\* The mutexes the code at a label holds.
Needs(l) ==
  CASE l \in {"yt_find", "mr_find", "fk_add", "vn_remove"} -> {ThreadsLock}
    [] l \in {"fk_join", "vn_leave", "tv_list", "tv_lock", "tv_wake"} -> {RefLock}
    [] l = "vn_die" -> {MallocLock}
    [] OTHER -> {}

\* A system call holds one mutex at a time, the one its label needs; no mutex
\* operation returns into the middle of a critical section.
LabelOK(t) ==
  /\ Doing(t) # "yt_go"
  /\ pc[t] \in CallLabels => held[t] = Needs(pc[t])
  /\ ret[t] \notin {"ds_sel", "tv_lock", "tv_wake"}
  /\ ret[t] \in CallLabels =>
       \/ /\ pc[t] \in {"lk", "lk_sel", "lk_own"}
          /\ held[t] = {} /\ Needs(ret[t]) = {mtx[t]}
       \/ /\ pc[t] \in {"ul", "ul_wake"}
          /\ held[t] = {mtx[t]} /\ Needs(ret[t]) = {}

\* A kthread runs only its loop, and the unlock that a dead thread left to it.
KthreadOK(c) ==
  LET k == kthread[c] IN
  /\ held[k] = IF pc[k] = "kloop" THEN {} ELSE {mtx[k]}
  /\ pc[k] # "kloop" => current[c] = k /\ phase[c] = "run"

LabelInv == (\A t \in THREADS : LabelOK(t)) /\ (\A c \in CPUS : KthreadOK(c))

\* The control points at which a thread holds a status_lock.
Guarding == {"ds_sel", "mr_go", "tv_wake"}

HoldsStatus(c, u) ==
  LET t == current[c] IN
  \/ /\ phase[c] = "run"
     /\ \/ Doing(t) = "ds_sel" /\ t = u
        \/ Doing(t) \in {"mr_go", "tv_wake"} /\ arg[t] = u
  \/ phase[c] \in {"switch", "release"} /\ rel[c] = u

\* A status_lock is held by the CPU whose control point says so, and its code
\* is not interrupted.
StatusLockInv ==
  /\ \A c \in CPUS : \A u \in THREADS : spl[u] = c <=> HoldsStatus(c, u)
  /\ \A t \in THREADS : Doing(t) \in Guarding =>
       \E c \in CPUS : current[c] = t /\ phase[c] = "run"

Waking  == {"mr_go", "tv_wake"}
Killing == {"tv_lock", "tv_wake"}
Forking == {"fk_join", "fk_joined", "fk_add", "fk_go"}
Exiting == {"vn_removed", "vn_leave", "vn_left", "vn_die"}

\* What a system call knows of the thread it works on.
ArgOK(t) ==
  /\ Doing(t) = "yt_find" => arg[t] = None
  /\ Doing(t) \in Waking => arg[t] \in THREADS /\ Off(arg[t])
  /\ Doing(t) \in Killing => arg[t] \in members
  /\ Doing(t) \in Forking => arg[t] \in THREADS /\ Dead(arg[t]) /\ arg[t] \notin freed
  /\ Doing(t) \in Forking \ {"fk_join"} => arg[t] \in members
  /\ Doing(t) = "fk_go" => arg[t] \in tree

\* No two thread_forks create the same thread.
ArgInv ==
  /\ \A t \in THREADS : ArgOK(t)
  /\ \A t, u \in THREADS :
       Doing(t) \in Forking /\ Doing(u) \in Forking /\ arg[t] = arg[u] => t = u

\* A thread that does not exist or is descheduled executes nothing, and one that
\* does not exist yet is ready to be switched to.
RestInv ==
  \A t \in THREADS : Dead(t) \/ Off(t) =>
    /\ pc[t] = "run" /\ ret[t] = "run" /\ held[t] = {}
    /\ t \in freed \/ ~Dead(t) \/ saved[t]

\* A thread in no list is on its way out, and a freed one is in none.
TreeOK(t) ==
  /\ Doing(t) \in Exiting => t \notin tree
  /\ Doing(t) \in {"vn_left", "vn_die"} => t \notin members
  /\ t \in tree \/ Dead(t) \/ Doing(t) \in Exiting
  /\ t \in freed => Dead(t) /\ t \notin tree \cup members

TreeInv == \A t \in THREADS : TreeOK(t)

\* Thread u has descheduled itself or has decided to.
Asleep(u) == Off(u) \/ Doing(u) = "ds_sel"

\* From where a call goes on to wake the thread it works on: for its flag, or for
\* its pending exit.
ForFlag == {"mr_find", "mr_go", "tv_lock", "tv_wake"}
ForExit == {"mr_go", "tv_lock", "tv_wake"}

\* Somebody is about to wake each thread that should not sleep.
WakeInv ==
  \A u \in THREADS : Asleep(u) =>
    /\ reject[u]  => \E t \in THREADS : arg[t] = u /\ Doing(t) \in ForFlag
    /\ pending[u] => \E t \in THREADS : arg[t] = u /\ Doing(t) \in ForExit

KIInv ==
  /\ KTypeOK /\ IInv
  /\ LabelInv /\ StatusLockInv /\ ArgInv /\ RestInv /\ TreeInv /\ WakeInv
=============================================================================
