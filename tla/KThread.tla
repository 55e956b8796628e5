------------------------------ MODULE KThread ------------------------------
(***************************************************************************)
(* The thread system calls on top of KSched: yield(tid), deschedule,       *)
(* make_runnable, thread_fork, vanish and task_vanish of the threads of    *)
(* one process (syscall_thread.c, the thread part of kill_current in       *)
(* sched.c, sys_task_vanish_real in syscall_process.c).                    *)
(*                                                                         *)
(* A tid is the thread it names, and None is a tid nobody has.             *)
(***************************************************************************)
EXTENDS KSched

CONSTANTS
  ThreadsLock,  \* mutex threads_lock, protects the tree of threads
  RefLock,      \* mutex refcount_lock of the process, protects p->threads
  MallocLock    \* mutex malloc_lock

ASSUME CallAssumption == {ThreadsLock, RefLock, MallocLock} \subseteq MUTEXES

VARIABLES
  tree,     \* the threads find_thread can find
  members,  \* p->threads
  pending,  \* [THREADS -> BOOLEAN]: pending_exit
  reject,   \* [THREADS -> BOOLEAN]: user memory, the flag passed to deschedule
  arg,      \* [THREADS -> the thread a system call works on, or None]
  todo,     \* [THREADS -> the threads task_vanish has still to visit]
  freed     \* threads whose control block has been freed

callVars == <<tree, members, pending, reject, arg, todo, freed>>
allVars  == <<vars, callVars>>

KInit ==
  /\ Init
  /\ tree = Range(InitReady)
  /\ members = Range(InitReady)
  /\ pending = [t \in THREADS |-> FALSE]
  /\ reject = [t \in THREADS |-> FALSE]
  /\ arg = [t \in THREADS |-> None]
  /\ todo = [t \in THREADS |-> {}]
  /\ freed = {}

\* Thread t enters a system call from user mode.
Enters(c, t) == At(c, t, "run") /\ held[t] = {}

Target(t, u) == arg' = [arg EXCEPT ![t] = u]

\* A step that only starts a mutex operation.
OnlyCall(c, t, op, m, r) ==
  /\ Call(t, op, m, r)
  /\ UNCHANGED <<spl, cpuVars, runVars, syncVars, wait, timeVars>>
-----------------------------------------------------------------------------
(* yield(tid) *)

YieldToEnter(c, t) ==
  /\ Enters(c, t)
  /\ \E u \in THREADS \cup {None} : <<"yieldto", u>> \in Calls[t] /\ Target(t, u)
  /\ OnlyCall(c, t, "lk", ThreadsLock, "yt_find")
  /\ UNCHANGED <<tree, members, pending, reject, todo, freed>>

\* The tid does not exist, or the thread is neither running nor ready.
YieldToFail(c, t) ==
  /\ At(c, t, "yt_find")
  /\ \/ arg[t] \notin tree
     \/ /\ arg[t] \in tree /\ Free(ReadyLock)
        /\ status[arg[t]] \notin {"RUNNING", "READY"}
  /\ OnlyCall(c, t, "ul", ThreadsLock, "run")
  /\ Target(t, None)
  /\ UNCHANGED <<tree, members, pending, reject, todo, freed>>

\* Mutant: the target stays in the ready queue.
YieldToPickLeave(c, t) ==
  /\ At(c, t, "yt_find") /\ Free(ReadyLock) /\ arg[t] \in tree
  /\ \/ status[arg[t]] = "RUNNING" /\ SelectNext(c, ready)
     \/ /\ status[arg[t]] = "READY"
        /\ next' = [next EXCEPT ![c] = arg[t]]
        /\ UNCHANGED ready
  /\ spl' = [spl EXCEPT ![ReadyLock] = c]
  /\ Call(t, "ul", ThreadsLock, "yt_go")
  /\ Target(t, None)
  /\ UNCHANGED <<current, phase, rel, status, saved, syncVars, wait, timeVars>>
  /\ UNCHANGED <<tree, members, pending, reject, todo, freed>>

\* Under ready_lock, which stays held over mutex_unlock(&threads_lock): take
\* the thread out of the ready queue, or the next one if it is running.
YieldToPick(c, t) ==
  LET u == arg[t] IN
  /\ At(c, t, "yt_find") /\ Free(ReadyLock) /\ u \in tree
  /\ \/ status[u] = "RUNNING" /\ SelectNext(c, ready)
     \/ /\ status[u] = "READY"
        /\ next' = [next EXCEPT ![c] = u]
        /\ ready' = SelectSeq(ready, LAMBDA v : v # u)
  /\ spl' = [spl EXCEPT ![ReadyLock] = c]
  /\ Call(t, "ul", ThreadsLock, "yt_go")
  /\ Target(t, None)
  /\ UNCHANGED <<current, phase, rel, status, saved, syncVars, wait, timeVars>>
  /\ UNCHANGED <<tree, members, pending, reject, todo, freed>>

YieldToGo(c, t) ==
  /\ At(c, t, "yt_go")
  /\ ready' = InsertTail(ready, t)
  /\ status' = [status EXCEPT ![t] = "READY"]
  /\ YieldTo(c, ReadyLock)
  /\ Goto(t, "run")
  /\ UNCHANGED <<spl, next, saved, syncVars, mtx, wait, ret, timeVars, callVars>>
-----------------------------------------------------------------------------
(* deschedule and make_runnable *)

\* The flag is set: deschedule returns at once and the user code, which waits
\* in a loop `while (!flag) deschedule(&flag)', clears it.
DescheduleRejected(c, t) ==
  /\ Enters(c, t) /\ <<"deschedule">> \in Calls[t] /\ Free(t)
  /\ reject[t]
  /\ reject' = [reject EXCEPT ![t] = FALSE]
  /\ UNCHANGED <<vars, tree, members, pending, arg, todo, freed>>

\* Mutants: the flag is read without the status_lock; a pending exit is ignored.
DescheduleUnlocked(c, t) ==
  /\ Enters(c, t) /\ <<"deschedule">> \in Calls[t] /\ Free(t)
  /\ ~reject[t] /\ ~pending[t]
  /\ Goto(t, "ds_sel")
  /\ UNCHANGED <<spl, cpuVars, runVars, syncVars, mtx, wait, ret, timeVars, callVars>>
DeschedulePending(c, t) ==
  /\ Enters(c, t) /\ <<"deschedule">> \in Calls[t] /\ Free(t)
  /\ ~reject[t]
  /\ spl' = [spl EXCEPT ![t] = c]
  /\ Goto(t, "ds_sel")
  /\ UNCHANGED <<cpuVars, runVars, syncVars, mtx, wait, ret, timeVars, callVars>>

Deschedule(c, t) ==
  /\ Enters(c, t) /\ <<"deschedule">> \in Calls[t] /\ Free(t)
  /\ ~reject[t] /\ ~pending[t]
  /\ spl' = [spl EXCEPT ![t] = c]
  /\ Goto(t, "ds_sel")
  /\ UNCHANGED <<cpuVars, runVars, syncVars, mtx, wait, ret, timeVars, callVars>>

DescheduleBlock(c, t) ==
  /\ At(c, t, "ds_sel") /\ Free(ReadyLock)
  /\ status' = [status EXCEPT ![t] = "DESCHEDULED"]
  /\ SelectNext(c, ready)
  /\ YieldTo(c, t)
  /\ Goto(t, "run")
  /\ UNCHANGED <<spl, saved, syncVars, mtx, wait, ret, timeVars, callVars>>

\* User code sets the flag of u before it calls make_runnable(u).
MakeRunnableEnter(c, t) ==
  /\ Enters(c, t)
  /\ \E u \in THREADS \cup {None} :
       /\ <<"wake", u>> \in Calls[t]
       /\ Target(t, u)
       /\ reject' = [v \in THREADS |-> v = u \/ reject[v]]
  /\ OnlyCall(c, t, "lk", ThreadsLock, "mr_find")
  /\ UNCHANGED <<tree, members, pending, todo, freed>>

MakeRunnableFail(c, t) ==
  /\ At(c, t, "mr_find")
  /\ \/ arg[t] \notin tree
     \/ arg[t] \in tree /\ Free(arg[t]) /\ status[arg[t]] # "DESCHEDULED"
  /\ OnlyCall(c, t, "ul", ThreadsLock, "run")
  /\ Target(t, None)
  /\ UNCHANGED <<tree, members, pending, reject, todo, freed>>

\* Mutant: the status is not checked.
MakeRunnableAny(c, t) ==
  /\ At(c, t, "mr_find") /\ arg[t] \in tree /\ Free(arg[t])
  /\ spl' = [spl EXCEPT ![arg[t]] = c]
  /\ Call(t, "ul", ThreadsLock, "mr_go")
  /\ UNCHANGED <<cpuVars, runVars, syncVars, wait, timeVars, callVars>>

\* threads_lock is released with the status_lock of the thread held.
MakeRunnableFound(c, t) ==
  LET u == arg[t] IN
  /\ At(c, t, "mr_find") /\ u \in tree /\ Free(u)
  /\ status[u] = "DESCHEDULED"
  /\ spl' = [spl EXCEPT ![u] = c]
  /\ Call(t, "ul", ThreadsLock, "mr_go")
  /\ UNCHANGED <<cpuVars, runVars, syncVars, wait, timeVars, callVars>>

\* Mutant: the status_lock is not released.
InsertKeepLock(u) ==
  /\ Free(ReadyLock)
  /\ ready' = InsertTail(ready, u)
  /\ status' = [status EXCEPT ![u] = "READY"]
  /\ UNCHANGED <<spl, saved>>

\* insert_ready_tail(u) under ready_lock, then u's status_lock is released.
InsertAndRelease(u) ==
  /\ Free(ReadyLock)
  /\ ready' = InsertTail(ready, u)
  /\ status' = [status EXCEPT ![u] = "READY"]
  /\ spl' = [spl EXCEPT ![u] = None]
  /\ UNCHANGED saved

MakeRunnableGo(c, t) ==
  /\ At(c, t, "mr_go")
  /\ InsertAndRelease(arg[t])
  /\ Goto(t, "run")
  /\ Target(t, None)
  /\ UNCHANGED <<cpuVars, syncVars, mtx, wait, ret, timeVars>>
  /\ UNCHANGED <<tree, members, pending, reject, todo, freed>>
-----------------------------------------------------------------------------
(* thread_fork *)

\* The new control block is filled in, pending_exit copied, before the thread
\* is entered anywhere.
ForkEnter(c, t) ==
  /\ Enters(c, t)
  /\ \E u \in THREADS \ (members \cup freed) :
       /\ <<"fork", u>> \in Calls[t]
       /\ status[u] = "DEAD" /\ \A v \in THREADS : arg[v] # u
       /\ Target(t, u)
       /\ pending' = [pending EXCEPT ![u] = pending[t]]
  /\ OnlyCall(c, t, "lk", RefLock, "fk_join")
  /\ UNCHANGED <<tree, members, reject, todo, freed>>

ForkJoin(c, t) ==
  /\ At(c, t, "fk_join")
  /\ members' = members \cup {arg[t]}
  /\ OnlyCall(c, t, "ul", RefLock, "fk_joined")
  /\ UNCHANGED <<tree, pending, reject, arg, todo, freed>>

ForkJoined(c, t) ==
  /\ At(c, t, "fk_joined")
  /\ OnlyCall(c, t, "lk", ThreadsLock, "fk_add")
  /\ UNCHANGED callVars

ForkAdd(c, t) ==
  /\ At(c, t, "fk_add")
  /\ tree' = tree \cup {arg[t]}
  /\ OnlyCall(c, t, "ul", ThreadsLock, "fk_go")
  /\ UNCHANGED <<members, pending, reject, arg, todo, freed>>

ForkGo(c, t) ==
  /\ At(c, t, "fk_go") /\ Free(ReadyLock)
  /\ ready' = InsertTail(ready, arg[t])
  /\ status' = [status EXCEPT ![arg[t]] = "READY"]
  /\ Goto(t, "run")
  /\ Target(t, None)
  /\ UNCHANGED <<spl, cpuVars, saved, syncVars, mtx, wait, ret, timeVars>>
  /\ UNCHANGED <<tree, members, pending, reject, todo, freed>>
-----------------------------------------------------------------------------
(* vanish, and the exit of a thread with pending_exit when it is about to    *)
(* return to user mode (check_pending_signals)                              *)

EnterKill(c, t) ==
  /\ Enters(c, t)
  /\ Goto(t, "vn_enter")
  /\ UNCHANGED <<spl, cpuVars, runVars, syncVars, mtx, wait, ret, timeVars, callVars>>

Vanish(c, t) == <<"vanish">> \in Calls[t] /\ EnterKill(c, t)

PendingExit(c, t) == pending[t] /\ EnterKill(c, t)

VanishLockTree(c, t) ==
  /\ At(c, t, "vn_enter")
  /\ OnlyCall(c, t, "lk", ThreadsLock, "vn_remove")
  /\ UNCHANGED callVars

\* Mutant: the thread stays in the tree.
VanishStay(c, t) ==
  /\ At(c, t, "vn_remove")
  /\ OnlyCall(c, t, "ul", ThreadsLock, "vn_removed")
  /\ UNCHANGED callVars

VanishRemove(c, t) ==
  /\ At(c, t, "vn_remove")
  /\ tree' = tree \ {t}
  /\ OnlyCall(c, t, "ul", ThreadsLock, "vn_removed")
  /\ UNCHANGED <<members, pending, reject, arg, todo, freed>>

VanishLockMembers(c, t) ==
  /\ At(c, t, "vn_removed")
  /\ OnlyCall(c, t, "lk", RefLock, "vn_leave")
  /\ UNCHANGED callVars

VanishLeave(c, t) ==
  /\ At(c, t, "vn_leave")
  /\ members' = members \ {t}
  /\ OnlyCall(c, t, "ul", RefLock, "vn_left")
  /\ UNCHANGED <<tree, pending, reject, arg, todo, freed>>

VanishLockHeap(c, t) ==
  /\ At(c, t, "vn_left")
  /\ OnlyCall(c, t, "lk", MallocLock, "vn_die")
  /\ UNCHANGED callVars

\* Interrupts off, t is dead, its CPU borrows the kthread's stack, frees t
\* and unlocks malloc_lock on t's behalf, then falls into the kthread loop.
VanishDie(c, t) ==
  LET k == kthread[c] IN
  /\ At(c, t, "vn_die")
  /\ status' = [status EXCEPT ![t] = "DEAD"]
  /\ current' = [current EXCEPT ![c] = k]
  /\ saved' = [saved EXCEPT ![k] = FALSE]
  /\ freed' = freed \cup {t}
  /\ held' = [held EXCEPT ![t] = {}, ![k] = {MallocLock}]
  /\ pc' = [pc EXCEPT ![k] = "ul", ![t] = "run"]
  /\ mtx' = [mtx EXCEPT ![k] = MallocLock]
  /\ ret' = [ret EXCEPT ![k] = "kloop"]
  /\ UNCHANGED <<spl, phase, next, rel, ready, locked, waiters, wait, timeVars>>
  /\ UNCHANGED <<tree, members, pending, reject, arg, todo>>
-----------------------------------------------------------------------------
(* task_vanish *)

TaskVanishEnter(c, t) ==
  /\ Enters(c, t) /\ <<"task_vanish">> \in Calls[t]
  /\ OnlyCall(c, t, "lk", RefLock, "tv_list")
  /\ todo' = [todo EXCEPT ![t] = THREADS]
  /\ UNCHANGED <<tree, members, pending, reject, arg, freed>>

\* The next thread of p->threads gets its exit pending.
TaskVanishMark(c, t) ==
  /\ At(c, t, "tv_list")
  /\ \E u \in members \cap todo[t] :
       /\ pending' = [pending EXCEPT ![u] = TRUE]
       /\ Target(t, u)
       /\ todo' = [todo EXCEPT ![t] = @ \ {u}]
  /\ Goto(t, "tv_lock")
  /\ UNCHANGED <<spl, cpuVars, runVars, syncVars, mtx, wait, ret, timeVars>>
  /\ UNCHANGED <<tree, members, reject, freed>>

\* Mutant: descheduled threads are not woken.
TaskVanishSkipAll(c, t) ==
  /\ At(c, t, "tv_lock") /\ Free(arg[t])
  /\ Goto(t, "tv_list")
  /\ Target(t, None)
  /\ UNCHANGED <<spl, cpuVars, runVars, syncVars, mtx, wait, ret, timeVars>>
  /\ UNCHANGED <<tree, members, pending, reject, todo, freed>>

TaskVanishSkip(c, t) ==
  /\ At(c, t, "tv_lock") /\ Free(arg[t])
  /\ status[arg[t]] # "DESCHEDULED"
  /\ Goto(t, "tv_list")
  /\ Target(t, None)
  /\ UNCHANGED <<spl, cpuVars, runVars, syncVars, mtx, wait, ret, timeVars>>
  /\ UNCHANGED <<tree, members, pending, reject, todo, freed>>

TaskVanishLock(c, t) ==
  /\ At(c, t, "tv_lock") /\ Free(arg[t])
  /\ status[arg[t]] = "DESCHEDULED"
  /\ spl' = [spl EXCEPT ![arg[t]] = c]
  /\ Goto(t, "tv_wake")
  /\ UNCHANGED <<cpuVars, runVars, syncVars, mtx, wait, ret, timeVars, callVars>>

TaskVanishWake(c, t) ==
  /\ At(c, t, "tv_wake")
  /\ InsertAndRelease(arg[t])
  /\ Goto(t, "tv_list")
  /\ Target(t, None)
  /\ UNCHANGED <<cpuVars, syncVars, mtx, wait, ret, timeVars>>
  /\ UNCHANGED <<tree, members, pending, reject, todo, freed>>

TaskVanishDone(c, t) ==
  /\ At(c, t, "tv_list")
  /\ members \cap todo[t] = {}
  /\ OnlyCall(c, t, "ul", RefLock, "vn_enter")
  /\ todo' = [todo EXCEPT ![t] = {}]
  /\ UNCHANGED <<tree, members, pending, reject, arg, freed>>
-----------------------------------------------------------------------------
KCall(c, t) ==
  \/ YieldToEnter(c, t) \/ MakeRunnableEnter(c, t) \/ ForkEnter(c, t)
  \/ Deschedule(c, t) \/ DescheduleRejected(c, t) \/ TaskVanishEnter(c, t)
  \/ Vanish(c, t)

KStep(c, t) ==
  \/ YieldToFail(c, t) \/ YieldToPick(c, t) \/ YieldToGo(c, t)
  \/ DescheduleBlock(c, t) \/ MakeRunnableFail(c, t)
  \/ MakeRunnableFound(c, t) \/ MakeRunnableGo(c, t)
  \/ ForkJoin(c, t) \/ ForkJoined(c, t) \/ ForkAdd(c, t) \/ ForkGo(c, t)
  \/ PendingExit(c, t) \/ VanishLockTree(c, t) \/ VanishRemove(c, t)
  \/ VanishLockMembers(c, t) \/ VanishLeave(c, t) \/ VanishLockHeap(c, t)
  \/ VanishDie(c, t)
  \/ TaskVanishMark(c, t) \/ TaskVanishSkip(c, t) \/ TaskVanishLock(c, t)
  \/ TaskVanishWake(c, t) \/ TaskVanishDone(c, t)

\* A step of module KSched: a primitive, a handler, or another operation.
SchedStep(c) ==
  /\ \/ HandlerStep(c) \/ Tick(c)
     \/ \E t \in THREADS : BlockStep(c, t) \/ CallStep(c, t)
     \/ MutexStep(c, kthread[c])
  /\ UNCHANGED callVars

KNext ==
  \E c \in CPUS :
    \/ SchedStep(c)
    \/ \E t \in THREADS : KCall(c, t) \/ KStep(c, t)

KSpec == KInit /\ [][KNext]_allVars
-----------------------------------------------------------------------------
(* Properties *)

KTypeOK ==
  /\ TypeOK
  /\ tree \in SUBSET THREADS
  /\ members \in SUBSET THREADS
  /\ pending \in [THREADS -> BOOLEAN]
  /\ reject \in [THREADS -> BOOLEAN]
  /\ arg \in [THREADS -> THREADS \cup {None}]
  /\ todo \in [THREADS -> SUBSET THREADS]
  /\ freed \in SUBSET THREADS

\* Thread t is at one of the labels L, or in a mutex operation it makes there.
Within(t, L) == pc[t] \in L \/ ret[t] \in L

\* CPU c has chosen the target of a yield and still unlocks threads_lock.
Directed(c) == Within(current[c], {"yt_go"})

KPlaces(t) ==
  Places(t)
  \cup {<<"next", c>> : c \in {d \in CPUS : Directed(d) /\ next[d] = t}}
  \cup (IF status[t] = "DESCHEDULED" THEN {<<"off", 0>>} ELSE {})

\* A thread that thread_fork has published and that has not died is in exactly
\* one place, the descheduled threads included; any other thread is in none.
KOnePlace ==
  \A t \in THREADS :
    Cardinality(KPlaces(t)) =
      IF t \in freed \/ status[t] = "DEAD" THEN 0 ELSE 1

\* The thread control blocks the kernel is about to dereference.
Referenced ==
  Range(ready) \cup timers \cup (UNION {Range(waiters[q]) : q \in QUEUES})
  \cup {current[c] : c \in CPUS} \cup {next[c] : c \in {d \in CPUS :
                                       phase[d] = "switch" \/ Directed(d)}}
  \cup {arg[t] : t \in {v \in THREADS :
            Within(v, {"mr_go", "tv_lock", "tv_wake", "fk_join", "fk_joined",
                       "fk_add", "fk_go"})}}
  \cup tree \cup members

\* A freed control block is in no queue, tree or list and is not used by a
\* system call that looked it up earlier ("otherwise if t is running/ready, t
\* can be freed at any time", make_runnable).
NoUseAfterFree == Referenced \cap freed = {}

\* The waker sets the flag and calls make_runnable; whatever the interleaving
\* with deschedule, a thread sleeps with its flag set only while a
\* make_runnable that will wake it is still running: no wakeup is lost.
NoLostWakeup ==
  \A u \in THREADS :
    reject[u] /\ status[u] = "DESCHEDULED" =>
      \E t \in THREADS :
        arg[t] = u /\ Within(t, {"mr_find", "mr_go", "tv_lock", "tv_wake"})

\* No thread stays descheduled with an exit pending: task_vanish wakes it, or
\* deschedule sees the pending exit.
KilledNotAsleep ==
  \A u \in THREADS :
    pending[u] /\ status[u] = "DESCHEDULED" =>
      \E t \in THREADS : arg[t] = u /\ Within(t, {"mr_go", "tv_lock", "tv_wake"})

KWanted(c) ==
  LET t == current[c] IN
  CASE phase[c] = "run" /\ pc[t] \in {"ds_sel", "mr_go", "tv_wake", "fk_go"} -> ReadyLock
    [] phase[c] = "run" /\ pc[t] = "yt_find" /\ arg[t] \in tree -> ReadyLock
    [] phase[c] = "run" /\ pc[t] = "tv_lock" -> arg[t]
    [] phase[c] = "run" /\ pc[t] = "mr_find" /\ arg[t] \in tree -> arg[t]
    [] OTHER -> Wanted(c)

\* The same as NoSpinDeadlock with the spinlocks of the system calls.
KNoSpinDeadlock ==
  \A c, d \in CPUS :
    KWanted(c) # None /\ spl[KWanted(c)] = d
      => KWanted(d) = None \/ spl[KWanted(d)] # c

KFairness ==
  /\ \A c \in CPUS :
       /\ WF_allVars(HandlerStep(c) /\ UNCHANGED callVars)
       /\ SF_allVars(Tick(c) /\ UNCHANGED callVars)
       /\ WF_allVars(MutexStep(c, kthread[c]) /\ UNCHANGED callVars)
  /\ \A t \in THREADS :
       /\ SF_allVars(\E c \in CPUS : BlockStep(c, t) /\ UNCHANGED callVars)
       /\ SF_allVars(\E c \in CPUS : Unlock(c, t) /\ UNCHANGED callVars)
       /\ SF_allVars(\E c \in CPUS : KStep(c, t))

KFairSpec == KSpec /\ KFairness

\* A thread whose exit task_vanish made pending does exit, whatever it was
\* doing: running, ready, waiting for a mutex, asleep or descheduled.
KilledExits == \A t \in THREADS : pending[t] ~> t \in freed

\* sync.h: mutex_unlock "will wake up one blocked thread if there is one".
UnlockWakes ==
  \A t, w \in THREADS :
    pc[t] = "ul_wake" /\ w = Head(waiters[mtx[t]])
      ~> w \in Range(ready) \/ \E c \in CPUS : current[c] = w

\* syscall_thread.c: "if we are sure t is ready and remove it from ready queue,
\* it will not suddenly run".
NotSuddenlyRun ==
  \A c, d \in CPUS :
    c # d /\ Directed(c) /\ next[c] \in THREADS
      => current[d] # next[c]

\* sched.h: ready is the "queue of ready threads".  A thread that runs is not in it,
\* also when an earlier yield has left its status at READY.
RunningNotReady ==
  \A c \in CPUS : phase[c] = "run" => current[c] \notin Range(ready)

\* sync.h: mutex_lock "will be blocked if lock is held by other thread".
BlockedIfHeld ==
  \A m \in MUTEXES : \A t, u \in THREADS :
    m \in held[t] /\ m \in held[u] => t = u

\* syscall_process.c: task_vanish does "send a pending exit to all other
\* threads"; once no task_vanish scans the list, none has been missed.
AllKilled ==
  (\A t \in THREADS : ~Within(t, {"tv_list", "tv_lock", "tv_wake"}))
    => \A t, u \in members : pending[t] => pending[u]
=============================================================================
