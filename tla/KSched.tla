------------------------------- MODULE KSched -------------------------------
(***************************************************************************)
(* The kernel's scheduler and its blocking primitives: per-CPU current     *)
(* threads, the ready queue, spinlocks, mutexes, condition variables, the  *)
(* timer interrupt and the sleep queue (sync.c, sync_asm.S, the scheduling *)
(* part of sched.c, timer.c, and the yield(-1) and sleep system calls).    *)
(*                                                                         *)
(* Grain of atomicity.  A CPU that holds a spinlock runs with interrupts   *)
(* off, so other CPUs see its critical section as one step up to its next  *)
(* spinlock operation, its writes that other CPUs read without the lock    *)
(* (thread status), or the context switch.  Those are the steps below.     *)
(*                                                                         *)
(* A mutex and a condition variable name their own guard spinlock, and a   *)
(* thread names its status_lock: spl[m] is m->guard, spl[t] is             *)
(* t->status_lock.                                                         *)
(***************************************************************************)
EXTENDS Naturals, Sequences, FiniteSets, Functions

CONSTANTS
  CPUS,       \* the processors started by smp_boot
  THREADS,    \* threads that can be queued (created by fork or thread_fork)
  idle,       \* [CPUS -> thread]: get_idle(), the CPU's idle process
  kthread,    \* [CPUS -> thread]: get_kthread(), the CPU's boot thread
  MUTEXES,    \* every mutex_t
  CVS,        \* every cv_t
  ReadyLock,  \* the spinlock ready_lock
  TimerLock,  \* the spinlock timer_lock
  None,       \* no CPU, no lock, no parameter
  InitReady,  \* the ready queue once the initial threads exist
  Calls,      \* [THREADS -> set of kernel operations the thread performs]
  Below,      \* [MUTEXES -> mutexes that may be held when locking this one]
  MaxSleep    \* bound: the longest sleep() in ticks

IdleThreads == Range(idle)
KThreads    == Range(kthread)
AllThreads  == THREADS \cup IdleThreads \cup KThreads
QUEUES      == MUTEXES \cup CVS
SPLS        == QUEUES \cup AllThreads \cup {ReadyLock, TimerLock}

\* The boot code gives each CPU an idle thread and a kthread of its own.
ASSUME CpuAssumption ==
  /\ idle \in Injection(CPUS, IdleThreads)
  /\ kthread \in Injection(CPUS, KThreads)
  /\ None \notin CPUS \cup SPLS

\* The sleep heap starts with room for eight nodes (INITIAL_HEAP_SIZE), so
\* with at most eight sleepers heap_insert and heap_pop never allocate.
ASSUME ThreadAssumption ==
  /\ THREADS \cap IdleThreads = {}
  /\ THREADS \cap KThreads = {}
  /\ IdleThreads \cap KThreads = {}
  /\ IsFiniteSet(THREADS) /\ Cardinality(THREADS) <= 8
  /\ InitReady \in Seq(THREADS) /\ IsInjective(InitReady)
  /\ MaxSleep \in Nat

ASSUME LockAssumption ==
  /\ MUTEXES \cap CVS = {}
  /\ QUEUES \cap AllThreads = {}
  /\ ReadyLock # TimerLock
  /\ {ReadyLock, TimerLock} \cap (QUEUES \cup AllThreads) = {}
  /\ Below \in [MUTEXES -> SUBSET MUTEXES]

\* A mutex_t does not count its owner's calls: kernel code locks none it holds.
ASSUME OrderAssumption == \A m \in MUTEXES : m \notin Below[m]

VARIABLES
  spl,      \* [SPLS -> CPU holding the spinlock, or None]
  current,  \* [CPUS -> thread]: get_current()
  phase,    \* [CPUS -> what the CPU is executing: see Phases]
  next,     \* [CPUS -> thread chosen by select_next]
  rel,      \* [CPUS -> spinlock yield_to_spl_unlock has to release]
  ready,    \* the ready queue
  status,   \* [AllThreads -> thr_stat_t]
  saved,    \* [AllThreads -> BOOLEAN]: kernel_esp holds the thread's context
  locked,   \* [MUTEXES -> BOOLEAN]: mutex_t.locked
  waiters,  \* [QUEUES -> Seq(thread)]: mutex_t.waiters, cv_t.waiters
  held,     \* [AllThreads -> SUBSET MUTEXES]: mutexes the thread's code owns
  pc,       \* [AllThreads -> label]
  mtx,      \* [AllThreads -> parameter m of mutex_lock or mutex_unlock]
  wait,     \* [AllThreads -> parameters <<cv, m>> of cv_wait, <<cv>> of signal]
  ret,      \* [AllThreads -> label the mutex operation returns to]
  timers,   \* the threads in the heap of sleepers
  due       \* [THREADS -> the sleeper's key minus ticks, 0 once reached]

cpuVars  == <<current, phase, next, rel>>
runVars  == <<ready, status, saved>>
syncVars == <<locked, waiters, held>>
pcVars   == <<pc, mtx, wait, ret>>
timeVars == <<timers, due>>
vars     == <<spl, cpuVars, runVars, syncVars, pcVars, timeVars>>

Status == {"RUNNING", "READY", "BLOCKED", "SLEEPING", "DESCHEDULED", "DEAD"}

\* "run": its current thread's code; "tick".."preempt": timer_handler_real on
\* top of that thread; "switch", "release": inside yield_to_spl_unlock.
Phases == {"run", "tick", "timers", "preempt", "switch", "release"}

\* Labels of this module, then those of the system calls of module KThread.
Labels == {"run", "lk", "lk_sel", "lk_own", "ul", "ul_wake", "cw_sel",
           "sg_wake", "sl_sel", "kloop"}
          \cup {"yt_find", "yt_go", "mr_find", "mr_go", "ds_sel", "fk_join",
                "fk_joined", "fk_add", "fk_go", "vn_enter", "vn_remove",
                "vn_removed", "vn_leave", "vn_left", "vn_die", "tv_list",
                "tv_lock", "tv_wake"}

Init ==
  /\ spl = [l \in SPLS |-> None]
  /\ current = kthread
  /\ phase = [c \in CPUS |-> "run"]
  /\ next = kthread
  /\ rel = [c \in CPUS |-> None]
  /\ ready = InitReady
  /\ status = [t \in AllThreads |->
                 IF t \in KThreads THEN "RUNNING"
                 ELSE IF t \in Range(InitReady) THEN "READY" ELSE "DEAD"]
  /\ saved = [t \in AllThreads |-> t \notin KThreads]
  /\ locked = [m \in MUTEXES |-> FALSE]
  /\ waiters = [q \in QUEUES |-> <<>>]
  /\ held = [t \in AllThreads |-> {}]
  /\ pc = [t \in AllThreads |-> IF t \in KThreads THEN "kloop" ELSE "run"]
  /\ mtx = [t \in AllThreads |-> None]
  /\ wait = [t \in AllThreads |-> <<>>]
  /\ ret = [t \in AllThreads |-> "run"]
  /\ timers = {}
  /\ due = [t \in THREADS |-> 0]

-----------------------------------------------------------------------------
(* Building blocks *)

Free(l) == spl[l] = None

\* Interrupts are enabled: spl_lock clears IF, the matching unlock restores
\* it, and the kthread loop runs with IF clear.
IntrOn(c) == current[c] \notin KThreads /\ \A l \in SPLS : spl[l] # c

\* CPU c executes thread t's code at label l.
At(c, t, l) == current[c] = t /\ phase[c] = "run" /\ pc[t] = l

Goto(t, l) == pc' = [pc EXCEPT ![t] = l]

\* Mutant: the head is read but stays in the queue.
SelectNextPeek(c, q) ==
  /\ next' = [next EXCEPT ![c] = IF q = <<>> THEN idle[c] ELSE Head(q)]
  /\ ready' = q

\* select_next() on the ready queue q: its head, or this CPU's idle thread.
SelectNext(c, q) ==
  /\ next' = [next EXCEPT ![c] = IF q = <<>> THEN idle[c] ELSE Head(q)]
  /\ ready' = IF q = <<>> THEN q ELSE Tail(q)

\* CPU c enters yield_to_spl_unlock(next[c], l, old_if).
YieldTo(c, l) ==
  /\ phase' = [phase EXCEPT ![c] = "switch"]
  /\ rel' = [rel EXCEPT ![c] = l]
  /\ UNCHANGED current

\* Thread t calls mutex_lock(m) or mutex_unlock(m), to resume at label r.
Call(t, op, m, r) ==
  /\ pc' = [pc EXCEPT ![t] = op]
  /\ mtx' = [mtx EXCEPT ![t] = m]
  /\ ret' = [ret EXCEPT ![t] = r]

\* The mutex operation of thread t returns.
Return(t) ==
  /\ pc' = [pc EXCEPT ![t] = ret[t]]
  /\ mtx' = [mtx EXCEPT ![t] = None]
  /\ ret' = [ret EXCEPT ![t] = "run"]
  /\ UNCHANGED wait
-----------------------------------------------------------------------------
(* mutex_lock and mutex_unlock *)

MutexLockFree(c, t) ==
  LET m == mtx[t] IN
  /\ At(c, t, "lk") /\ Free(m)
  /\ ~locked[m]
  /\ locked' = [locked EXCEPT ![m] = TRUE]
  /\ held' = [held EXCEPT ![t] = @ \cup {m}]
  /\ Return(t)
  /\ UNCHANGED <<spl, cpuVars, runVars, waiters, timeVars>>

\* Mutant: the waiter is queued at the head.
MutexLockQueueLifo(c, t) ==
  LET m == mtx[t] IN
  /\ At(c, t, "lk") /\ Free(m)
  /\ locked[m]
  /\ spl' = [spl EXCEPT ![m] = c]
  /\ waiters' = [waiters EXCEPT ![m] = <<t>> \o @]
  /\ status' = [status EXCEPT ![t] = "BLOCKED"]
  /\ Goto(t, "lk_sel")
  /\ UNCHANGED <<cpuVars, ready, saved, locked, held, mtx, wait, ret, timeVars>>

MutexLockQueue(c, t) ==
  LET m == mtx[t] IN
  /\ At(c, t, "lk") /\ Free(m)
  /\ locked[m]
  /\ spl' = [spl EXCEPT ![m] = c]
  /\ waiters' = [waiters EXCEPT ![m] = Append(@, t)]
  /\ status' = [status EXCEPT ![t] = "BLOCKED"]
  /\ Goto(t, "lk_sel")
  /\ UNCHANGED <<cpuVars, ready, saved, locked, held, mtx, wait, ret, timeVars>>

\* Mutant: the guard is released before the switch.
MutexLockBlockEarly(c, t) ==
  /\ At(c, t, "lk_sel") /\ Free(ReadyLock)
  /\ SelectNext(c, ready)
  /\ YieldTo(c, None)
  /\ spl' = [spl EXCEPT ![mtx[t]] = None]
  /\ Goto(t, "lk_own")
  /\ UNCHANGED <<status, saved, syncVars, mtx, wait, ret, timeVars>>

MutexLockBlock(c, t) ==
  /\ At(c, t, "lk_sel") /\ Free(ReadyLock)
  /\ SelectNext(c, ready)
  /\ YieldTo(c, mtx[t])
  /\ Goto(t, "lk_own")
  /\ UNCHANGED <<spl, status, saved, syncVars, mtx, wait, ret, timeVars>>

\* Switched back to, mutex_lock returns: whoever woke t passed it the mutex.
MutexLockOwn(c, t) ==
  /\ At(c, t, "lk_own")
  /\ held' = [held EXCEPT ![t] = @ \cup {mtx[t]}]
  /\ Return(t)
  /\ UNCHANGED <<spl, cpuVars, runVars, locked, waiters, timeVars>>

\* Mutant: the waiters are not looked at.
MutexUnlockAlways(c, t) ==
  LET m == mtx[t] IN
  /\ At(c, t, "ul") /\ Free(m)
  /\ locked' = [locked EXCEPT ![m] = FALSE]
  /\ held' = [held EXCEPT ![t] = @ \ {m}]
  /\ Return(t)
  /\ UNCHANGED <<spl, cpuVars, runVars, waiters, timeVars>>

MutexUnlockFree(c, t) ==
  LET m == mtx[t] IN
  /\ At(c, t, "ul") /\ Free(m)
  /\ waiters[m] = <<>>
  /\ locked' = [locked EXCEPT ![m] = FALSE]
  /\ held' = [held EXCEPT ![t] = @ \ {m}]
  /\ Return(t)
  /\ UNCHANGED <<spl, cpuVars, runVars, waiters, timeVars>>

MutexUnlockPass(c, t) ==
  LET m == mtx[t] IN
  /\ At(c, t, "ul") /\ Free(m)
  /\ waiters[m] # <<>>
  /\ spl' = [spl EXCEPT ![m] = c]
  /\ Goto(t, "ul_wake")
  /\ UNCHANGED <<cpuVars, runVars, syncVars, mtx, wait, ret, timeVars>>

\* Mutant: the guard is not released.
WakeHeadHoldsGuard(q) ==
  LET w == Head(waiters[q]) IN
  /\ Free(ReadyLock)
  /\ waiters' = [waiters EXCEPT ![q] = Tail(@)]
  /\ ready' = <<w>> \o ready
  /\ status' = [status EXCEPT ![w] = "READY"]
  /\ UNCHANGED <<spl, saved>>

\* insert_ready_head of the oldest waiter of q, then the guard is released.
WakeHead(q) ==
  LET w == Head(waiters[q]) IN
  /\ Free(ReadyLock)
  /\ waiters' = [waiters EXCEPT ![q] = Tail(@)]
  /\ ready' = <<w>> \o ready
  /\ status' = [status EXCEPT ![w] = "READY"]
  /\ spl' = [spl EXCEPT ![q] = None]
  /\ UNCHANGED saved

MutexUnlockWake(c, t) ==
  /\ At(c, t, "ul_wake")
  /\ WakeHead(mtx[t])
  /\ held' = [held EXCEPT ![t] = @ \ {mtx[t]}]
  /\ Return(t)
  /\ UNCHANGED <<cpuVars, locked, timeVars>>
-----------------------------------------------------------------------------
(* cv_wait and cv_signal *)

CvWait(c, t) ==
  /\ At(c, t, "run")
  /\ \E q \in CVS, m \in held[t] :
       /\ <<"wait", q, m>> \in Calls[t]
       /\ Free(q)
       /\ spl' = [spl EXCEPT ![q] = c]
       /\ waiters' = [waiters EXCEPT ![q] = Append(@, t)]
       /\ wait' = [wait EXCEPT ![t] = <<q, m>>]
       /\ Call(t, "ul", m, "cw_sel")
  /\ status' = [status EXCEPT ![t] = "BLOCKED"]
  /\ UNCHANGED <<cpuVars, ready, saved, locked, held, timeVars>>

\* The mutex is released: sleep, and lock it again once switched back to.
CvWaitBlock(c, t) ==
  /\ At(c, t, "cw_sel") /\ Free(ReadyLock)
  /\ SelectNext(c, ready)
  /\ YieldTo(c, wait[t][1])
  /\ Call(t, "lk", wait[t][2], "run")
  /\ wait' = [wait EXCEPT ![t] = <<>>]
  /\ UNCHANGED <<spl, status, saved, syncVars, timeVars>>

CvSignal(c, t) ==
  /\ At(c, t, "run")
  /\ \E q \in CVS :
       /\ <<"signal", q>> \in Calls[t]
       /\ Free(q)
       /\ waiters[q] # <<>>
       /\ spl' = [spl EXCEPT ![q] = c]
       /\ wait' = [wait EXCEPT ![t] = <<q>>]
  /\ Goto(t, "sg_wake")
  /\ UNCHANGED <<cpuVars, runVars, syncVars, mtx, ret, timeVars>>

CvSignalWake(c, t) ==
  /\ At(c, t, "sg_wake")
  /\ WakeHead(wait[t][1])
  /\ Goto(t, "run")
  /\ wait' = [wait EXCEPT ![t] = <<>>]
  /\ UNCHANGED <<cpuVars, locked, held, mtx, ret, timeVars>>
-----------------------------------------------------------------------------
(* yield_to_spl_unlock, yield(-1), the kthread loop *)

\* save_and_setup_env and the stack switch.  Nothing at all is done, the
\* status included, when the chosen thread is the current one.
SwitchTo(c) ==
  LET t == current[c]
      n == next[c] IN
  /\ phase[c] = "switch"
  /\ phase' = [phase EXCEPT ![c] = "release"]
  /\ IF n = t
     THEN UNCHANGED <<current, status, saved>>
     ELSE /\ current' = [current EXCEPT ![c] = n]
          /\ status' = [status EXCEPT ![n] = "RUNNING"]
          /\ saved' = [saved EXCEPT ![t] = TRUE, ![n] = FALSE]
  /\ UNCHANGED <<spl, next, rel, ready, syncVars, pcVars, timeVars>>

\* The spinlock is released on the new thread's stack.
SwitchDone(c) ==
  /\ phase[c] = "release"
  /\ spl' = [spl EXCEPT ![rel[c]] = None]
  /\ phase' = [phase EXCEPT ![c] = "run"]
  /\ rel' = [rel EXCEPT ![c] = None]
  /\ UNCHANGED <<current, next, runVars, syncVars, pcVars, timeVars>>

\* queue_insert_tail on the ready queue.  A thread has one link: one that is in
\* the queue becomes its end, and those behind it are lost.
InsertTail(q, t) ==
  IF t \notin Range(q) THEN Append(q, t)
  ELSE SubSeq(q, 1, CHOOSE i \in DOMAIN q : q[i] = t)

\* Mutants: an interrupted idle thread is queued; the current thread is queued
\* at the head.
YieldAnyIdle(c, t) ==
  /\ Free(ReadyLock)
  /\ spl' = [spl EXCEPT ![ReadyLock] = c]
  /\ IF t \in KThreads
     THEN SelectNext(c, ready) /\ UNCHANGED status
     ELSE /\ SelectNext(c, InsertTail(ready, t))
          /\ status' = [status EXCEPT ![t] = "READY"]
  /\ YieldTo(c, ReadyLock)
YieldAnyHead(c, t) ==
  /\ Free(ReadyLock)
  /\ spl' = [spl EXCEPT ![ReadyLock] = c]
  /\ IF t \in IdleThreads \cup KThreads
     THEN SelectNext(c, ready) /\ UNCHANGED status
     ELSE /\ SelectNext(c, <<t>> \o ready)
          /\ status' = [status EXCEPT ![t] = "READY"]
  /\ YieldTo(c, ReadyLock)

\* insert_ready_tail(t); select_next(); yield_to_spl_unlock(.., &ready_lock, ..)
YieldAny(c, t) ==
  /\ Free(ReadyLock)
  /\ spl' = [spl EXCEPT ![ReadyLock] = c]
  /\ IF t \in IdleThreads \cup KThreads
     THEN SelectNext(c, ready) /\ UNCHANGED status
     ELSE /\ SelectNext(c, InsertTail(ready, t))
          /\ status' = [status EXCEPT ![t] = "READY"]
  /\ YieldTo(c, ReadyLock)

Yield(c, t) ==
  /\ At(c, t, "run") /\ held[t] = {}
  /\ <<"yield">> \in Calls[t]
  /\ YieldAny(c, t)
  /\ UNCHANGED <<saved, syncVars, pcVars, timeVars>>

\* kernel_smp_main's loop.
KernelLoop(c) ==
  /\ At(c, kthread[c], "kloop")
  /\ YieldAny(c, kthread[c])
  /\ UNCHANGED <<saved, syncVars, pcVars, timeVars>>
-----------------------------------------------------------------------------
(* sleep and the timer interrupt *)

\* `ticks' is read before timer_lock is taken, so ticks may pass between: the
\* key is up to n ticks away from expiry when it enters the heap.
Sleep(c, t) ==
  /\ At(c, t, "run") /\ held[t] = {} /\ Free(TimerLock)
  /\ <<"sleep">> \in Calls[t]
  /\ spl' = [spl EXCEPT ![TimerLock] = c]
  /\ timers' = timers \cup {t}
  /\ \E n \in 0..MaxSleep : due' = [due EXCEPT ![t] = n]
  /\ Goto(t, "sl_sel")
  /\ UNCHANGED <<cpuVars, runVars, syncVars, mtx, wait, ret>>

SleepBlock(c, t) ==
  /\ At(c, t, "sl_sel") /\ Free(ReadyLock)
  /\ status' = [status EXCEPT ![t] = "SLEEPING"]
  /\ SelectNext(c, ready)
  /\ YieldTo(c, TimerLock)
  /\ Goto(t, "run")
  /\ UNCHANGED <<spl, saved, syncVars, mtx, wait, ret, timeVars>>

\* The timer interrupt is taken: ticks++.
Tick(c) ==
  /\ phase[c] = "run" /\ IntrOn(c)
  /\ phase' = [phase EXCEPT ![c] = "tick"]
  /\ due' = [t \in THREADS |-> IF due[t] = 0 THEN 0 ELSE due[t] - 1]
  /\ UNCHANGED <<spl, current, next, rel, runVars, syncVars, pcVars, timers>>

\* check_timers() takes timer_lock.
CheckTimers(c) ==
  /\ phase[c] = "tick" /\ Free(TimerLock)
  /\ phase' = [phase EXCEPT ![c] = "timers"]
  /\ spl' = [spl EXCEPT ![TimerLock] = c]
  /\ UNCHANGED <<current, next, rel, runVars, syncVars, pcVars, timeVars>>

\* heap_pop of an expired sleeper and insert_ready_tail.
TimerExpire(c, t) ==
  /\ phase[c] = "timers" /\ Free(ReadyLock)
  /\ t \in timers /\ due[t] = 0
  /\ timers' = timers \ {t}
  /\ ready' = InsertTail(ready, t)
  /\ status' = [status EXCEPT ![t] = "READY"]
  /\ UNCHANGED <<spl, cpuVars, saved, syncVars, pcVars, due>>

TimersDone(c) ==
  /\ phase[c] = "timers"
  /\ \A t \in timers : due[t] > 0
  /\ phase' = [phase EXCEPT ![c] = "preempt"]
  /\ spl' = [spl EXCEPT ![TimerLock] = None]
  /\ UNCHANGED <<current, next, rel, runVars, syncVars, pcVars, timeVars>>

\* The end of timer_handler_real: a round-robin switch, where an idle thread
\* is never queued.
Preempt(c) ==
  /\ phase[c] = "preempt"
  /\ YieldAny(c, current[c])
  /\ UNCHANGED <<saved, syncVars, pcVars, timeVars>>
-----------------------------------------------------------------------------
(* Kernel code that uses the primitives: it locks in the order Below allows *)
(* and unlocks what it holds.                                              *)

Lock(c, t) ==
  /\ At(c, t, "run")
  /\ \E m \in MUTEXES :
       /\ <<"lock", m>> \in Calls[t]
       /\ held[t] \subseteq Below[m]
       /\ Call(t, "lk", m, "run")
  /\ UNCHANGED <<spl, cpuVars, runVars, syncVars, wait, timeVars>>

Unlock(c, t) ==
  /\ At(c, t, "run")
  /\ \E m \in held[t] : Call(t, "ul", m, "run")
  /\ UNCHANGED <<spl, cpuVars, runVars, syncVars, wait, timeVars>>

\* Steps a thread takes without choosing a new operation.
MutexStep(c, t) ==
  \/ MutexLockFree(c, t) \/ MutexLockQueue(c, t) \/ MutexLockBlock(c, t)
  \/ MutexLockOwn(c, t)
  \/ MutexUnlockFree(c, t) \/ MutexUnlockPass(c, t) \/ MutexUnlockWake(c, t)

BlockStep(c, t) ==
  \/ MutexStep(c, t) \/ CvWaitBlock(c, t) \/ CvSignalWake(c, t)
  \/ SleepBlock(c, t)

CallStep(c, t) ==
  \/ Lock(c, t) \/ Unlock(c, t) \/ CvWait(c, t) \/ CvSignal(c, t)
  \/ Yield(c, t) \/ Sleep(c, t)

HandlerStep(c) ==
  \/ SwitchTo(c) \/ SwitchDone(c) \/ KernelLoop(c)
  \/ CheckTimers(c) \/ TimersDone(c) \/ Preempt(c)
  \/ \E t \in THREADS : TimerExpire(c, t)

Next ==
  \E c \in CPUS :
    \/ HandlerStep(c)
    \/ Tick(c)
    \/ \E t \in THREADS : BlockStep(c, t) \/ CallStep(c, t)

Spec == Init /\ [][Next]_vars
-----------------------------------------------------------------------------
(* Properties *)

TypeOK ==
  /\ spl \in [SPLS -> CPUS \cup {None}]
  /\ current \in [CPUS -> AllThreads]
  /\ phase \in [CPUS -> Phases]
  /\ next \in [CPUS -> AllThreads]
  /\ rel \in [CPUS -> SPLS \cup {None}]
  /\ ready \in Seq(THREADS)
  /\ status \in [AllThreads -> Status]
  /\ saved \in [AllThreads -> BOOLEAN]
  /\ locked \in [MUTEXES -> BOOLEAN]
  /\ waiters \in [QUEUES -> Seq(THREADS)]
  /\ held \in [AllThreads -> SUBSET MUTEXES]
  /\ pc \in [AllThreads -> Labels]
  /\ mtx \in [AllThreads -> MUTEXES \cup {None}]
  /\ wait \in [AllThreads -> {<<>>} \cup {<<q>> : q \in CVS} \cup (CVS \X MUTEXES)]
  /\ ret \in [AllThreads -> Labels]
  /\ timers \in SUBSET THREADS
  /\ due \in [THREADS -> 0..MaxSleep]

\* The current thread of c has queued itself and is on its way off the CPU.
Leaving(c) ==
  LET t == current[c] IN
  \/ phase[c] = "switch"
  \/ phase[c] = "run" /\ pc[t] \in {"lk_sel", "cw_sel", "sl_sel"}
  \/ phase[c] = "run" /\ pc[t] \in {"ul", "ul_wake"} /\ ret[t] = "cw_sel"

\* Every way in which the kernel can still get to run t, with multiplicity.
Places(t) ==
  {<<"cpu", c>> : c \in {d \in CPUS : current[d] = t /\ ~Leaving(d)}}
  \cup {<<"next", c>> : c \in {d \in CPUS : phase[d] = "switch" /\ next[d] = t}}
  \cup {<<"ready", i>> : i \in {j \in DOMAIN ready : ready[j] = t}}
  \cup (UNION {{<<q, i>> : i \in {j \in DOMAIN waiters[q] : waiters[q][j] = t}} :
                  q \in QUEUES})
  \cup (IF t \in timers THEN {<<"timer", 0>>} ELSE {})

\* No thread is lost and none is queued or run twice: each one is on one CPU,
\* chosen by one CPU, or linked once into exactly one of the ready queue, the
\* wait queues and the sleep heap (sched_link is a single link per thread).
OnePlace == \A t \in Range(InitReady) : Cardinality(Places(t)) = 1

\* A CPU that is about to load a thread's kernel_esp finds a context that was
\* saved: a thread put in a queue by its own CPU is not run by another one
\* before it has left its stack ("otherwise other thread may switch to us
\* before yielding", sync.c).
SavedBeforeSwitch ==
  \A c \in CPUS : phase[c] = "switch" /\ next[c] # current[c] => saved[next[c]]

\* The thread that owns m: its code holds it, or an unlock passed it on and
\* the thread has not yet come back from mutex_lock.
Owners(m) ==
  {t \in AllThreads :
     \/ m \in held[t]
     \/ pc[t] = "lk_own" /\ mtx[t] = m /\ t \notin Range(waiters[m])}

\* A locked mutex has exactly one owner and a free one has neither owner nor
\* waiter: mutual exclusion, and no waiter that nobody will wake.
Ownership ==
  \A m \in MUTEXES :
    IF locked[m]
    THEN \E t \in AllThreads : Owners(m) = {t}
    ELSE Owners(m) = {} /\ waiters[m] = <<>>

\* What a monitor shows of the mutexes: the owner is the one thread Owners names.
MonitorOwner ==
  [m \in MUTEXES |-> IF locked[m] THEN CHOOSE t \in AllThreads : t \in Owners(m)
                     ELSE None]
MonitorQueue == [m \in MUTEXES |-> waiters[m]]

\* The mutexes implement KMonitor.
Monitor == INSTANCE KMonitor WITH
  THREADS <- AllThreads, owner <- MonitorOwner, queue <- MonitorQueue

\* mutex_lock and mutex_unlock, with all the windows between guard, ready
\* queue and context switch, do nothing a first-come first-served monitor
\* with direct hand-off does not do.
MonitorSpec == Monitor!Spec

\* The spinlock CPU c is spinning on, or about to.
Wanted(c) ==
  LET t == current[c] IN
  CASE phase[c] = "tick" -> TimerLock
    [] phase[c] \in {"timers", "preempt"} -> ReadyLock
    [] phase[c] = "run" /\ pc[t] \in {"lk", "ul"} -> mtx[t]
    [] phase[c] = "run" /\ pc[t] \in {"lk_sel", "ul_wake", "cw_sel", "sg_wake",
                                      "sl_sel", "kloop"} -> ReadyLock
    [] OTHER -> None

\* No two CPUs spin for each other's spinlock, and none for its own: it would
\* spin with interrupts off for ever.
NoSpinDeadlock ==
  \A c, d \in CPUS :
    Wanted(c) # None /\ spl[Wanted(c)] = d
      => Wanted(d) = None \/ spl[Wanted(d)] # c

\* Scheduling that the hardware provides.  A CPU executes its handlers to the
\* end, a thread that keeps getting the CPU makes progress between timer
\* interrupts, the timer keeps interrupting a CPU that keeps enabling
\* interrupts, and kernel code that runs leaves each of its critical sections.
Fairness ==
  /\ \A c \in CPUS : WF_vars(HandlerStep(c)) /\ SF_vars(Tick(c))
  /\ \A t \in THREADS :
       /\ SF_vars(\E c \in CPUS : BlockStep(c, t))
       /\ \A m \in {x \in MUTEXES : <<"lock", x>> \in Calls[t]} :
            SF_vars(\E c \in CPUS : Unlock(c, t) /\ mtx'[t] = m)

FairSpec == Spec /\ Fairness

\* A thread that queues for a mutex gets it, and mutex_lock returns: waiters are
\* served in order and the thread that owns the mutex is itself scheduled.
MutexServed == \A t \in THREADS : pc[t] = "lk_sel" ~> pc[t] = "run"

\* A thread in the ready queue gets a CPU, although woken threads are queued
\* in front of it.
ReadyRuns ==
  \A t \in THREADS : t \in Range(ready) ~> \E c \in CPUS : current[c] = t
=============================================================================
