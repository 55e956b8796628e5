# Specifications of the PebPeb kernel

PebPeb OS is a preemptible multiprocessor x86 kernel that implements the Pebbles system calls, with a
paravirtualising hypervisor (PebPeb) on top. This directory holds TLA+ specifications of it, the TLC
configurations that check them on small instances, and machine-checked proofs. Paths below are relative to `src/`.

* [Inventory](#inventory) - the system's parts, what can go wrong in each, what makes each correct
* [Modules](#modules) - which module models what, and how to read one beside the code
* [Runs](#runs) - what TLC checks, the bounds and the fairness
* [Divergences](#divergences) - where the code disagrees with its own comments
* [Proofs](#proofs) - what holds for every instance, and why
* [Not modelled](#not-modelled) and [Next](#next)

## Inventory

| part | code | state | operations | shared with |
|---|---|---|---|---|
| boot, main loop | `kern/kernel.c` | per-CPU idle thread and kthread | `kernel_main`, `kernel_smp_main` | scheduler |
| spinlocks | `kern/sync_asm.S` | lock word, interrupt flag | `spl_lock`, `spl_unlock` | every CPU |
| mutexes, condition variables | `kern/sync.c` | `locked`, waiters' queue, guard | `mutex_lock/unlock`, `cv_wait/signal` | all kernel code |
| scheduler | `kern/sched.c`, `sync_asm.S` | ready queue, `thread_t.status`, current thread per CPU, saved stack pointers | `select_next`, `insert_ready_*`, `yield_to_spl_unlock` | interrupts, all CPUs |
| timer, sleep | `kern/timer.c`, `syscall_process.c` | `ticks`, heap of sleepers | timer interrupt, `sleep`, `get_ticks` | scheduler |
| thread calls | `kern/syscall_thread.c`, `sched.c` | tree of threads, `p->threads`, `pending_exit`, `status_lock` | `thread_fork`, `yield`, `deschedule`, `make_runnable`, `vanish`, `swexn` | user threads, scheduler |
| processes | `kern/sched.c`, `syscall_process.c` | `process_t`, lists of live and dead children, `nwaiters` | `fork`, `exec`, `wait`, `task_vanish`, reparenting to init | parent, children, init |
| address spaces | `kern/sched.c`, `syscall_memory.c`, `interrupt.c`, `paging.c` | regions, page tables | `new_pages`, `remove_pages`, zero fill on demand, fork's copy | page allocator |
| physical pages | `kern/mm.c` | bitmap, binned free lists | `alloc_user_pages`, `free_user_pages` | address spaces, hypervisor |
| kernel heap | `kern/malloc_wrappers.c` | `malloc_lock` around the course allocator | `malloc` family | all kernel code |
| user memory | `kern/usermem.c` | fault recovery flag | `copy_from_user`, `copy_to_user`, `copy_string` | system calls |
| consoles | `kern/pts.c`, `syscall_io.c` | screen, scan code ring, reference counts | `print`, `readline`, console switching, keyboard interrupt | interrupts, processes |
| interrupts, faults | `kern/interrupt.c`, `*_asm.S` | descriptor table | fault handlers, system call entry | all |
| data structures | `kern/common.c` | queues, heap, red-black tree, vector | - | all |
| hypervisor | `kern/pv.c`, `hvcall.c` | virtual interrupt table, pending interrupts, shadow page directories | hypercalls, injection | interrupts, address spaces |
| user locks | `user/libthread/{mutex,cond,sem,rwlock}.c` | words in user memory | on `deschedule`/`make_runnable` | user threads |
| user threads | `user/libthread/thread.c` | tree of user control blocks | `thr_create`, `thr_join`, `thr_exit` | user locks |

**How they interact.** Everything that waits, waits through the scheduler. A thread that blocks links itself
(one `sched_link` per thread) into the queue of what it waits for, under that queue's spinlock, picks the next thread
under `ready_lock`, and calls `yield_to_spl_unlock`, which releases the queue's spinlock only after it has left the
stack. Whoever ends the wait unlinks the thread and puts it into the ready queue under `ready_lock`. Interrupts enter
the same code through the timer and the keyboard. System calls use mutexes for what they share: `threads_lock` for the
tree of threads, `refcount_lock` for a process's threads, `wait_lock` for its children, `mm_lock`, `malloc_lock`.

**What is hard.** Preemption at any instruction with interrupts on; two CPUs in the window between choosing a thread
and switching to it; lookups of threads that exit; wakeups and kills that race with going to sleep; mutexes handed over
while the new owner sleeps; lock order across spinlocks taken in interrupt handlers. The list, each hazard at its line
and with the properties that cover it, is in `PROJECT.json` under `hazards`.

**What makes each part correct.**

* *Spinlocks*: no two CPUs ever spin for each other's, none for its own.
* *Mutexes*: one owner; who finds the mutex owned waits; first come, first served; every waiter gets it.
* *Scheduler*: a thread is in exactly one place, is never run by two CPUs nor before its context is saved, and a ready
  thread gets a CPU.
* *Thread calls*: no wakeup is lost, a killed thread exits, a freed control block is not used.
* *Processes*: each dead child has one keeper, a `wait()` that should find a dead child does, and blocks only while a child
  can still come; `process_t` is not used after it is freed; families that exit together never wait in a circle.
* *Memory*: every page frame has one owner and one use, a failed call leaves none behind, no process reads what another
  left, a fork's child reads what its parent does.
* *User library*: a free mutex is not left to sleepers, a writer is alone, a semaphore's unit is not left unused,
  no two threads share a stack.
* *Consoles*: a console in which a thread is settled is not freed; keys come out once, in order, to the oldest request.
* *Hypervisor*: no interrupt request of a guest is lost or overlooked; shadow directories live as long as they are
  counted, and none is leaked.
* *Data structures*: the tree stays a red-black search tree, the heap wakes sleepers on time, identifiers are fresh.

## Modules

| module | content | composed with |
|---|---|---|
| `KSched` | spinlocks, mutexes, condition variables, ready queue, context switch, timer, sleep, `yield(-1)`, kthread loop | |
| `KMonitor` | abstract: a first-come first-served monitor with direct hand-off | `KSched` implements it |
| `KSchedInv`, `KSchedProofs` | the inductive invariant of `KSched`, which `KThread` keeps too, and its proofs | `KSched` |
| `KThread` | thread system calls and thread exit | EXTENDS `KSched`, reuses its actions |
| `KThreadInv`, `KThreadProofs` | the inductive invariant of `KThread`, and its proofs | `KThread`, `KSchedProofs` |
| `KProc` | `fork`, `thread_fork`, `exec`, `wait`, exit of a process, reparenting, release of `process_t` | mutexes as `KMonitor` has them |
| `KProcInv`, `KProcProofs` | the inductive invariant of `KProc`, and its proofs | `KProc` |
| `KMem` | regions, page directories and tables, loading, `new_pages`, `remove_pages`, zero fill, fork's copy | allocator as `KPages` promises |
| `KPages` | bitmap, bins, splitting and coalescing of physical pages | |
| `KTree` | red-black tree, one step per turn of the fix-up loops | |
| `KTimer` | `sleep` and timer interrupt over the heap's array, with its growing and shrinking | |
| `KTid` | `alloc_tid` | tree as `KTree` promises |
| `KConsole` | creation, switching, counting and release of consoles: the ring's links, `pts_lock`, and the keyboard handler that does not take it | |
| `KKeyboard` | keyboard interrupt, the two rings as arrays with their positions, `readline`, `getchar` | |
| `DeviceProofs` | proofs about `KConsole` and `KKeyboard` | |
| `KVirq`, `KVirqProofs` | a PV guest's virtual interrupts, faults, system calls and the hypercalls about them, and proofs | |
| `KShadow` | a PV guest's shadow page directories and the hypercalls about them | |
| `AllocProofs` | proofs about what is handed out and taken back: `KTid`, `KPages` and `KShadow` | |
| `UMutex`, `UMutexProofs` | the user library's mutex, word by word, over `deschedule` and `make_runnable`, and proofs | `deschedule` as `KThread` has it |
| `ULib` | the threads that the user library's modules speak of | |
| `UCond` | user condition variables, with the waiters' nodes on their stacks | mutex as `UMutex` promises |
| `USem`, `URwlock`, `UThread` | semaphores; reader/writer locks; `thr_create`, `thr_join`, `thr_exit` with reused stacks and control blocks | EXTEND `UCond` |
| `ULibProofs` | proofs about `UCond`, `USem`, `URwlock` and `UThread` | |
| `KSchedMC`, `KThreadMC`, `KProcMC`, `PartsMC` | instances for TLC | |

A layer is composed with the one below either with its actions (`KThread` EXTENDS `KSched`; `USem`, `URwlock` and `UThread`
EXTEND `UCond`) or through what the lower one is shown to do: `KProc` takes a mutex for its owner, as in `KMonitor`; `UMutex`
takes `deschedule` and `make_runnable` for atomic, which `KThread`'s `NoLostWakeup` supports; `UCond` takes a mutex for its
owner, as `UserMutualExclusion` shows; `KMem` takes a run of free frames or fails, as `PagesCorrect` says.

`PartsMC` holds the instances of the modules that stand alone. They share no state, so one run checks all of them: `Init`
chooses the part a behaviour is about, the actions of the other parts are disabled, and every property is about one part. This
is a sum of state spaces, not a product; each module keeps its own `...Spec`, which `PartsMC` spells out action by action.
The parts that are proved about are EXTENDed by `PartsMC`, so that run and theorem speak of the same definition; the others are
instances. `USem`, `URwlock` and `UThread` have the variables of `UCond` in common, of which a behaviour has one use.

### Grain of atomicity

A CPU that holds a spinlock has interrupts off, so what it does up to the next spinlock operation is invisible to its
own interrupts; other CPUs see it only through variables they read without that lock, which here are a thread's
`status` and the ready queue, protected by `ready_lock`. A step of a model is therefore the code between two such points:
taking a spinlock (a guard `Free(l)`), releasing it, changing a status somebody reads, or switching stacks. Preemption is
possible between any two steps in which no spinlock is held (`Tick`).

`yield_to_spl_unlock` is three steps: the caller chooses (`SelectNext`, `YieldTo`), `SwitchTo` saves one context and
loads the other, `SwitchDone` releases the spinlock on the new stack. The interval is where the scheduler's races live.

### State and code

| `KSched` | code |
|---|---|
| `spl[l]` | the lock word of spinlock `l`, with its holder; a mutex or condition variable names its `guard`, a thread its `status_lock` |
| `current`, `idle`, `kthread` | `percpu_t` |
| `phase`, `next`, `rel` | where a CPU is in `timer_handler_real` or `yield_to_spl_unlock`, and that function's arguments |
| `ready`, `waiters[q]` | the circular lists through `sched_link`, as sequences |
| `status[t]` | `thread_t.status`; like the code, it stays as it is when a switch finds the current thread chosen |
| `saved[t]` | `kernel_esp` holds the context of `t`: the thread is off every stack |
| `locked[m]` | `mutex_t.locked` |
| `held[t]` | history: mutexes for which `mutex_lock` has returned to `t` and which it has not begun to release |
| `pc`, `mtx`, `wait`, `ret` | control point and arguments of a thread inside a primitive |
| `timers`, `due` | heap of sleepers, as a set with the ticks left |

Actions carry the function's name (`MutexLock...`, `CvWait...`, `Sleep...`, `Tick`, `CheckTimers`, ...); `map` in
`PROJECT.json` gives the lines each one stands for. In `KThread`, prefixes name the call: `YieldTo`, `Deschedule`,
`MakeRunnable`, `Fork`, `Vanish`, `TaskVanish`. Its variables are the tree of threads, the process's list, `pending_exit`,
the user's reject word, the system call's argument, the list position of `task_vanish`, and the freed control blocks.

The kernel code *around* the primitives is represented by `Calls[t]`, the operations thread `t` may perform, in any
order and any number of times, and `Below[m]`, the mutexes that may be held when `m` is locked. `Below` states the lock
order of the code (`init_process->wait_lock` inside a process's `wait_lock`, for instance).

In the other modules a step is a critical section of the code, cut where the thread may block or where another thread or an
interrupt that does not take the lock may look: `KProc` cuts the exit of a process at each mutex it takes, `UMutex` at each
word it reads, `KKeyboard` between the test of a ring and the wait, `KVirq` before, in and after the check for pending
interrupts. `KConsole` is cut finer, since `pts_init` and the keyboard handler take no lock: each write of a link, each read of
`active_pts` or of a link, and each thing `switch_pts` does under `pts_lock` is a step. `KTree` and `KTimer` follow arrays and links; `KMem`
and `KPages` have an operation per step, since it runs under its `mm_lock` or the allocator's.

### Abstractions

* `ticks++` is atomic, and a tick of any CPU counts for all sleepers.
* With at most eight sleepers (`ThreadAssumption`) the heap never reallocates: it starts with room for eight and shrinks
  only from sixteen. `heap_insert` therefore neither fails nor blocks.
* `cv_signal` on a condition variable without waiters takes and releases the guard and does nothing else: no step.
* A thread fork's allocations are not steps: `malloc_lock` is taken and released around them and nothing is shared.
  The console's counter of users, which `thread_fork` increments under the console's mutex, is left to the console module.
* A tid is the thread it names; None is a tid nobody has (`KTid` is about the numbers).
* The last thread's part of `kill_current` (reparenting, freeing memory) belongs to `KProc`: in `KThread`
  the process never ends.
* `KProc`: a `process_t` is not reused, so that a use after it is freed is visible; the operations on the lists of
  children are steps. init has one thread; `exec` is called in processes with one thread, and bad status pointers are passed
  by processes with one thread: with several, the code fails as its hazards say. `strays` is a history variable.
* `KMem`: a frame's content is one of "zero", "file", "own" and "old" (an earlier owner's). A `new_pages` that fails half-way
  leaves entries behind that point to freed frames: `undone` says so, and the behaviour is not followed further.
* `KTimer` counts sizes of the vector and moves of the heap as the code does; the clock is cut off before it wraps.
* `UMutex`: spinlocks of the library are waited for by polling, so holding one is a flag. The mutex lets
  newcomers overtake, so only that a wanted mutex is taken again is claimed (`FreeMutexTaken`), not who takes it.
* A queue through `sched_link` is a sequence. Linking a thread that is in the queue already (`InsertTail`) relinks its one node, as
  `queue_insert_tail` does: what a walk from the head still reaches is the sequence up to that thread, and the others are lost.
* `KConsole`: a behaviour ends when something that is still to be used points at a freed console (`Intact`): what the code then does
  is up to the allocator. The compiler may keep the tail `queue_insert_tail` has read or read it again; both are taken.
  The handler is one processor's, and of a key other than TAB only how long it uses its console matters.
* `KKeyboard`: the screen, and what a key looks like, are left out; a key is a letter, a newline or an erasing key. The rings are not
  abstracted: `kh` and `chr` are only names for what lies between their positions.
* `KVirq`: the frame pushed on the guest's stack is left out, and that a hypercall's arguments cannot be read kills
  the guest, as `HvExit` does. `KShadow`: the guest's tables are read anew at each use, so any content may be found there;
  one table of one page stands for all.

## Runs

TLC explores each instance completely. `Three` threads are what it takes for one owner and two ordered waiters; two
CPUs what it takes for a race in the switch window; on one CPU fairness has the least to give.

| run | instance | shows |
|---|---|---|
| `sched_up` | 1 CPU, A B C on one mutex, sleep up to 1 tick, yield | `KMonitor` is implemented; each waiter gets the mutex; no ready thread starves |
| `sched_smp` | 2 CPUs, A B C on a monitor with a condition variable and a mutex nested in it, sleep up to 1 tick, yield | types; no thread lost, doubled or run before it is saved; one owner per mutex; no spinlock deadlock |
| `thread_smp` | 2 CPUs; A forks B; A wakes B and kills the process; B deschedules itself, waits for a mutex or exits | one place per thread, descheduled ones included; no lost wakeup or kill; no use of a freed block; no spinlock deadlock |
| `thread_up` | 1 CPU; A kills B or yields to it or to nobody; B sleeps, deschedules or waits for a mutex | a killed thread exits; the directed switch keeps every thread in one place |
| `proc_life` | init and three processes, five threads; one process has several threads and does not exec | one keeper per process; no missed child; no wait without a child; no use of a freed `process_t`; no circle of mutexes |
| `parts` | thirteen parts, see below | each part's properties |
| `yield_hang`, `yield_self`, `yield_smp`, `fork_race` | two or three threads | violations, see [Divergences](#divergences) |
| `sem_lost`, `fork_copy` | parts `sem` and `mem` on other instances | violations |

| part of `parts` | instance | properties |
|---|---|---|
| `mutex` | 3 threads | `NobodyForgotten`, `WakesOnlyWaiters`, `FreeMutexTaken` |
| `sem` | 3 threads, count 1 | `NoUnitUnused` |
| `rwlock` | 3 threads: two writers and two readers, or one writer that downgrades and two readers | `NodesAlive`, `WriterAlone` |
| `thread` | 3 threads and control blocks | `StackIsOwn`, `TcbOnePlace` |
| `tree` | keys 1 to 7 | `TreeCorrect` |
| `pages` | 6 pages, 3 bins | `PagesCorrect` |
| `timer` | 4 sleepers, 3 ticks; a vector of 2 that doubles and halves | `WakesOnTime` |
| `tid` | 1 creator, identifiers up to 7 | `FreshTid` |
| `mem` | 2 processes, 8 frames, 3 pages with 2 per page table | `MemCorrect`, `ForkCopies` |
| `console` | 3 consoles, 2 threads, the keyboard handler | `ConsoleKept` |
| `keyboard` | 2 readers, rings of 3 cells, 4 keys, `getchar` and lines of one and two characters | `ReadsCorrect` |
| `virq` | 2 keys | `VirqCorrect` |
| `shadow` | 2 directories, 3 records, 6 frames, at most one reference each | `ShadowsKept` |

**Bounds, and why they are enough.** `MaxSleep` bounds the sleeping time (0 or 1 tick in `KSched`: a sleeper that is due at
once, or only after a further tick; up to 3 in `KTimer`, so that four sleepers fill the heap in any order and the vector
grows and shrinks twice). Seven keys reach every case of the tree's two fix-ups. Six pages have chunks with free neighbours
on none, either and both sides, in three bins. Three pages with two per table make a region that crosses a table. Eight frames
run out in the middle of a `new_pages` and of a `fork`. A ring of three cells is full after two keys, and with four keys a line of two lies across its end. Two threads and
three consoles make one thread link a console while the other's switch takes the tail out of the ring. `MaxTid` is small so that
the identifiers run out and gaps are reused. Two directories and three records make a guest load one that is listed, one that
is new and one that was given up. Elsewhere nothing is cut off: threads repeat their calls for ever, and the state
spaces are finite because queues hold each thread at most once. A thread is forked once in `KThread`.
`sched_smp` and `thread_smp` identify states that differ by exchanging the CPUs
together with their idle threads and kthreads, `proc_life` those that exchange processes or threads with the same calls; no
other part of the specification tells them apart.

**What the instances leave out, because the code fails there.** Each is a hazard in `PROJECT.json`:

* `thread_up` lets one thread only use `threads_lock`, and never yield to itself (`yield_hang`, `yield_self`). `yield_hang` has
  deadlock checking off, since a CPU that spins for ever is what it exhibits.
* `proc_life`: `exec` releases a `refcount_lock` it does not hold (`kern/syscall_process.c:223`), and a `wait` whose copy fails
  misleads a second waiter of the process (line 338).
* `tid`: two creators between the read and the store of the counter get the same identifier (`kern/sched.c:421`).
* `timer`: after the clock wraps, keys are compared wrongly (`kern/timer.c:89`).
* `mem`: `ForkCopies` speaks of regions within one page table; `fork_copy` is about the others.
* `console`: behaviours end when `Intact` fails, and they do get there. TLC refutes every part of it, already with two threads: a switch
  frees the console a maker has linked and not yet counted itself in, the one whose lock a leaving thread has still to release
  (`kern/pts.c:76`, `kern/syscall_misc.c:174-180`), the one the handler has read from `active_pts` or is about to switch to
  (`kern/pts.c:273-313`), or the tail that `pts_init` is linking to (`kern/pts.c:69`). No comment promises that these are safe, so
  `ConsoleKept` claims what the counters do protect, up to the first such step.
* `keyboard`: a key between the test of the ring and the wait wakes nobody (`kern/pts.c:443`); the step is there, nothing is
  claimed of it.
* `virq` (`OtherCpu = FALSE`): a key on another CPU between injection and clearing is lost (`kern/pv.c:368`).
* `shadow`: records that `loadpd` freed on its way stay listed (`kern/hvcall.c:794`); `loaded = "strays"` ends the behaviour.
* `rwlock`: with `rwlock_downgrade` a writer may find readers (`user/libthread/rwlock.c:66`); `WriterAlone` excludes the instance that downgrades.
* `sem`: with a count of one a second signal finds no waiter that the first has not woken; with two it does (`sem_lost`).

`CHECK_DEADLOCK FALSE` stands in `proc_life` and the `PartsMC` runs: a system in which every process has exited, or a guest is dead, stops.

### Fairness

`Fairness` (in `KSched`) says, for each CPU: a handler it has entered is executed to its end (weak); a CPU that enables
interrupts again and again is interrupted again and again (strong: the APIC timer is periodic). For each thread: if it is
again and again on a CPU and able to go on, it does go on (strong: a time slice is many instructions; without this a
thread could be preempted at each of its instructions for ever). For each mutex a thread's code may hold: a thread that
is again and again able to leave that critical section does leave it. Kernel code has no unbounded critical section.
`KFairness` adds the same for the steps of a system call. `PartsMC` assumes of the user mutex that a thread inside
`mutex_lock` or `mutex_unlock` goes on (weak), which a fair scheduler gives, and nothing of who calls it. No fairness is assumed of entering system calls, of the order of
the ready queue, or of who gets a mutex: these are what `ReadyRuns` and `MutexServed` are about.

## Divergences

Each is a run that checks one statement of a comment and that TLC refutes.

* `yield_hang` / `UnlockWakes`. `sys_yield_real` calls `mutex_unlock(&threads_lock)` with `ready_lock` held
  (`kern/syscall_thread.c:204`). With a thread waiting for `threads_lock`, `mutex_unlock` takes `ready_lock` again: the CPU
  spins for ever with interrupts off. `sync.h:75` says that one blocked thread is woken.
* `yield_self` / `RunningNotReady`. When a switch finds that the current thread was chosen, its status stays READY
  (`kern/sync_asm.S:72`). A later yield to its own tid takes the READY branch (`kern/syscall_thread.c:196`), where `queue_detach` has
  nothing to take out of the empty queue, and inserts the running thread: it goes on with its one `sched_link` in the ready
  queue, and that is the link it blocks with. `sched.h:336` calls `ready` the queue of ready threads. What the code does
  with the queue afterwards is not claimed.
* `yield_smp` / `NotSuddenlyRun`. `mutex_lock`, `cv_wait`, `sleep` and `deschedule` drop `ready_lock` between choosing and
  switching (`kern/sync.c:26-31`). In between, the chosen thread is READY and in no queue, and a `yield(tid)` of another CPU
  takes it too. The comment at `kern/syscall_thread.c:201` says that it will not suddenly run.
* `fork_race` / `AllKilled`. `thread_fork` copies `pending_exit` (`kern/syscall_thread.c:48`) before the new thread joins
  the list that `task_vanish` walks; a kill in between misses it. `kern/syscall_process.c:187` speaks of all other threads.

* `sem_lost` / `NoUnitUnused`. `sem_signal` signals only when the value has become one (`user/libthread/sem.c:55`). Two signals
  before the first woken waiter runs raise the value to two and wake one of two waiters; the other sleeps beside a free
  unit. The comment at `sem.c:46` says that `sem_signal` wakes a waiting thread.
* `fork_copy` / `ForkCopiesAll`. When `copy_region` crosses into the next page table it looks the source's first table up again
  (`kern/syscall_process.c:144`), so a page the parent has written may look never accessed; the child then reads zeros. The
  comment at line 159 says that a page is skipped because the source waits for its first access.

The passing runs therefore concern `yield(-1)` in full, and `yield(tid)` only in `thread_up`; the proofs concern `yield(tid)` only
with a tid that nobody has.

## Proofs

There are eight proof modules. `KSchedProofs` proves, for every finite set of at most eight threads and any sets of CPUs, mutexes and condition variables, any
`Calls` and any lock order `Below`:

| theorem | property | meaning |
|---|---|---|
| `Invariance` | `IInv` | the inductive invariant |
| `TypeCorrect` | `TypeOK` | types; idle threads and kthreads are never queued |
| `MutualExclusion` | `Ownership` | a locked mutex has exactly one owner, a free one neither owner nor waiter |
| `NoThreadLost` | `OnePlace` | a started thread is in exactly one place |
| `SavedContext` | `SavedBeforeSwitch` | no CPU loads a context that is not saved |
| `SpinlockOrder` | `NoSpinDeadlock` | no CPU spins for its own spinlock, no two for each other's |
| `MutexRefinement` | `MonitorSpec` | every behaviour of the scheduler's mutexes is one of `KMonitor` |

The assumptions are those of `KSched`: idle threads and kthreads belong to one CPU each, names of different things differ,
the initial ready queue has no repetition, no mutex is below itself in the lock order, at most eight threads. That the number of threads is at most eight is used
by no proof; it is what makes the heap's abstraction right.

**Why a stronger invariant.** None of the properties is inductive. `Ownership` looks at mutexes only, but is lost if a
waiter can be in two queues, or if two CPUs are inside the same guard. `IInv` (in `KSchedInv`) ties the pieces together:

* `SpinInv`: the holder of every spinlock follows from the control points: a lock word is no independent state.
* `BusyInv`: a thread inside a critical section is on a CPU whose interrupts are off.
* `CpuInv`, `CurrentInv`: a thread is current on one CPU; a current thread is linked only where it is about to leave to,
  with that queue's spinlock held by its CPU.
* `GoneInv`: a thread that is dead or has descheduled itself is linked nowhere. In `KSched` these are the threads
  that never start; `KThread` needs it for those that come, sleep and go.
* `QueueInv`, `LinkedInv`: the queues and the chosen threads are disjoint and free of repetition, and nobody is missing.
* `SavedInv`: a context is saved exactly when the thread is on no CPU.
* `PcInv`, `WaiterInv`, `OwnInv`: what a control point says of arguments, waiters and owners. An owner is a thread with
  the mutex in `held`, or one in `mutex_lock` that has been taken out of the queue.

**Shape of the proof.** The steps fall into kinds that disturb the machine part of `IInv` in the same way, each with a
lemma: `LocalStep` (no spinlock, no queue), `AcquireStep` (takes a guard and perhaps queues itself), `GuardStep` (takes a guard
to wake somebody), `WakeStep` (moves the oldest waiter to the ready queue), `SwitchStep` and `LeaveStep` (chooses and
enters the switch), `SwitchToStep`, `PhaseStep` (handlers). One lemma per action then instantiates its kind and adds
what the action does to owners and waiters. Handlers touch neither (`ThreadFrame`).

`NoThreadLost` is counted from `IInv` in lemmas: `SomePlace` (from `LinkedInv`), `NotTwoPlaces` (from the rest) and `NoPlace` (from
`GoneInv`).

`MutexRefinement` maps a mutex's owner and queue to the monitor's. The owner is the thread that `OwnInv` gives it, so the hand-off
in `mutex_unlock`, which spans a guard, a dequeue and a wake-up, is one step of the monitor. It needs, besides `IInv`, what a
thread inside `mutex_lock` asked for (`LockingInv`): that it does not hold the mutex yet, which rests on the lock order.

**The thread system calls.** `KThreadProofs` proves the invariants of the thread runs for any sets of CPUs, mutexes and condition
variables and any `Calls` with `NoYieldTo`: no thread calls `yield(tid)` for a thread of the instance, so that the call looks its
tid up and fails. The hypothesis is needed: [the violation runs](#divergences) show that without it a thread is taken by two
CPUs (`yield_smp`), runs while it is linked in the ready queue (`yield_self`), or is left with `ready_lock` held (`yield_hang`). `thread_smp`'s
instance satisfies it. The assumptions are those of `KSched` and that the three mutexes the calls use are mutexes (`CallAssumption`).

| theorem | property | meaning |
|---|---|---|
| `KInvariance` | `KIInv` | the inductive invariant |
| `KTypeCorrect` | `KTypeOK` | types |
| `KNoThreadLost` | `KOnePlace` | a thread that lives is in exactly one place, descheduled ones included; any other in none |
| `WakeupsKept` | `NoLostWakeup` | a thread sleeps with its reject word set only while somebody is about to wake it |
| `KilledWoken` | `KilledNotAsleep` | so does one with a pending exit |
| `KNoUseAfterFree` | `NoUseAfterFree` | no queue, list, CPU or system call refers to a freed control block |
| `KSpinlockOrder` | `KNoSpinDeadlock` | the `status_lock`s make no circle with the other spinlocks |
| `KMutualExclusion`, `KSavedContext` | `Ownership`, `SavedBeforeSwitch` | what `KSched` promises holds with these calls as well |
| `KBlockedIfHeld` | | no two threads hold the same mutex |

`KIInv` (in `KThreadInv`) is `IInv`, kept by both layers, and what a system call adds:

* `LabelInv`: which mutex a call holds follows from its label, and it never holds two. A kthread runs only its loop and the unlock
  of `malloc_lock` that a dead thread left to it.
* `StatusLockInv`: a `status_lock` is held by the CPU whose control point says so, and that code is not interrupted. When
  `deschedule` switches away the lock is released after the switch, as a queue's guard is.
* `ArgInv`: what a call knows of the thread it works on. `make_runnable` goes on only with a descheduled thread, whose
  `status_lock` it holds; `task_vanish` works on members of the process; no two forks make the same thread.
* `RestInv`, `TreeInv`: a dead or descheduled thread executes nothing; a thread is missing from the tree and the process's list
  only on its way out, and a freed one is in neither.
* `WakeInv`: for each thread that is asleep *or has decided to sleep* (`Asleep`) and should not, a call works on it that will wake
  it. `NoLostWakeup` and `KilledNotAsleep` speak of sleeping threads only and are not inductive: between `deschedule`'s test and its switch
  the thread is not asleep yet, and a `make_runnable` that failed there would be missing afterwards. That it waits there instead of failing
  is `StatusLockInv`.

TLC checked `KIInv` on `thread_smp`'s instance before it was proved. A step of the scheduler keeps it because it stays inside one
primitive (`PrimitiveStep`, `ThreadStep`) or is a handler's (`HandlerKeeps`). A step of a call keeps `IInv` by one lemma for each kind
of step (`OnlyCallStep`: no spinlock; `TakeStep`: takes a `status_lock`; `InsertStep`: puts a thread into the ready queue), and the
conjuncts above by one lemma per action. `DescheduleBlock`, which switches away under a `status_lock`, and `VanishDie`, which hands its
mutex to the kthread and frees the thread's control block, are kinds of their own.

**The life of processes.** `KProcProofs` proves the six invariants of `proc_life` for any finite sets of processes and threads and any `Calls` that are `Careful`:
init has one thread, and a process with several neither calls `exec` nor passes a bad pointer to `wait`. This is what the
run's instance satisfies, and what [the divergences](#divergences) and hazards say the code needs: without it, `exec`
releases a mutex it does not hold.

| theorem | property | meaning |
|---|---|---|
| `ProcInvariance` | `PIInv` | the inductive invariant |
| `ProcTypes` | `PTypeOK` | types |
| `ProcessFreedOnce` | `OneKeeper` | a process in use is in one place from which it will be freed |
| `NoProcessUsedAfterFree` | `NoProcUseAfterFree` | no thread and no child refers to a freed `process_t` |
| `NoChildMissed` | `NoMissedChild` | no thread sleeps in `wait` while a dead child is left for it |
| `WaitersAlwaysHaveChildren` | `WaitersHaveChildren` | `wait` never waits for a child that cannot come |
| `NoDeadlockOfLocks` | `NoLockCycle` | the mutexes of exit and `wait` form no circle |

`PIInv` (in `KProcInv`) is needed because none of them says who may still change a list: a child is in its parent's list only
as long as nobody has moved the children to init, and nobody moves them but the last thread of the parent.

* `CountInv`: `refcount` and `nwaiters` are the numbers of threads at certain labels; `LastInv`: the thread that brings
  `refcount` to zero is the only one left.
* `RefLockInv`, `WaitLockInv`: locks follow from labels, except init's `wait_lock` after it was unlocked by a stranger (`strays`).
* `LiveInv`, `DeadInv`, `TakenInv`, `ActiveInv`, `FoundInv`: a child is alive in one list, over in one, or with one waiter.
* `LoneInv`, `NewInv`: what makes `exec` and `fork` safe: a sole thread, and a child nobody else knows yet.
* `ChildlessInv`, `FreedInv`, `MissInv`: what is left when the last thread has gone.

The proof has a lemma per conjunct and action that disturbs it; `CountFacts` and `LiveFacts` do the arithmetic of cardinalities. That
waiters have children is an inequality between `nwaiters`, the children alive and the list of dead ones.

The other five modules prove invariants of the small machines, with a lemma per action or kind of action.

| theorem | property | meaning, and under which assumptions |
|---|---|---|
| `UMutexProofs!UserNobodyForgotten` | `NobodyForgotten` | any number of threads: no wake-up of the user mutex is lost |
| `UMutexProofs!UserWakesOnlyWaiters` | `WakesOnlyWaiters` | an unlocker touches only threads that are still in `mutex_lock` |
| `UMutexProofs!UserMutualExclusion` | | one thread at a time holds the lock word |
| `ULibProofs!SemNoUnitUnused` | `NoUnitUnused` | any number of threads, count 1: nobody sleeps in `sem_wait` while there is a unit for it |
| `ULibProofs!SemAtMostCount` | | any count: at most that many threads are past `sem_wait` and not in `sem_signal` |
| `ULibProofs!RwNodesAlive` | `NodesAlive` | any readers and writers: a broadcast reads only nodes of threads that still wait |
| `ULibProofs!RwWriterAlone` | `WriterAlone` | a writer is alone, if nobody downgrades |
| `ULibProofs!ThrStackIsOwn` | `StackIsOwn` | any threads and control blocks: a stack in use is not unmapped or shared |
| `ULibProofs!ThrTcbOnePlace` | `TcbOnePlace` | a control block is free, or in the tree under its thread, or being set up |
| `DeviceProofs!NoSettledConsoleFreed` | `ConsoleKept` | any threads and consoles, the handler and `pts_init` without `pts_lock`: no console is freed while a thread is settled in it |
| `DeviceProofs!KeysReachReaders` | `ReadsCorrect` | any size of the rings, readers and calls: each key is read once and in order, or erased |
| `AllocProofs!TidsFresh` | `FreshTid` | any largest int, one creator at a time: identifiers are fresh, also in reused gaps |
| `AllocProofs!PagesAreCorrect` | `PagesCorrect` | any numbers of pages and bins: no page is lost or given twice, and a request fails only when no run of that length is free |
| `AllocProofs!ShadowsCounted` | `ShadowsKept` | any directories, records and frames: a listed record is counted and no frame is lost, until `loadpd` frees listed ones |
| `KVirqProofs!InterruptsKept` | `VirqCorrect` | any keys, keyboard on the guest's CPU: no request is lost or overlooked |

* `UMInv`: the list holds each thread of `mutex_lock` once (`ListInv`); lock word and `w_lock` have one owner
  (`LockInv`); while an unlocker calls `make_runnable`, the thread is the head of the list and has its flag set (`WakingInv`, from
  which `WakesOnlyWaiters` follows); the head sleeps, or is about to, only if the lock is taken, an unlocker is on its way, or
  the flag tells it to go on (`HeadInv`). `NobodyForgotten` alone says nothing of a thread that is about to sleep.
* `NodeInv`, of every user of `UCond`: the nodes nobody has signaled belong to threads in `cond_wait`, one each, and the list that
  a broadcast walks belongs to the one that holds the condition variable's lock.
* `SemInv`: units and threads inside add up to `count` (`UnitsInv`); with a count of one, a free unit and a waiter mean that
  somebody is awake to take it (`AwakeInv`). With two this fails, as run `sem_lost` shows, and so does the property.
* `RwInv`: the lock's state says who is inside (`RwStateInv`), as long as nobody downgrades; `NodesAlive` needs only `NodeInv`.
* `ThrInv`: where every control block is (`BlockInv`), that a thread's block is its own (`OwnBlock`), and that a block has one
  joiner, who goes on when its thread has exited (`JoinInv`). The stack goes with the block.
* `ConsoleInv`: a console counts the threads on it, those that have left it and not yet said so, and the kernel
  (`CountsInv`). A switch that finds a count of zero therefore finds nobody settled there; and until it frees the console, only the
  thread that made it can come in (`SwitchInv`), since a fork needs somebody inside. That thread is just moving in, so
  `ConsoleKept` does not speak of it; the behaviour ends when the console is freed before it is through.
* `KbdInv`: the queue of requests holds the thread that is served and then the sleepers, as the condition variable does
  (`QueueInv`); the keys' numbers rise through both rings (`OrderInv`); `getchar` looks at keys only when no character is left
  (`GetcharInv`), without which it would return a key before older characters.
* `RingInv`: `readline` takes a key only while the ring of characters has room, and never flushes an empty line (`RoomInv`). Both
  matter to the positions: one key too many makes a full ring look empty, and `flush_line` takes a line of length zero for
  one that wraps. `RingPush`, `RingPop`, `RingUnpush`, `RingSkip` and `CopiedLine` show that the arithmetic on positions does to the
  rings' contents what it should; `HandlerRings`, `TurnRings`, `ScRings` and `FlushRings` restate the actions that way.
* `TidInv`: the gap from `tid` to `next_check` holds no key of the tree (`GapFree`), and what the creator has read
  lies in it. `GapStarts` and `GapEnds` show that the search finds such a gap, from the least element of a set of naturals.
* `PageInv`: the chunks handed out and the free ones tile the pages (`Tiled`). The bins hold exactly the free chunks, each
  once, in the bin of its size, with the size written at both ends (`BinsHold`); the bits at a chunk's ends tell whether it is
  handed out (`BitsTell`); and no free chunk follows another (`Coalesced`), without which a request could fail although a run of pages
  is free. `free_user_pages` finds its neighbours by these bits and sizes.
* `ShadowInv`: the list is without repetition and holds the active record, and a listed record's count is the guest's references
  plus one if it is active (`Counted`). The sum over the
  records is the cardinality of a set of pairs, so that a change to one record changes the sum by that record's frames.
* `VirqInv`: what `NotOverlooked` says of a guest holds from the check on (`LateOnly`), and while a request is injected
  it is the only one of its kind (`Injecting`).

Their assumptions are hypotheses of the theorems (`UMConstants`, `TidConstants`, `VirqConstants`) or named assumptions of the
modules, which TLC evaluates (`SemAssumption`, `RwAssumption`, `ThrAssumption`, `ConsoleAssumption`, `KbdAssumption`,
`PageAssumption`, `ShadowAssumption`), and true of the
runs' instances.

**Only model-checked.**

* The liveness properties (`ReadyRuns`, `MutexServed`, `FreeMutexTaken` and the like): fairness is out of the prover's reach.
* `yield(tid)` for a thread that exists: on several CPUs the invariants fail with it, as the violation runs show, and those that
  `thread_up` checks on one CPU are checked for its instance only.
* `WakesOnTime`, `TreeCorrect`: `KTimer` and `KTree` compute with recursive operators, and what such an operator does for every
  heap or tree needs an induction over data that the provers cannot do.
* `MemCorrect` and `ForkCopies`: `Load` and `CopyAll` are recursive functions over a program's segments and a process's regions,
  and the partition of the frames is a sum over regions, taken with a fold. Both are inductions over data of any length.

## Not modelled

`PROJECT.json` lists every component with its status and reason.

* Course-supplied code under `410kern`, `410user`, `410guests` and `spec` (three quarters of the repository's lines), and the user programs.
* Copying between kernel and user memory: the callers' models choose whether a copy fails.
* Boot, drivers, descriptor tables and assembly entry code: hardware set-up and register traffic. The window through which the kernel
  maps one frame at a time is part of it.
* The screen: characters, colours, cursor, scrolling; `readfile`, `halt`.
* `swexn` and the handlers of user faults, `gettid`, `get_ticks`, `set_status`: no state that another thread reads.
* The user library's automatic stack, and its allocator's lock around course code.
* Threads of a process that fault while another changes its memory: `KMem`'s calls are steps.
* `adjustpg` while the boot record is active: it compares with a `guest_pd` that `create_boot_pd` never sets (`kern/pv.c:34-42`,
  `kern/hvcall.c:504-506`), so what it then does depends on what the allocator returned.
* The frames a PV guest's handlers are entered with, and its console hypercalls.

## Next

1. `KMem` with threads that fault while another calls `new_pages` or `remove_pages`.
2. `swexn` and the dispatch of faults; the automatic stack as a user of it.
3. Drawing: the console's buffer against what is on the screen after a switch.
