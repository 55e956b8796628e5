------------------------------- MODULE KProc -------------------------------
(***************************************************************************)
(* The life of a process: fork, exec, wait, and the exit of its last       *)
(* thread, which hands its children to init and itself to its parent       *)
(* (syscall_process.c and kill_current in sched.c).                        *)
(*                                                                         *)
(* A mutex is its owner: module KSched is shown to implement such          *)
(* monitors.  A step is a critical section, or the part of one between two *)
(* points at which the thread may block.  The user memory a process owns   *)
(* is left to the memory modules, the tree of threads to module KThread.   *)
(***************************************************************************)
EXTENDS Naturals, Sequences, FiniteSets, SequencesExt

CONSTANTS
  PROCS,    \* process_t structures; a freed one is not used again
  THREADS,  \* thread_t structures
  init,     \* init_process
  main,     \* its first thread
  Calls,    \* [PROCS -> the system calls its threads make]
  None      \* NULL

ASSUME ProcAssumption ==
  /\ IsFiniteSet(PROCS) /\ IsFiniteSet(THREADS)
  /\ init \in PROCS /\ main \in THREADS
  /\ None \notin PROCS \cup THREADS

VARIABLES
  proc,       \* [THREADS -> PROCS or None]: thread_t.process
  pc,         \* [THREADS -> label]
  arg,        \* [THREADS -> the process the thread works on, or None]
  parent,     \* [PROCS -> PROCS or None]
  refcount,   \* [PROCS -> threads counted]
  nchilds,    \* [PROCS -> Nat]
  live,       \* [PROCS -> processes in live_childs]
  dead,       \* [PROCS -> sequence dead_childs]
  nwaiters,   \* [PROCS -> threads in wait()]
  asleep,     \* [PROCS -> threads blocked on wait_cv]
  waitOwner,  \* [PROCS -> owner of wait_lock]
  refOwner,   \* [PROCS -> owner of refcount_lock]
  heapOwner,  \* owner of malloc_lock
  freed,      \* processes given back to the allocator
  strays      \* history: processes whose wait_lock somebody else released

threadVars == <<proc, pc, arg>>
childVars  == <<nchilds, live, dead>>
waitVars   == <<nwaiters, asleep>>
lockVars   == <<waitOwner, refOwner, heapOwner>>
vars == <<threadVars, parent, refcount, childVars, waitVars, lockVars, freed, strays>>

Init ==
  /\ proc = [t \in THREADS |-> IF t = main THEN init ELSE None]
  /\ pc = [t \in THREADS |-> IF t = main THEN "user" ELSE "unused"]
  /\ arg = [t \in THREADS |-> None]
  /\ parent = [p \in PROCS |-> None]
  /\ refcount = [p \in PROCS |-> IF p = init THEN 1 ELSE 0]
  /\ nchilds = [p \in PROCS |-> 0]
  /\ live = [p \in PROCS |-> {}]
  /\ dead = [p \in PROCS |-> <<>>]
  /\ nwaiters = [p \in PROCS |-> 0]
  /\ asleep = [p \in PROCS |-> <<>>]
  /\ waitOwner = [p \in PROCS |-> None]
  /\ refOwner = [p \in PROCS |-> None]
  /\ heapOwner = None
  /\ freed = {}
  /\ strays = {}

-----------------------------------------------------------------------------
At(t, l) == pc[t] = l

Goto(t, l) == pc' = [pc EXCEPT ![t] = l]

User(t, call) == At(t, "user") /\ call \in Calls[proc[t]]

\* process_t and thread_t structures nobody has used.
FreshProcs   == {q \in PROCS : refcount[q] = 0 /\ q \notin freed
                                /\ \A u \in THREADS : proc[u] # q /\ arg[u] # q
                                /\ \A p \in PROCS : q \notin live[p] \cup Range(dead[p])}
FreshThreads == {u \in THREADS : pc[u] = "unused"}

\* create_empty_process: process q with the one thread u, not running yet.
CreateProcess(q, u) ==
  /\ q \in FreshProcs /\ u \in FreshThreads
  /\ refcount' = [refcount EXCEPT ![q] = 1]

\* n times cv_signal(&p->wait_cv): the oldest sleepers will lock wait_lock.
Woken(p, n) == {asleep[p][i] : i \in {j \in DOMAIN asleep[p] : j <= n}}
Signal(p, n, next) ==
  /\ pc' = [u \in THREADS |-> IF u \in Woken(p, n) THEN "wait_lock" ELSE next[u]]
  /\ asleep' = [asleep EXCEPT ![p] = SubSeq(@, n + 1, Len(@))]

-----------------------------------------------------------------------------
(* fork, thread_fork and exec *)

\* The copy is complete; it is not in any list yet.  An allocation may fail,
\* and then everything is undone (destroy_thread).
Fork(t) ==
  /\ User(t, "fork")
  /\ refOwner[proc[t]] = None /\ refcount[proc[t]] = 1 /\ heapOwner = None
  /\ \E q \in FreshProcs, u \in FreshThreads :
       /\ CreateProcess(q, u)
       /\ proc' = [proc EXCEPT ![u] = q]
       /\ parent' = [parent EXCEPT ![q] = proc[t]]
       /\ arg' = [arg EXCEPT ![t] = u]
       /\ pc' = [pc EXCEPT ![t] = "fork_add", ![u] = "new"]
  /\ UNCHANGED <<childVars, waitVars, lockVars, freed, strays>>

\* Mutant: the child is listed but not counted.
ForkAddUncounted(t) ==
  LET p == proc[t] IN
  /\ At(t, "fork_add") /\ waitOwner[p] = None
  /\ live' = [live EXCEPT ![p] = @ \cup {proc[arg[t]]}]
  /\ pc' = [pc EXCEPT ![t] = "user", ![arg[t]] = "user"]
  /\ arg' = [arg EXCEPT ![t] = None]
  /\ UNCHANGED <<proc, parent, refcount, nchilds, dead, waitVars, lockVars, freed, strays>>

ForkAdd(t) ==
  LET p == proc[t] IN
  /\ At(t, "fork_add") /\ waitOwner[p] = None
  /\ live' = [live EXCEPT ![p] = @ \cup {proc[arg[t]]}]
  /\ nchilds' = [nchilds EXCEPT ![p] = @ + 1]
  /\ pc' = [pc EXCEPT ![t] = "user", ![arg[t]] = "user"]
  /\ arg' = [arg EXCEPT ![t] = None]
  /\ UNCHANGED <<proc, parent, refcount, dead, waitVars, lockVars, freed, strays>>

ThreadFork(t) ==
  LET p == proc[t] IN
  /\ User(t, "thread_fork") /\ heapOwner = None /\ refOwner[p] = None
  /\ \E u \in FreshThreads :
       /\ proc' = [proc EXCEPT ![u] = p]
       /\ Goto(u, "user")
  /\ refcount' = [refcount EXCEPT ![p] = @ + 1]
  /\ UNCHANGED <<arg, parent, childVars, waitVars, lockVars, freed, strays>>

\* The new image q gets a thread u; then the two processes exchange their
\* memory and threads, so u goes on as the old process and t exits as q,
\* which has no parent.
SwapProcess(t, q, u) ==
  /\ CreateProcess(q, u)
  /\ proc' = [proc EXCEPT ![t] = q, ![u] = proc[t]]
  /\ pc' = [pc EXCEPT ![t] = "exit", ![u] = "user"]

\* exec unlocks refcount_lock, which it has not locked, and refuses if the
\* process has several threads.
Exec(t) ==
  /\ User(t, "exec") /\ heapOwner = None
  /\ refOwner' = [refOwner EXCEPT ![proc[t]] = None]
  /\ IF refcount[proc[t]] = 1
     THEN \E q \in FreshProcs, u \in FreshThreads : SwapProcess(t, q, u)
     ELSE UNCHANGED <<proc, pc, refcount>>
  /\ UNCHANGED <<arg, parent, childVars, waitVars, waitOwner, heapOwner, freed, strays>>
-----------------------------------------------------------------------------
(* wait *)

\* "Pigeonhole principle prevents us to get a child in future".
WaitNoChild(t) ==
  LET p == proc[t] IN
  /\ User(t, "wait") /\ waitOwner[p] = None
  /\ nchilds[p] <= nwaiters[p]
  /\ UNCHANGED vars

\* Mutant: the waiter is not counted.
WaitForgotten(t) ==
  LET p == proc[t] IN
  /\ User(t, "wait") /\ waitOwner[p] = None
  /\ nchilds[p] > nwaiters[p]
  /\ waitOwner' = [waitOwner EXCEPT ![p] = t]
  /\ Goto(t, "wait_test")
  /\ UNCHANGED <<proc, arg, parent, refcount, childVars, waitVars, refOwner,
                 heapOwner, freed, strays>>

Wait(t) ==
  LET p == proc[t] IN
  /\ User(t, "wait") /\ waitOwner[p] = None
  /\ nchilds[p] > nwaiters[p]
  /\ nwaiters' = [nwaiters EXCEPT ![p] = @ + 1]
  /\ waitOwner' = [waitOwner EXCEPT ![p] = t]
  /\ Goto(t, "wait_test")
  /\ UNCHANGED <<proc, arg, parent, refcount, childVars, asleep, refOwner,
                 heapOwner, freed, strays>>

WaitEmpty(t) ==
  /\ At(t, "wait_test") /\ dead[proc[t]] = <<>>
  /\ Goto(t, "wait_sleep")
  /\ UNCHANGED <<proc, arg, parent, refcount, childVars, waitVars, lockVars, freed, strays>>

\* cv_wait queues the thread and releases wait_lock.
WaitSleep(t) ==
  LET p == proc[t] IN
  /\ At(t, "wait_sleep")
  /\ asleep' = [asleep EXCEPT ![p] = Append(@, t)]
  /\ waitOwner' = [waitOwner EXCEPT ![p] = None]
  /\ Goto(t, "asleep")
  /\ UNCHANGED <<proc, arg, parent, refcount, childVars, nwaiters, refOwner,
                 heapOwner, freed, strays>>

WaitRelock(t) ==
  /\ At(t, "wait_lock") /\ waitOwner[proc[t]] = None
  /\ waitOwner' = [waitOwner EXCEPT ![proc[t]] = t]
  /\ Goto(t, "wait_test")
  /\ UNCHANGED <<proc, arg, parent, refcount, childVars, waitVars, refOwner,
                 heapOwner, freed, strays>>

\* Mutant: the child stays in the list.
WaitReapKeep(t) ==
  LET p == proc[t] IN
  /\ At(t, "wait_test") /\ dead[p] # <<>>
  /\ nwaiters' = [nwaiters EXCEPT ![p] = @ - 1]
  /\ waitOwner' = [waitOwner EXCEPT ![p] = None]
  /\ arg' = [arg EXCEPT ![t] = Head(dead[p])]
  /\ Goto(t, "wait_free")
  /\ UNCHANGED <<proc, parent, refcount, childVars, asleep, refOwner, heapOwner,
                 freed, strays>>

WaitReap(t) ==
  LET p == proc[t] IN
  /\ At(t, "wait_test") /\ dead[p] # <<>>
  /\ dead' = [dead EXCEPT ![p] = Tail(@)]
  /\ nchilds' = [nchilds EXCEPT ![p] = @ - 1]
  /\ nwaiters' = [nwaiters EXCEPT ![p] = @ - 1]
  /\ waitOwner' = [waitOwner EXCEPT ![p] = None]
  /\ arg' = [arg EXCEPT ![t] = Head(dead[p])]
  /\ Goto(t, "wait_free")
  /\ UNCHANGED <<proc, parent, refcount, live, asleep, refOwner, heapOwner, freed, strays>>

\* The status cannot be copied to the user: the child stays for another wait().
WaitBadStatus(t) ==
  LET p == proc[t] IN
  /\ At(t, "wait_test") /\ dead[p] # <<>> /\ "bad_status" \in Calls[p]
  /\ nwaiters' = [nwaiters EXCEPT ![p] = @ - 1]
  /\ waitOwner' = [waitOwner EXCEPT ![p] = None]
  /\ Goto(t, "user")
  /\ UNCHANGED <<proc, arg, parent, refcount, childVars, asleep, refOwner,
                 heapOwner, freed, strays>>

WaitFree(t) ==
  /\ At(t, "wait_free") /\ heapOwner = None
  /\ freed' = freed \cup {arg[t]}
  /\ arg' = [arg EXCEPT ![t] = None]
  /\ Goto(t, "user")
  /\ UNCHANGED <<proc, parent, refcount, childVars, waitVars, lockVars, strays>>
-----------------------------------------------------------------------------
(* kill_current *)

Vanish(t) ==
  /\ User(t, "vanish") /\ (proc[t] = init => refcount[init] # 1)
  /\ Goto(t, "exit")
  /\ UNCHANGED <<proc, arg, parent, refcount, childVars, waitVars, lockVars, freed, strays>>

\* init's last thread: its dead children are freed and a new init takes over.
Respawn(t) ==
  /\ User(t, "vanish") /\ proc[t] = init /\ refcount[init] = 1
  /\ waitOwner[init] = None /\ heapOwner = None
  /\ dead' = [dead EXCEPT ![init] = <<>>]
  /\ nchilds' = [nchilds EXCEPT ![init] = @ - Len(dead[init])]
  /\ freed' = freed \cup Range(dead[init])
  /\ \E q \in FreshProcs, u \in FreshThreads : SwapProcess(t, q, u)
  /\ UNCHANGED <<arg, parent, live, waitVars, lockVars, strays>>

ExitLeave(t) ==
  LET p == proc[t] IN
  /\ At(t, "exit") /\ refOwner[p] = None
  /\ refOwner' = [refOwner EXCEPT ![p] = t]
  /\ refcount' = [refcount EXCEPT ![p] = @ - 1]
  /\ Goto(t, "exit_left")
  /\ UNCHANGED <<proc, arg, parent, childVars, waitVars, waitOwner, heapOwner, freed, strays>>

\* The thread that finds the count zero is the last one.
ExitLast(t) ==
  LET p == proc[t] IN
  /\ At(t, "exit_left")
  /\ refOwner' = [refOwner EXCEPT ![p] = None]
  /\ Goto(t, IF refcount[p] = 0 THEN "orphan" ELSE "die")
  /\ UNCHANGED <<proc, arg, parent, refcount, childVars, waitVars, waitOwner,
                 heapOwner, freed, strays>>

OrphanLock(t) ==
  /\ At(t, "orphan") /\ waitOwner[proc[t]] = None
  /\ waitOwner' = [waitOwner EXCEPT ![proc[t]] = t]
  /\ Goto(t, "orphan_init")
  /\ UNCHANGED <<proc, arg, parent, refcount, childVars, waitVars, refOwner,
                 heapOwner, freed, strays>>

OrphanLockInit(t) ==
  /\ At(t, "orphan_init") /\ waitOwner[init] = None
  /\ waitOwner' = [waitOwner EXCEPT ![init] = t]
  /\ Goto(t, "orphan_move")
  /\ UNCHANGED <<proc, arg, parent, refcount, childVars, waitVars, refOwner,
                 heapOwner, freed, strays>>

\* Mutant: init is not signalled for the dead children it gets.
OrphanMoveSilent(t) ==
  LET p == proc[t] IN
  /\ At(t, "orphan_move")
  /\ live' = [live EXCEPT ![init] = @ \cup live[p], ![p] = {}]
  /\ dead' = [dead EXCEPT ![init] = @ \o dead[p], ![p] = <<>>]
  /\ nchilds' = [nchilds EXCEPT ![init] = @ + Cardinality(live[p]) + Len(dead[p])]
  /\ parent' = [q \in PROCS |-> IF q \in live[p] \cup Range(dead[p]) THEN init
                                ELSE parent[q]]
  /\ waitOwner' = [waitOwner EXCEPT ![p] = None, ![init] = None]
  /\ Goto(t, "die_last")
  /\ UNCHANGED <<proc, arg, refcount, waitVars, refOwner, heapOwner, freed, strays>>

\* Mutant: the wait_lock of the dying process is not released.
OrphanMoveKeep(t) ==
  LET p == proc[t] IN
  /\ At(t, "orphan_move")
  /\ live' = [live EXCEPT ![init] = @ \cup live[p], ![p] = {}]
  /\ dead' = [dead EXCEPT ![init] = @ \o dead[p], ![p] = <<>>]
  /\ nchilds' = [nchilds EXCEPT ![init] = @ + Cardinality(live[p]) + Len(dead[p])]
  /\ parent' = [q \in PROCS |-> IF q \in live[p] \cup Range(dead[p]) THEN init
                                ELSE parent[q]]
  /\ waitOwner' = [waitOwner EXCEPT ![init] = None]
  /\ Signal(init, Len(dead[p]), [pc EXCEPT ![t] = "die_last"])
  /\ UNCHANGED <<proc, arg, refcount, nwaiters, refOwner, heapOwner, freed, strays>>

\* Under both locks the children move to init, which is signalled once for
\* each dead one.
OrphanMove(t) ==
  LET p == proc[t] IN
  /\ At(t, "orphan_move")
  /\ live' = [live EXCEPT ![init] = @ \cup live[p], ![p] = {}]
  /\ dead' = [dead EXCEPT ![init] = @ \o dead[p], ![p] = <<>>]
  /\ nchilds' = [nchilds EXCEPT ![init] = @ + Cardinality(live[p]) + Len(dead[p])]
  /\ parent' = [q \in PROCS |-> IF q \in live[p] \cup Range(dead[p]) THEN init
                                ELSE parent[q]]
  /\ waitOwner' = [waitOwner EXCEPT ![p] = None, ![init] = None]
  /\ Signal(init, Len(dead[p]), [pc EXCEPT ![t] = "die_last"])
  /\ UNCHANGED <<proc, arg, refcount, nwaiters, refOwner, heapOwner, freed, strays>>

\* Mutant: malloc_lock is not held while the thread dies, so its process may
\* be freed under it.
DieUnlocked(t) ==
  LET p == proc[t] IN
  /\ pc[t] \in {"die", "die_last"}
  /\ arg' = [arg EXCEPT ![t] = IF At(t, "die") THEN None ELSE parent[p]]
  /\ Goto(t, IF At(t, "die") \/ parent[p] = None THEN "dead" ELSE "report")
  /\ freed' = IF At(t, "die_last") /\ parent[p] = None THEN freed \cup {p} ELSE freed
  /\ UNCHANGED <<proc, parent, refcount, childVars, waitVars, lockVars, strays>>

\* malloc_lock is held from here to the end, interrupts are off.  The parent
\* whose wait_lock will be taken is looked up now; without a parent (exec) the
\* process frees itself.
DieLock(t) ==
  LET p == proc[t] IN
  /\ pc[t] \in {"die", "die_last"} /\ heapOwner = None
  /\ heapOwner' = t
  /\ arg' = [arg EXCEPT ![t] = IF At(t, "die") THEN None ELSE parent[p]]
  /\ Goto(t, IF At(t, "die") \/ parent[p] = None THEN "dead" ELSE "report")
  /\ freed' = IF At(t, "die_last") /\ parent[p] = None THEN freed \cup {p} ELSE freed
  /\ UNCHANGED <<proc, parent, refcount, childVars, waitVars, waitOwner, refOwner, strays>>

\* The child list that is changed and the lock that is released are those of
\* the parent read again, after the lock of arg has been awaited.
Report(t) ==
  LET p == proc[t]
      to == parent[p] IN
  /\ At(t, "report") /\ waitOwner[arg[t]] = None
  /\ live' = [live EXCEPT ![to] = @ \ {p}]
  /\ dead' = [dead EXCEPT ![to] = Append(@, p)]
  /\ waitOwner' = [q \in PROCS |-> CASE q = to -> None
                                     [] q = arg[t] /\ q # to -> t
                                     [] OTHER -> waitOwner[q]]
  /\ strays' = IF to = arg[t] THEN strays ELSE strays \cup {to}
  /\ arg' = [arg EXCEPT ![t] = None]
  /\ Signal(to, 1, [pc EXCEPT ![t] = "dead"])
  /\ UNCHANGED <<proc, parent, refcount, nchilds, nwaiters, refOwner, heapOwner, freed>>

\* The control block is freed on the kthread's stack and malloc_lock released.
Cleanup(t) ==
  /\ At(t, "dead")
  /\ proc' = [proc EXCEPT ![t] = None]
  /\ Goto(t, "gone")
  /\ heapOwner' = None
  /\ UNCHANGED <<arg, parent, refcount, childVars, waitVars, waitOwner, refOwner,
                 freed, strays>>

-----------------------------------------------------------------------------
Call(t) ==
  \/ Fork(t) \/ ThreadFork(t) \/ Exec(t)
  \/ WaitNoChild(t) \/ Wait(t) \/ Vanish(t) \/ Respawn(t)

Step(t) ==
  \/ ForkAdd(t) \/ WaitEmpty(t) \/ WaitSleep(t) \/ WaitRelock(t)
  \/ WaitReap(t) \/ WaitBadStatus(t) \/ WaitFree(t)
  \/ ExitLeave(t) \/ ExitLast(t) \/ OrphanLock(t) \/ OrphanLockInit(t)
  \/ OrphanMove(t) \/ DieLock(t) \/ Report(t) \/ Cleanup(t)

Next == \E t \in THREADS : Call(t) \/ Step(t)

Spec == Init /\ [][Next]_vars

-----------------------------------------------------------------------------
(* Properties *)

Labels == {"unused", "new", "user", "fork_add", "wait_test", "wait_sleep",
           "asleep", "wait_lock", "wait_free", "exit", "exit_left", "orphan",
           "orphan_init", "orphan_move", "die", "die_last", "report", "dead", "gone"}

PTypeOK ==
  /\ proc \in [THREADS -> PROCS \cup {None}]
  /\ pc \in [THREADS -> Labels]
  /\ arg \in [THREADS -> PROCS \cup THREADS \cup {None}]
  /\ parent \in [PROCS -> PROCS \cup {None}]
  /\ refcount \in [PROCS -> Nat]
  /\ nchilds \in [PROCS -> Nat]
  /\ live \in [PROCS -> SUBSET PROCS]
  /\ dead \in [PROCS -> Seq(PROCS)]
  /\ nwaiters \in [PROCS -> Nat]
  /\ asleep \in [PROCS -> Seq(THREADS)]
  /\ waitOwner \in [PROCS -> THREADS \cup {None}]
  /\ refOwner \in [PROCS -> THREADS \cup {None}]
  /\ heapOwner \in THREADS \cup {None}
  /\ freed \in SUBSET PROCS
  /\ strays \in SUBSET PROCS

\* In a process with threads, nchilds is the number of children in the two
\* lists, and no more threads wait than there are children: who waits will
\* find a child.
WaitersHaveChildren ==
  \A p \in {q \in PROCS : refcount[q] > 0} :
    /\ nchilds[p] = Cardinality(live[p]) + Len(dead[p])
    /\ nwaiters[p] <= nchilds[p]

\* Who will free process p: the list it is in, a waiter that has taken it out,
\* the thread about to list it, or, with no parent, its own last thread.
Keepers(p) ==
  {<<"live", q>> : q \in {r \in PROCS : p \in live[r]}}
  \cup (UNION {{<<"dead", q, i>> : i \in {j \in DOMAIN dead[q] : dead[q][j] = p}}
               : q \in PROCS})
  \cup {<<"waiter", t>> : t \in {u \in THREADS : At(u, "wait_free") /\ arg[u] = p}}
  \cup {<<"fork", t>> : t \in {u \in THREADS : At(u, "fork_add") /\ proc[arg[u]] = p}}
  \cup {<<"self", t>> : t \in {u \in THREADS : /\ proc[u] = p /\ parent[p] = None
                                               /\ p # init /\ pc[u] # "dead"}}

\* A process in use has exactly one keeper, through fork, exit, reparenting,
\* wait and exec; a freed one has none: it is freed once and never leaks.
OneKeeper ==
  \A p \in PROCS :
    LET inUse == p # init /\ (refcount[p] > 0 \/ parent[p] # None) /\ p \notin freed
    IN  /\ inUse => Cardinality(Keepers(p)) = 1
        /\ p \in freed => Keepers(p) = {}

\* No thread sleeps in wait() beside a dead child that no waiter is about to
\* take: the threads awake in wait() are at least as many as the dead children.
NoMissedChild ==
  \A p \in PROCS \ strays :
    asleep[p] # <<>> => Len(dead[p]) <= nwaiters[p] - Len(asleep[p])

\* A thread past the point where it is its process's last one, or that has not
\* left it, never finds the process freed; nor does a process a freed parent.
NoProcUseAfterFree ==
  /\ \A t \in THREADS :
       proc[t] \in freed => pc[t] \in {"die", "dead"} /\ (refcount[proc[t]] = 0)
  /\ \A p \in PROCS : refcount[p] > 0 => parent[p] \notin freed
  /\ \A t \in THREADS : At(t, "report") => arg[t] \notin freed

\* The thread that holds the mutex t is waiting for, or None.
WaitsFor(t) ==
  CASE pc[t] = "exit" -> refOwner[proc[t]]
    [] pc[t] \in {"fork_add", "wait_lock", "orphan"} -> waitOwner[proc[t]]
    [] pc[t] = "orphan_init" -> waitOwner[init]
    [] pc[t] = "report" -> waitOwner[arg[t]]
    [] pc[t] \in {"wait_free", "die", "die_last"} -> heapOwner
    [] OTHER -> None

\* A dying thread holds malloc_lock while it waits for its parent's wait_lock,
\* and the parent's last thread holds that one while it waits for init's: no
\* threads wait for each other in a circle.
NoLockCycle ==
  ~ \E S \in (SUBSET THREADS) \ {{}} : \A t \in S : WaitsFor(t) \in S
=============================================================================
