------------------------------ MODULE KProcInv ------------------------------
(***************************************************************************)
(* The inductive invariant of KProc: for every process its threads, who of *)
(* them is the last, who holds its locks and waits for them, and the one   *)
(* list or thread that accounts for it.                                    *)
(***************************************************************************)
EXTENDS KProc

\* Programs the code is meant for: init has one thread, and a process with
\* several neither calls exec nor passes wait() a bad pointer.
Careful ==
  \A p \in PROCS :
    "thread_fork" \in Calls[p] => p # init /\ {"exec", "bad_status"} \cap Calls[p] = {}

\* The threads refcount counts, and those nwaiters does.
Waiting == {"wait_test", "wait_sleep", "asleep", "wait_lock"}
Counted == Waiting \cup {"new", "user", "fork_add", "wait_free", "exit"}

\* The last thread of a process, and those that may still move its children.
LastOnes == {"orphan", "orphan_init", "orphan_move", "die_last", "report"}
Leaving  == {"exit_left", "orphan", "orphan_init", "orphan_move"}

\* The threads of process p at the labels L.
ThreadsAt(p, L) == {t \in THREADS : proc[t] = p /\ pc[t] \in L}

\* All that is left of the threads of p, if anything, does not touch it.
Over(p) == \A t \in THREADS : proc[t] = p => pc[t] \in {"die", "dead"}

Listed(p) == \E q \in PROCS : p \in live[q] \/ p \in Range(dead[q])

ThreadInv ==
  \A t \in THREADS :
    /\ proc[t] = None <=> pc[t] \in {"unused", "gone"}
    /\ pc[t] \notin {"fork_add", "wait_free", "report"} => arg[t] = None
    /\ pc[t] = "report" => arg[t] \in PROCS /\ parent[proc[t]] \in {arg[t], init}

\* A thread that forks has a new one, the only one of its process.
NewInv ==
  /\ \A t \in THREADS : pc[t] = "fork_add" =>
       /\ arg[t] \in THREADS /\ pc[arg[t]] = "new"
       /\ parent[proc[arg[t]]] = proc[t]
  /\ \A u \in THREADS : pc[u] = "new" =>
       /\ \E t \in THREADS : pc[t] = "fork_add" /\ arg[t] = u
       /\ \A t \in THREADS : proc[t] = proc[u] => t = u
       /\ ~Listed(proc[u]) /\ proc[u] \notin freed
  /\ \A t, u \in THREADS :
       pc[t] = "fork_add" /\ pc[u] = "fork_add" /\ arg[t] = arg[u] => t = u

CountInv ==
  \A p \in PROCS :
    /\ refcount[p] = Cardinality(ThreadsAt(p, Counted))
    /\ nwaiters[p] = Cardinality(ThreadsAt(p, Waiting))

\* A process without parent is init, unused, or left by exec to exit.
SoleInv ==
  \A p \in PROCS : "thread_fork" \notin Calls[p] \/ (parent[p] = None /\ p # init) =>
    \A t, u \in THREADS : proc[t] = p /\ proc[u] = p => t = u

AloneInv ==
  \A p \in PROCS \ {init} : parent[p] = None =>
    /\ \A t \in THREADS : proc[t] = p =>
         pc[t] \in Leaving \cup {"exit", "die_last", "dead"}
    /\ nchilds[p] = 0 /\ live[p] = {} /\ dead[p] = <<>>

InitInv ==
  /\ parent[init] = None /\ refcount[init] = 1
  /\ \A t \in THREADS : proc[t] = init => pc[t] \in Counted \ {"new", "exit"}

LoneInv == SoleInv /\ AloneInv /\ InitInv

\* The last thread of a process is that.
LastInv ==
  \A t \in THREADS : pc[t] \in LastOnes =>
    /\ refcount[proc[t]] = 0
    /\ \A u \in THREADS : proc[u] = proc[t] /\ u # t => pc[u] \in {"die", "dead"}

\* Who holds refcount_lock and malloc_lock, and the wait_locks nobody else
\* has released.
RefLockInv ==
  /\ \A p \in PROCS, t \in THREADS :
       refOwner[p] = t <=> proc[t] = p /\ pc[t] = "exit_left"
  /\ \A t \in THREADS : heapOwner = t <=> pc[t] \in {"report", "dead"}

Locking == {"wait_test", "wait_sleep", "orphan_init", "orphan_move"}

WaitLockInv ==
  /\ \A p \in PROCS, t \in THREADS : waitOwner[p] = t =>
       \/ proc[t] = p /\ pc[t] \in Locking
       \/ p = init /\ pc[t] = "orphan_move"
       \/ pc[t] \in {"dead", "gone"}
  /\ strays \subseteq {init}
  /\ \A t \in THREADS :
       /\ pc[t] \in Locking /\ proc[t] \notin strays => waitOwner[proc[t]] = t
       /\ pc[t] = "orphan_move" /\ init \notin strays => waitOwner[init] = t

AsleepInv ==
  \A p \in PROCS :
    /\ \A i \in DOMAIN asleep[p] : pc[asleep[p][i]] = "asleep" /\ proc[asleep[p][i]] = p
    /\ \A i, j \in DOMAIN asleep[p] : asleep[p][i] = asleep[p][j] => i = j

\* A child is alive in live_childs, over in dead_childs, or over and with the
\* waiter that took it.
LiveInv ==
  \A p, q \in PROCS : p \in live[q] =>
    /\ parent[p] = q /\ p \notin freed
    /\ \A r \in PROCS : p \notin Range(dead[r])

DeadInv ==
  /\ \A p, q \in PROCS : p \in Range(dead[q]) => parent[p] = q /\ p \notin freed /\ Over(p)
  /\ \A q \in PROCS : \A i, j \in DOMAIN dead[q] : dead[q][i] = dead[q][j] => i = j

TakenInv ==
  \A t \in THREADS : pc[t] = "wait_free" =>
    /\ arg[t] \in PROCS \ freed /\ parent[arg[t]] # None
    /\ Over(arg[t]) /\ ~Listed(arg[t])
    /\ \A u \in THREADS : pc[u] = "wait_free" /\ arg[u] = arg[t] => u = t

\* While a process has a thread it is in its parent's list, and later there or
\* with a waiter.
ActiveInv ==
  \A t \in THREADS :
    pc[t] \notin {"unused", "new", "die", "dead", "gone"} /\ parent[proc[t]] # None
      => proc[t] \in live[parent[proc[t]]]

FoundInv ==
  \A p \in PROCS \ freed : parent[p] # None =>
    \/ p \in live[parent[p]] \/ p \in Range(dead[parent[p]])
    \/ \E t \in THREADS : \/ pc[t] = "wait_free" /\ arg[t] = p
                          \/ pc[t] = "fork_add" /\ proc[arg[t]] = p

\* A process whose children have moved to init has none, and one that is freed
\* is over.
ChildlessInv ==
  \A p \in PROCS : refcount[p] = 0 /\ (\A t \in THREADS : proc[t] = p => pc[t] \notin Leaving)
    => live[p] = {} /\ dead[p] = <<>>

FreedInv ==
  /\ \A p \in freed : p # init /\ Over(p)
  /\ \A t \in THREADS : pc[t] = "report" => arg[t] \notin freed

\* A thread that has found no dead child goes to sleep before there is one.
MissInv ==
  /\ NoMissedChild
  /\ \A t \in THREADS : pc[t] = "wait_sleep" /\ proc[t] \notin strays => dead[proc[t]] = <<>>

PIInv ==
  /\ PTypeOK
  /\ ThreadInv /\ NewInv /\ CountInv /\ LoneInv /\ LastInv
  /\ RefLockInv /\ WaitLockInv /\ AsleepInv
  /\ LiveInv /\ DeadInv /\ TakenInv
  /\ ActiveInv /\ FoundInv /\ ChildlessInv /\ FreedInv
  /\ WaitersHaveChildren /\ MissInv
=============================================================================
