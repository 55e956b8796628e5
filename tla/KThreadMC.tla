----------------------------- MODULE KThreadMC -----------------------------
(***************************************************************************)
(* Small instances of KThread for TLC.                                     *)
(***************************************************************************)
EXTENDS KThread, TLC

CONSTANTS c1, c2, idle1, idle2, kth1, kth2, A, B, C, q1

OneCpu  == {c1}
TwoCpus == {c1, c2}
UpIdle  == c1 :> idle1
UpKth   == c1 :> kth1
SmpIdle == UpIdle @@ c2 :> idle2
SmpKth  == UpKth @@ c2 :> kth2

\* The CPUs are alike: exchanging them, each with its idle thread and kthread,
\* changes nothing.
SwapCpus ==
  {p \in Permutations(CPUS \cup IdleThreads \cup KThreads) :
     \A c \in CPUS : /\ p[c] \in CPUS
                    /\ p[idle[c]] = idle[p[c]] /\ p[kthread[c]] = kthread[p[c]]}
One     == <<A>>
Two     == <<A, B>>
Three   == <<A, B, C>>
Flat    == [m \in MUTEXES |-> {}]

\* A yields to named threads, never itself, wakes B and kills it; B deschedules
\* itself, sleeps or waits for malloc_lock.  A alone uses threads_lock, so nobody
\* ever waits for that mutex.
UpCalls ==
  A :> {<<"yieldto", B>>, <<"yieldto", None>>, <<"wake", B>>, <<"task_vanish">>,
        <<"lock", MallocLock>>}
  @@ B :> {<<"deschedule">>, <<"sleep">>, <<"lock", MallocLock>>}

\* A forks B, wakes it and kills it; B deschedules itself, waits for
\* malloc_lock or exits by itself.
SmpCalls ==
  A :> {<<"fork", B>>, <<"task_vanish">>, <<"wake", B>>}
  @@ B :> {<<"deschedule">>, <<"lock", MallocLock>>, <<"vanish">>}

\* Two threads yield to a third.
YieldThird ==
  A :> {<<"yieldto", C>>} @@ B :> {<<"yieldto", C>>} @@ C :> {}

\* A yields to itself and shares a mutex with B.
YieldSelf ==
  A :> {<<"yield">>, <<"yieldto", A>>, <<"lock", MallocLock>>}
  @@ B :> {<<"sleep">>, <<"lock", MallocLock>>}

\* A and B share a mutex, C yields to A: on two CPUs.
YieldSmp ==
  A :> {<<"lock", MallocLock>>} @@ B :> {<<"lock", MallocLock>>}
  @@ C :> {<<"yieldto", A>>}

\* B forks C while A kills the process.
ForkRace ==
  A :> {<<"task_vanish">>} @@ B :> {<<"fork", C>>} @@ C :> {}
=============================================================================
