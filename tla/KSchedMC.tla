------------------------------ MODULE KSchedMC ------------------------------
(***************************************************************************)
(* Small instances of KSched for TLC.                                      *)
(***************************************************************************)
EXTENDS KSchedInv, TLC

CONSTANTS c1, c2, idle1, idle2, kth1, kth2, A, B, C, m1, m2, q1

OneCpu  == {c1}
TwoCpus == {c1, c2}
UpIdle  == c1 :> idle1
UpKth   == c1 :> kth1
SmpIdle == UpIdle @@ c2 :> idle2
SmpKth  == UpKth @@ c2 :> kth2

\* The CPUs are alike: exchanging them, each with its idle thread and kthread,
\* changes nothing.
SwapCpus ==
  {p \in Permutations(CPUS \cup IdleThreads \cup KThreads) :
     \A c \in CPUS : /\ p[c] \in CPUS
                    /\ p[idle[c]] = idle[p[c]] /\ p[kthread[c]] = kthread[p[c]]}
Three   == <<A, B, C>>
Two     == <<A, B>>

\* m2 is locked inside m1, as init's wait_lock inside a process's.
Nested == m1 :> {} @@ m2 :> {m1}
Flat   == [m \in MUTEXES |-> {}]

\* A monitor m1: B waits, A and C signal; A and C also lock m2, also inside m1;
\* A yields and C sleeps.
MonitorCalls ==
  A :> {<<"lock", m1>>, <<"lock", m2>>, <<"signal", q1>>, <<"yield">>}
  @@ B :> {<<"lock", m1>>, <<"wait", q1, m1>>}
  @@ C :> {<<"lock", m1>>, <<"lock", m2>>, <<"signal", q1>>, <<"sleep">>}

\* A, B and C share m1; B also sleeps and C yields.
MutexCalls ==
  A :> {<<"lock", m1>>}
  @@ B :> {<<"lock", m1>>, <<"sleep">>}
  @@ C :> {<<"lock", m1>>, <<"yield">>}
=============================================================================
