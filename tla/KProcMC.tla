------------------------------ MODULE KProcMC ------------------------------
(***************************************************************************)
(* Small instances of KProc for TLC.                                       *)
(***************************************************************************)
EXTENDS KProcInv, TLC

CONSTANTS p1, p2, p3

\* Only p1 has several threads, and it does not exec;
\* its status pointers are good.
LifeCalls ==
  init :> {"fork", "wait", "vanish"}
  @@ p1 :> {"fork", "thread_fork", "wait", "vanish"}
  @@ p2 :> {"fork", "wait", "bad_status", "vanish", "exec"}
  @@ p3 :> {"fork", "wait", "bad_status", "vanish", "exec"}

\* Process structures with the same calls are alike, and so are threads.
Alike == Permutations({p2, p3}) \cup Permutations(THREADS \ {main})
=============================================================================
