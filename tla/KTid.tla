-------------------------------- MODULE KTid --------------------------------
(***************************************************************************)
(* Identifiers of threads: alloc_tid (sched.c), which hands out a gap of   *)
(* free ones and looks for the next gap when it is used up, and the tree   *)
(* the new thread enters later.  The search runs under threads_lock; the   *)
(* counter is read and stored back without a lock.  What rb_min and        *)
(* rb_next return of the tree is KTree's.                                  *)
(***************************************************************************)
EXTENDS Integers, FiniteSetsExt

CONSTANTS
  CALLERS,   \* threads that create threads
  MaxTid,    \* the largest int
  IdlePid    \* IDLE_PID

INIT_PID == 1
Tids == 1 .. MaxTid

VARIABLES
  keys,        \* identifiers in the tree
  tid,         \* the next one to hand out
  next_check,  \* and where its gap ends
  step,        \* step[c]: idle, take, store, add
  got          \* got[c]: the identifier c read

tidVars == <<keys, tid, next_check, step, got>>

-----------------------------------------------------------------------------
TidInit ==
  /\ keys = {INIT_PID} /\ tid = IdlePid + 1 /\ next_check = MaxTid + 1
  /\ step = [c \in CALLERS |-> "idle"] /\ got = [c \in CALLERS |-> 0]

Later(p) == {q \in keys : q > p}

\* The first key that is not followed by its successor.
GapStart == Min({p \in keys : p + 1 \notin keys})

\* Mutant: the gap includes the key after it.
GapEndIn(p) == IF Later(p) = {} THEN MaxTid + 1 ELSE Min(Later(p)) + 1

GapEnd(p) == IF Later(p) = {} THEN MaxTid + 1 ELSE Min(Later(p))

AllocCheck(c) ==
  /\ step[c] = "idle"
  /\ step' = [step EXCEPT ![c] = "take"]
  /\ IF tid # next_check THEN UNCHANGED <<tid, next_check>>
     ELSE IF keys = {} THEN tid' = IdlePid + 1 /\ next_check' = MaxTid + 1
     ELSE \* at the largest key of a full tree the kernel panics instead
          /\ GapStart # MaxTid
          /\ tid' = GapStart + 1 /\ next_check' = GapEnd(GapStart)
  /\ UNCHANGED <<keys, got>>

AllocTake(c) ==
  /\ step[c] = "take"
  /\ got' = [got EXCEPT ![c] = tid] /\ step' = [step EXCEPT ![c] = "store"]
  /\ UNCHANGED <<keys, tid, next_check>>

AllocStore(c) ==
  /\ step[c] = "store"
  /\ tid' = got[c] + 1 /\ step' = [step EXCEPT ![c] = "add"]
  /\ UNCHANGED <<keys, next_check, got>>

\* The creation goes on to add_thread, or fails.
TidAdd(c) ==
  /\ step[c] = "add"
  /\ step' = [step EXCEPT ![c] = "idle"] /\ got' = [got EXCEPT ![c] = 0]
  /\ keys' \in {keys, keys \cup {got[c]}}
  /\ UNCHANGED <<tid, next_check>>

\* remove_thread; init does not exit.
TidRemove(k) ==
  /\ k \in keys \ {INIT_PID}
  /\ keys' = keys \ {k}
  /\ UNCHANGED <<tid, next_check, step, got>>

TidNext == \/ \E c \in CALLERS : AllocCheck(c) \/ AllocTake(c) \/ AllocStore(c) \/ TidAdd(c)
           \/ \E k \in Tids : TidRemove(k)

TidSpec == TidInit /\ [][TidNext]_tidVars
-----------------------------------------------------------------------------
(* Properties *)

\* alloc_tid returns an identifier that no thread has or is about to get.
FreshTid ==
  \A c \in CALLERS : step[c] \in {"store", "add"} =>
    /\ got[c] \in Tids \ keys
    /\ \A d \in CALLERS \ {c} : got[d] # got[c]
=============================================================================
