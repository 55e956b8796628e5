------------------------------ MODULE KMonitor ------------------------------
(***************************************************************************)
(* What sync.h promises of mutex_lock and mutex_unlock: a mutex has at     *)
(* most one owner, a thread that finds it owned waits, waiters become      *)
(* owners in the order they came, and the mutex passes from an owner       *)
(* straight to the oldest waiter, so that nobody can overtake.             *)
(***************************************************************************)
EXTENDS Sequences

CONSTANTS THREADS, MUTEXES, None

VARIABLES
  owner,  \* [MUTEXES -> THREADS \cup {None}]
  queue   \* [MUTEXES -> Seq(THREADS)]

Init ==
  /\ owner = [m \in MUTEXES |-> None]
  /\ queue = [m \in MUTEXES |-> <<>>]

Take(t, m) ==
  /\ owner[m] = None /\ queue[m] = <<>>
  /\ owner' = [owner EXCEPT ![m] = t]
  /\ UNCHANGED queue

Await(t, m) ==
  /\ owner[m] \notin {None, t}
  /\ \A i \in DOMAIN queue[m] : queue[m][i] # t
  /\ queue' = [queue EXCEPT ![m] = Append(@, t)]
  /\ UNCHANGED owner

Pass(m) ==
  /\ owner[m] # None /\ queue[m] # <<>>
  /\ owner' = [owner EXCEPT ![m] = Head(queue[m])]
  /\ queue' = [queue EXCEPT ![m] = Tail(@)]

Drop(m) ==
  /\ owner[m] # None /\ queue[m] = <<>>
  /\ owner' = [owner EXCEPT ![m] = None]
  /\ UNCHANGED queue

Next ==
  \E m \in MUTEXES :
    \/ Pass(m) \/ Drop(m)
    \/ \E t \in THREADS : Take(t, m) \/ Await(t, m)

Spec == Init /\ [][Next]_<<owner, queue>>
=============================================================================
