------------------------------ MODULE URwlock ------------------------------
(***************************************************************************)
(* The reader/writer lock (rwlock.c).  An affirm that fails ends the task. *)
(***************************************************************************)
EXTENDS UCond, Integers

CONSTANTS
  reader_cv, writer_cv,  \* condition variables
  Uses  \* what the threads may do: [THREADS -> SUBSET {READ, WRITE, DOWNGRADE}]

ASSUME RwAssumption ==
  /\ None \notin THREADS
  /\ reader_cv \in CVS /\ writer_cv \in CVS
  /\ Uses \subseteq [THREADS -> SUBSET {"READ", "WRITE", "DOWNGRADE"}]

VARIABLES
  use,         \* the element of Uses
  mode,        \* [THREADS -> "READ" or "WRITE": the type asked for]
  status,      \* UNLOCK, READ or WRITE
  num_reader,
  panicked     \* an affirm failed

rwVars == <<condVars, use, mode, status, num_reader, panicked>>

RwInit ==
  /\ CondInit
  /\ use \in Uses
  /\ mode = [t \in THREADS |-> "READ"]
  /\ status = "UNLOCK" /\ num_reader = 0 /\ panicked = FALSE

RwLock(t) ==
  /\ At(t, "out") /\ Lock(t)
  /\ \E m \in use[t] \cap {"READ", "WRITE"} : mode' = [mode EXCEPT ![t] = m]
  /\ Goto(t, "test")
  /\ UNCHANGED <<cvOwner, queue, walk, signaled, use, status, num_reader, panicked>>

\* Mutant: a reader enters whatever the status is.
RwReadAlways(t) ==
  /\ At(t, "test") /\ mode[t] = "READ"
  /\ status' = "READ" /\ num_reader' = num_reader + 1
  /\ Unlock(t) /\ Goto(t, "in")
  /\ UNCHANGED <<cvOwner, queue, walk, signaled, use, mode, panicked>>

RwRead(t) ==
  /\ At(t, "test") /\ mode[t] = "READ" /\ status # "WRITE"
  /\ status' = "READ" /\ num_reader' = num_reader + 1
  /\ Unlock(t) /\ Goto(t, "in")
  /\ UNCHANGED <<cvOwner, queue, walk, signaled, use, mode, panicked>>

RwWrite(t) ==
  /\ At(t, "test") /\ mode[t] = "WRITE" /\ status = "UNLOCK"
  /\ status' = "WRITE"
  /\ Unlock(t) /\ Goto(t, "in")
  /\ UNCHANGED <<cvOwner, queue, walk, signaled, use, mode, num_reader, panicked>>

RwBlock(t) ==
  /\ At(t, "test") /\ status = "WRITE"
  /\ CondWait(t, IF mode[t] = "READ" THEN reader_cv ELSE writer_cv)
  /\ UNCHANGED <<cvOwner, walk, use, mode, status, num_reader, panicked>>

\* A writer that finds readers fails the affirm before its cond_wait.
RwAffirm(t) ==
  /\ At(t, "test") /\ mode[t] = "WRITE" /\ status = "READ"
  /\ panicked' = TRUE
  /\ UNCHANGED <<condVars, use, mode, status, num_reader>>

RwUnlockRead(t) ==
  /\ At(t, "in") /\ Lock(t) /\ status = "READ"
  /\ num_reader' = num_reader - 1
  /\ IF num_reader = 1
     THEN status' = "UNLOCK" /\ CondBroadcast(t, writer_cv)
     ELSE Goto(t, "unlock") /\ UNCHANGED <<status, cvOwner, walk>>
  /\ UNCHANGED <<queue, signaled, use, mode, panicked>>

RwUnlockWrite(t) ==
  /\ At(t, "in") /\ Lock(t)
  /\ IF status = "WRITE"
     THEN status' = "UNLOCK" /\ CondBroadcast(t, reader_cv) /\ UNCHANGED panicked
     ELSE status = "UNLOCK" /\ panicked' = TRUE
          /\ UNCHANGED <<pc, cvOwner, walk, status>>
  /\ UNCHANGED <<queue, signaled, use, mode, num_reader>>

\* The status becomes READ without a lock and without counting the reader.
RwDowngrade(t) ==
  /\ At(t, "in") /\ mode[t] = "WRITE" /\ "DOWNGRADE" \in use[t]
  /\ IF status = "WRITE"
     THEN status' = "READ" /\ CondBroadcast(t, reader_cv) /\ UNCHANGED panicked
     ELSE panicked' = TRUE /\ UNCHANGED <<pc, cvOwner, walk, status>>
  /\ mode' = [mode EXCEPT ![t] = "READ"]
  /\ UNCHANGED <<owner, queue, signaled, use, num_reader>>

\* A broadcast ends in rwlock_unlock, or in rwlock_downgrade.
RwWalkEnd(t) ==
  /\ \E c \in CVS : CondBroadcastEnd(t, c, IF owner = t THEN "unlock" ELSE "in")
  /\ UNCHANGED <<owner, walk, signaled, use, mode, status, num_reader, panicked>>

RwUnlocked(t) ==
  /\ At(t, "unlock") /\ Unlock(t)
  /\ Goto(t, "out")
  /\ UNCHANGED <<cvOwner, queue, walk, signaled, use, mode, status, num_reader, panicked>>

RwCond(t) ==
  /\ CondSleep(t) \/ CondRelock(t) \/ CondBroadcastOne(t)
  /\ UNCHANGED <<use, mode, status, num_reader, panicked>>

RwStep(t) ==
  \/ RwRead(t) \/ RwWrite(t) \/ RwBlock(t) \/ RwAffirm(t) \/ RwUnlockRead(t)
  \/ RwUnlockWrite(t) \/ RwDowngrade(t) \/ RwWalkEnd(t) \/ RwUnlocked(t) \/ RwCond(t)

RwNext == ~panicked /\ \E t \in THREADS : RwLock(t) \/ RwStep(t)

RwSpec == RwInit /\ [][RwNext]_rwVars
-----------------------------------------------------------------------------
NobodyDowngrades == \A t \in THREADS : "DOWNGRADE" \notin use[t]

\* A writer is alone: no reader and no other writer has the lock with it.  (Not
\* so when somebody downgrades: the reader it becomes is not counted, and its
\* unlock lets a writer in beside the readers that came meanwhile.)
WriterAlone ==
  NobodyDowngrades => \A t, u \in THREADS :
    At(t, "in") /\ mode[t] = "WRITE" /\ At(u, "in") => t = u
=============================================================================
