---------------------------- MODULE KProcProofs ----------------------------
(***************************************************************************)
(* Proofs that processes are counted, listed, waited for and freed right   *)
(* for every set of processes and threads and all careful programs.        *)
(***************************************************************************)
EXTENDS KProcInv, FiniteSetTheorems, TLAPS

-----------------------------------------------------------------------------
(* Counting threads *)

\* The threads of a process at some labels are finitely many.
LEMMA CountFacts ==
  ASSUME NEW p, NEW L
  PROVE  /\ IsFiniteSet(ThreadsAt(p, L)) /\ Cardinality(ThreadsAt(p, L)) \in Nat
         /\ Cardinality(ThreadsAt(p, L)) = 0 <=> ThreadsAt(p, L) = {}
<1>1. ThreadsAt(p, L) \in SUBSET THREADS
  BY DEF ThreadsAt
<1>2. IsFiniteSet(ThreadsAt(p, L))
  BY <1>1, ProcAssumption, FS_Subset
<1> QED
  BY <1>2, FS_CardinalityType, FS_EmptySet

\* A thread that is counted is in the count.
LEMMA CountedThread ==
  ASSUME PIInv, NEW t \in THREADS, proc[t] \in PROCS
  PROVE  /\ pc[t] \in Counted => refcount[proc[t]] \in Nat /\ refcount[proc[t]] > 0
         /\ pc[t] \in Waiting => nwaiters[proc[t]] \in Nat /\ nwaiters[proc[t]] > 0
<1>1. /\ pc[t] \in Counted => t \in ThreadsAt(proc[t], Counted)
      /\ pc[t] \in Waiting => t \in ThreadsAt(proc[t], Waiting)
  BY DEF ThreadsAt
<1>2. /\ refcount[proc[t]] = Cardinality(ThreadsAt(proc[t], Counted))
      /\ nwaiters[proc[t]] = Cardinality(ThreadsAt(proc[t], Waiting))
  BY DEF PIInv, CountInv
<1> QED
  BY <1>1, <1>2, CountFacts

-----------------------------------------------------------------------------
(* New structures, and signals *)

\* What is fresh has no trace of an earlier use.
LEMMA FreshFacts ==
  ASSUME PIInv, NEW q \in FreshProcs, NEW u \in FreshThreads
  PROVE  /\ q \in PROCS \ {init} /\ refcount[q] = 0 /\ q \notin freed
         /\ parent[q] = None /\ nchilds[q] = 0 /\ live[q] = {} /\ dead[q] = <<>>
         /\ nwaiters[q] = 0 /\ asleep[q] = <<>>
         /\ \A t \in THREADS : proc[t] # q /\ arg[t] # q
         /\ ~Listed(q)
         /\ u \in THREADS /\ pc[u] = "unused" /\ proc[u] = None /\ arg[u] = None
         /\ \A t \in THREADS : pc[t] = "fork_add" => arg[t] # u
<1> USE DEF PIInv
<1>1. /\ q \in PROCS /\ refcount[q] = 0 /\ q \notin freed
      /\ \A t \in THREADS : proc[t] # q /\ arg[t] # q
      /\ \A p \in PROCS : q \notin live[p] \cup Range(dead[p])
      /\ u \in THREADS /\ pc[u] = "unused"
  BY DEF FreshProcs, FreshThreads
<1>2. ~Listed(q)
  BY <1>1 DEF Listed
<1>3. q # init
  BY <1>1 DEF LoneInv, SoleInv, AloneInv, InitInv
<1>4. parent[q] = None
  <2> SUFFICES ASSUME parent[q] # None
               PROVE  FALSE
    OBVIOUS
  <2>1. parent[q] \in PROCS
    BY <1>1 DEF PTypeOK
  <2>2. \E t \in THREADS : \/ pc[t] = "wait_free" /\ arg[t] = q
                           \/ pc[t] = "fork_add" /\ proc[arg[t]] = q
    BY <1>1, <2>1 DEF ActiveInv, FoundInv
  <2> QED
    BY <1>1, <2>2 DEF NewInv
<1>5. nchilds[q] = 0 /\ live[q] = {} /\ dead[q] = <<>>
  BY <1>1, <1>3, <1>4 DEF LoneInv, SoleInv, AloneInv, InitInv
<1>6. nwaiters[q] = 0
  <2>1. ThreadsAt(q, Waiting) = {}
    BY <1>1 DEF ThreadsAt
  <2> QED
    BY <1>1, <2>1, CountFacts DEF CountInv
<1>7. asleep[q] = <<>>
  <2> SUFFICES ASSUME asleep[q] # <<>>
               PROVE  FALSE
    OBVIOUS
  <2>1. asleep[q] \in Seq(THREADS) /\ 1 \in DOMAIN asleep[q]
    BY <1>1 DEF PTypeOK
  <2>2. asleep[q][1] \in THREADS /\ proc[asleep[q][1]] = q
    BY <1>1, <2>1 DEF AsleepInv
  <2> QED
    BY <1>1, <2>2
<1>8. /\ proc[u] = None /\ arg[u] = None
      /\ \A t \in THREADS : pc[t] = "fork_add" => arg[t] # u
  BY <1>1 DEF ThreadInv, NewInv
<1> QED
  BY <1>1, <1>2, <1>3, <1>4, <1>5, <1>6, <1>7, <1>8

\* n signals of wait_cv wake the first n sleepers, who had gone to sleep.
LEMMA SignalFacts ==
  ASSUME PIInv, NEW p \in PROCS, NEW n \in Nat, NEW t \in THREADS, NEW l \in Labels,
         pc[t] # "asleep", Signal(p, n, [pc EXCEPT ![t] = l])
  PROVE  /\ pc' \in [THREADS -> Labels] /\ asleep' \in [PROCS -> Seq(THREADS)]
         /\ pc'[t] = l
         /\ \A u \in THREADS \ {t} :
              \/ pc'[u] = pc[u]
              \/ pc[u] = "asleep" /\ proc[u] = p /\ pc'[u] = "wait_lock"
         /\ \A q \in PROCS \ {p} : asleep'[q] = asleep[q]
         /\ Len(asleep'[p]) = IF n <= Len(asleep[p]) THEN Len(asleep[p]) - n ELSE 0
         /\ \A i \in DOMAIN asleep'[p] :
              /\ i + n \in DOMAIN asleep[p]
              /\ asleep'[p][i] = asleep[p][i + n]
              /\ pc'[asleep'[p][i]] = "asleep"
<1> USE DEF PIInv
<1>1. /\ pc \in [THREADS -> Labels] /\ asleep \in [PROCS -> Seq(THREADS)]
      /\ asleep[p] \in Seq(THREADS)
  BY DEF PTypeOK
<1>2. /\ \A i \in DOMAIN asleep[p] : /\ asleep[p][i] \in THREADS
                                     /\ pc[asleep[p][i]] = "asleep"
                                     /\ proc[asleep[p][i]] = p
      /\ \A i, j \in DOMAIN asleep[p] : asleep[p][i] = asleep[p][j] => i = j
  BY <1>1 DEF AsleepInv
<1>3. \A u \in Woken(p, n) : u \in THREADS /\ pc[u] = "asleep" /\ proc[u] = p
  BY <1>2 DEF Woken
<1>4. /\ pc' = [u \in THREADS |-> IF u \in Woken(p, n) THEN "wait_lock"
                                  ELSE [pc EXCEPT ![t] = l][u]]
      /\ asleep' = [asleep EXCEPT ![p] = SubSeq(@, n + 1, Len(@))]
  BY DEF Signal
<1>5. pc' \in [THREADS -> Labels]
  BY <1>1, <1>4 DEF Labels
<1>6. pc'[t] = l
  BY <1>1, <1>3, <1>4
<1>7. \A u \in THREADS \ {t} :
        \/ pc'[u] = pc[u]
        \/ pc[u] = "asleep" /\ proc[u] = p /\ pc'[u] = "wait_lock"
  BY <1>1, <1>3, <1>4
<1>8. /\ asleep'[p] = SubSeq(asleep[p], n + 1, Len(asleep[p]))
      /\ \A q \in PROCS \ {p} : asleep'[q] = asleep[q]
  BY <1>1, <1>4
<1>9. /\ asleep'[p] \in Seq(THREADS)
      /\ Len(asleep'[p]) = IF n <= Len(asleep[p]) THEN Len(asleep[p]) - n ELSE 0
      /\ \A i \in DOMAIN asleep'[p] : /\ i + n \in DOMAIN asleep[p]
                                      /\ asleep'[p][i] = asleep[p][i + n]
  BY <1>1, <1>8
<1>10. asleep' \in [PROCS -> Seq(THREADS)]
  BY <1>1, <1>4, <1>9
<1>11. ASSUME NEW i \in DOMAIN asleep'[p]
       PROVE  pc'[asleep'[p][i]] = "asleep"
  <2>1. /\ i + n \in DOMAIN asleep[p] /\ asleep'[p][i] = asleep[p][i + n]
        /\ i \in Nat /\ i > 0
    BY <1>9
  <2>2. asleep[p][i + n] \notin Woken(p, n)
    <3> SUFFICES ASSUME asleep[p][i + n] \in Woken(p, n)
                 PROVE  FALSE
      OBVIOUS
    <3>1. PICK j \in DOMAIN asleep[p] : j <= n /\ asleep[p][i + n] = asleep[p][j]
      BY DEF Woken
    <3>2. j = i + n
      BY <1>2, <2>1, <3>1
    <3> QED
      BY <1>1, <2>1, <3>1, <3>2
  <2> QED
    BY <1>1, <1>2, <1>4, <2>1, <2>2
<1> QED
  BY <1>5, <1>6, <1>7, <1>8, <1>9, <1>10, <1>11

-----------------------------------------------------------------------------
(* What the larger operations do, function by function *)

\* fork's copy: a process with one thread that does not run yet.
LEMMA ForkEffect ==
  ASSUME PIInv, NEW t \in THREADS, Fork(t)
  PROVE  \E q \in FreshProcs, u \in FreshThreads :
           LET p == proc[t] IN
           /\ p \in PROCS /\ pc[t] = "user" /\ t # u /\ p # q /\ refcount[p] = 1
           /\ proc' = [proc EXCEPT ![u] = q] /\ parent' = [parent EXCEPT ![q] = p]
           /\ refcount' = [refcount EXCEPT ![q] = 1]
           /\ arg' = [arg EXCEPT ![t] = u]
           /\ pc' = [pc EXCEPT ![t] = "fork_add", ![u] = "new"]
           /\ UNCHANGED <<childVars, waitVars, lockVars, freed, strays>>
<1>1. PICK q \in FreshProcs, u \in FreshThreads :
        /\ refcount' = [refcount EXCEPT ![q] = 1]
        /\ proc' = [proc EXCEPT ![u] = q] /\ parent' = [parent EXCEPT ![q] = proc[t]]
        /\ arg' = [arg EXCEPT ![t] = u]
        /\ pc' = [pc EXCEPT ![t] = "fork_add", ![u] = "new"]
  BY DEF Fork, CreateProcess
<1>2. /\ pc[t] = "user" /\ refcount[proc[t]] = 1
      /\ UNCHANGED <<childVars, waitVars, lockVars, freed, strays>>
  BY DEF Fork, User, At
<1>3. proc[t] \in PROCS
  BY <1>2 DEF PIInv, PTypeOK, ThreadInv
<1>4. pc[u] = "unused" /\ proc[t] # q
  BY FreshFacts
<1> QED
  BY <1>1, <1>2, <1>3, <1>4

\* thread_fork: one more thread of the process.
LEMMA ThreadForkEffect ==
  ASSUME PIInv, Careful, NEW t \in THREADS, ThreadFork(t)
  PROVE  \E u \in FreshThreads :
           LET p == proc[t] IN
           /\ p \in PROCS \ {init} /\ pc[t] = "user" /\ t # u
           /\ "thread_fork" \in Calls[p] /\ parent[p] # None
           /\ proc' = [proc EXCEPT ![u] = p] /\ pc' = [pc EXCEPT ![u] = "user"]
           /\ refcount' = [refcount EXCEPT ![p] = @ + 1]
           /\ UNCHANGED <<arg, parent, childVars, waitVars, lockVars, freed, strays>>
<1>1. PICK u \in FreshThreads :
        proc' = [proc EXCEPT ![u] = proc[t]] /\ pc' = [pc EXCEPT ![u] = "user"]
  BY DEF ThreadFork, Goto
<1>2. /\ pc[t] = "user" /\ "thread_fork" \in Calls[proc[t]]
      /\ refcount' = [refcount EXCEPT ![proc[t]] = @ + 1]
      /\ UNCHANGED <<arg, parent, childVars, waitVars, lockVars, freed, strays>>
  BY DEF ThreadFork, User, At
<1>3. proc[t] \in PROCS
  BY <1>2 DEF PIInv, PTypeOK, ThreadInv
<1>4. proc[t] # init
  BY <1>2, <1>3 DEF Careful
<1>5. parent[proc[t]] # None
  BY <1>2, <1>3, <1>4 DEF PIInv, LoneInv, SoleInv, AloneInv, InitInv, Leaving
<1>6. pc[u] = "unused"
  BY DEF FreshThreads
<1> QED
  BY <1>1, <1>2, <1>3, <1>4, <1>5, <1>6

\* The exchange of two processes by exec, and by init's respawning: t is the one
\* thread of its process and becomes that of a new one without parent.
LEMMA SwapEffect ==
  ASSUME PIInv, Careful, NEW t \in THREADS, Exec(t) \/ Respawn(t)
  PROVE  \E q \in FreshProcs, u \in FreshThreads :
           LET p == proc[t] IN
           /\ p \in PROCS /\ pc[t] = "user" /\ t # u /\ p # q
           /\ \A v \in THREADS : proc[v] = p => v = t
           /\ refcount[p] = 1 /\ nwaiters[p] = 0
           /\ proc' = [proc EXCEPT ![t] = q, ![u] = p]
           /\ pc' = [pc EXCEPT ![t] = "exit", ![u] = "user"]
           /\ refcount' = [refcount EXCEPT ![q] = 1]
           /\ UNCHANGED <<arg, parent, live, waitVars, lockVars, strays>>
           /\ \/ UNCHANGED <<childVars, freed>>
              \/ /\ p = init
                 /\ dead' = [dead EXCEPT ![init] = <<>>]
                 /\ nchilds' = [nchilds EXCEPT ![init] = @ - Len(dead[init])]
                 /\ freed' = freed \cup Range(dead[init])
<1> USE DEF PIInv
<1>1. pc[t] = "user" /\ UNCHANGED <<arg, parent, live, waitVars, waitOwner, heapOwner, strays>>
  BY DEF Exec, Respawn, User, At, childVars, lockVars
<1>2. proc[t] \in PROCS
  BY <1>1 DEF PTypeOK, ThreadInv
<1>3. "thread_fork" \notin Calls[proc[t]]
  <2>1. CASE Exec(t)
    BY <1>2, <2>1 DEF Exec, User, Careful
  <2>2. CASE Respawn(t)
    BY <1>2, <2>2 DEF Respawn, User, Careful
  <2> QED
    BY <2>1, <2>2
<1>4. \A v \in THREADS : proc[v] = proc[t] => v = t
  BY <1>2, <1>3 DEF LoneInv, SoleInv, AloneInv, InitInv
<1>5. refcount[proc[t]] = 1
  <2>1. ThreadsAt(proc[t], Counted) = {t}
    BY <1>1, <1>4 DEF ThreadsAt, Counted
  <2> QED
    BY <1>2, <2>1, FS_Singleton DEF CountInv
<1>6. nwaiters[proc[t]] = 0
  <2>1. ThreadsAt(proc[t], Waiting) = {}
    BY <1>1, <1>4 DEF ThreadsAt, Waiting
  <2> QED
    BY <1>2, <2>1, CountFacts DEF CountInv
<1>7. UNCHANGED refOwner
  <2>1. CASE Exec(t)
    <3>1. refOwner \in [PROCS -> THREADS \cup {None}]
          /\ refOwner' = [refOwner EXCEPT ![proc[t]] = None]
      BY <2>1 DEF PTypeOK, Exec
    <3>2. refOwner[proc[t]] = None
      BY <1>1, <1>2, <1>4, <3>1 DEF RefLockInv
    <3> QED
      BY <3>1, <3>2
  <2>2. CASE Respawn(t)
    BY <2>2 DEF Respawn, lockVars
  <2> QED
    BY <2>1, <2>2
<1>8. PICK q \in FreshProcs, u \in FreshThreads : SwapProcess(t, q, u)
  BY <1>5 DEF Exec, Respawn
<1>9. pc[u] = "unused" /\ proc[t] # q
  BY FreshFacts
<1>10. \/ UNCHANGED <<childVars, freed>>
       \/ /\ proc[t] = init
          /\ dead' = [dead EXCEPT ![init] = <<>>]
          /\ nchilds' = [nchilds EXCEPT ![init] = @ - Len(dead[init])]
          /\ freed' = freed \cup Range(dead[init])
  BY DEF Exec, Respawn
<1>11. /\ proc' = [proc EXCEPT ![t] = q, ![u] = proc[t]]
       /\ pc' = [pc EXCEPT ![t] = "exit", ![u] = "user"]
       /\ refcount' = [refcount EXCEPT ![q] = 1]
  BY <1>8 DEF SwapProcess, CreateProcess
<1> QED
  BY <1>1, <1>2, <1>4, <1>5, <1>6, <1>7, <1>9, <1>10, <1>11 DEF lockVars

\* The child that fork lists is new, and its parent is the forking process.
LEMMA ForkAddEffect ==
  ASSUME PIInv, NEW t \in THREADS, ForkAdd(t)
  PROVE  LET p == proc[t]
             u == arg[t]
             q == proc[arg[t]] IN
         /\ p \in PROCS /\ u \in THREADS /\ q \in PROCS \ {init}
         /\ t # u /\ p # q /\ pc[t] = "fork_add" /\ pc[u] = "new" /\ arg[u] = None
         /\ parent[q] = p /\ ~Listed(q) /\ q \notin freed
         /\ \A v \in THREADS : proc[v] = q => v = u
         /\ \A v \in THREADS : pc[v] = "fork_add" /\ arg[v] = u => v = t
         /\ live' = [live EXCEPT ![p] = @ \cup {q}]
         /\ nchilds' = [nchilds EXCEPT ![p] = @ + 1]
         /\ pc' = [pc EXCEPT ![t] = "user", ![u] = "user"]
         /\ arg' = [arg EXCEPT ![t] = None]
         /\ UNCHANGED <<proc, parent, refcount, dead, waitVars, lockVars, freed, strays>>
<1> USE DEF PIInv
<1>1. pc[t] = "fork_add"
  BY DEF ForkAdd, At
<1>2. /\ arg[t] \in THREADS /\ pc[arg[t]] = "new" /\ parent[proc[arg[t]]] = proc[t]
      /\ ~Listed(proc[arg[t]]) /\ proc[arg[t]] \notin freed
      /\ \A v \in THREADS : proc[v] = proc[arg[t]] => v = arg[t]
      /\ \A v \in THREADS : pc[v] = "fork_add" /\ arg[v] = arg[t] => v = t
  BY <1>1 DEF NewInv
<1>3. proc[t] \in PROCS /\ proc[arg[t]] \in PROCS /\ arg[arg[t]] = None
  BY ZenonT(60), <1>1, <1>2 DEF PTypeOK, ThreadInv
<1>4. proc[arg[t]] # init
  BY <1>2 DEF LoneInv, SoleInv, AloneInv, InitInv
<1> QED
  BY <1>1, <1>2, <1>3, <1>4 DEF ForkAdd

\* The child wait() takes out of the list is over and nowhere else.
LEMMA WaitReapEffect ==
  ASSUME PIInv, NEW t \in THREADS, WaitReap(t)
  PROVE  LET p == proc[t]
             q == Head(dead[proc[t]]) IN
         /\ p \in PROCS /\ q \in PROCS /\ pc[t] = "wait_test"
         /\ refcount[p] > 0 /\ nwaiters[p] > 0 /\ nchilds[p] > 0
         /\ dead[p] \in Seq(PROCS) /\ dead[p] # <<>>
         /\ parent[q] = p /\ q \notin freed /\ Over(q)
         /\ \A r \in PROCS : q \notin live[r] /\ (r # p => q \notin Range(dead[r]))
         /\ q \notin Range(Tail(dead[p]))
         /\ Range(dead[p]) = {q} \cup Range(Tail(dead[p]))
         /\ Tail(dead[p]) \in Seq(PROCS) /\ Len(Tail(dead[p])) = Len(dead[p]) - 1
         /\ \A v \in THREADS : pc[v] = "wait_free" => arg[v] # q
         /\ dead' = [dead EXCEPT ![p] = Tail(@)]
         /\ nchilds' = [nchilds EXCEPT ![p] = @ - 1]
         /\ nwaiters' = [nwaiters EXCEPT ![p] = @ - 1]
         /\ waitOwner' = [waitOwner EXCEPT ![p] = None]
         /\ arg' = [arg EXCEPT ![t] = q] /\ pc' = [pc EXCEPT ![t] = "wait_free"]
         /\ UNCHANGED <<proc, parent, refcount, live, asleep, refOwner, heapOwner,
                        freed, strays>>
<1> USE DEF PIInv
<1>1. pc[t] = "wait_test" /\ dead[proc[t]] # <<>>
  BY DEF WaitReap, At
<1>2. /\ proc[t] \in PROCS /\ dead[proc[t]] \in Seq(PROCS)
      /\ live[proc[t]] \in SUBSET PROCS
  BY <1>1 DEF PTypeOK, ThreadInv
<1> DEFINE p == proc[t]
           s == dead[p]
           q == Head(s)
<1>3. /\ q \in PROCS /\ q = s[1] /\ 1 \in DOMAIN s
      /\ Tail(s) \in Seq(PROCS) /\ Len(Tail(s)) = Len(s) - 1
      /\ \A i \in DOMAIN Tail(s) : i + 1 \in DOMAIN s /\ Tail(s)[i] = s[i + 1]
      /\ \A i \in DOMAIN s \ {1} : i - 1 \in DOMAIN Tail(s) /\ s[i] = Tail(s)[i - 1]
  BY <1>1, <1>2
<1>4. q \in Range(s)
  BY <1>3 DEF Range
<1>5. parent[q] = p /\ q \notin freed /\ Over(q)
  BY <1>2, <1>3, <1>4 DEF LiveInv, DeadInv, TakenInv
<1>6. \A r \in PROCS : q \notin live[r] /\ (r # p => q \notin Range(dead[r]))
  BY <1>2, <1>3, <1>4, <1>5 DEF LiveInv, DeadInv, TakenInv
<1>7. q \notin Range(Tail(s))
  <2> SUFFICES ASSUME NEW i \in DOMAIN Tail(s), Tail(s)[i] = q
               PROVE  FALSE
    BY DEF Range
  <2>1. i + 1 \in DOMAIN s /\ s[i + 1] = s[1] /\ i + 1 # 1
    BY <1>2, <1>3
  <2>2. \A j, k \in DOMAIN s : s[j] = s[k] => j = k
    BY <1>2 DEF LiveInv, DeadInv, TakenInv
  <2> QED
    BY <1>3, <2>1, <2>2
<1>8. Range(s) = {q} \cup Range(Tail(s))
  <2>1. ASSUME NEW i \in DOMAIN s
        PROVE  s[i] \in {q} \cup Range(Tail(s))
    <3>1. CASE i = 1
      BY <1>3, <3>1
    <3>2. CASE i # 1
      BY <1>3, <3>2 DEF Range
    <3> QED
      BY <3>1, <3>2
  <2>2. ASSUME NEW i \in DOMAIN Tail(s)
        PROVE  Tail(s)[i] \in Range(s)
    BY <1>3 DEF Range
  <2> QED
    BY <1>4, <2>1, <2>2 DEF Range
<1>9. \A v \in THREADS : pc[v] = "wait_free" => arg[v] # q
  BY <1>2, <1>4 DEF LiveInv, DeadInv, TakenInv, Listed
<1>10. refcount[p] > 0 /\ nwaiters[p] > 0
  BY <1>1, <1>2, CountedThread DEF Counted, Waiting
<1>11. nchilds[p] > 0
  <2>1. nchilds[p] = Cardinality(live[p]) + Len(s) /\ Len(s) > 0 /\ Len(s) \in Nat
    BY <1>1, <1>2, <1>10 DEF WaitersHaveChildren
  <2>2. Cardinality(live[p]) \in Nat
    BY <1>2, ProcAssumption, FS_Subset, FS_CardinalityType
  <2> QED
    BY <2>1, <2>2
<1> QED
  BY <1>1, <1>2, <1>3, <1>5, <1>6, <1>7, <1>8, <1>9, <1>10, <1>11
     DEF WaitReap, Goto

\* The children of a process: finitely many, each listed once and not freed.
LEMMA LiveFacts ==
  ASSUME PIInv, NEW p \in PROCS
  PROVE  /\ live[p] \in SUBSET PROCS /\ IsFiniteSet(live[p])
         /\ Cardinality(live[p]) \in Nat
         /\ dead[p] \in Seq(PROCS) /\ Len(dead[p]) \in Nat
         /\ \A i, j \in DOMAIN dead[p] : dead[p][i] = dead[p][j] => i = j
         /\ \A q \in live[p] \cup Range(dead[p]) : /\ q \in PROCS \ freed
                                                   /\ parent[q] = p
                                                   /\ q # init
<1>1. live[p] \in SUBSET PROCS /\ dead[p] \in Seq(PROCS)
  BY DEF PIInv, PTypeOK
<1>2. IsFiniteSet(live[p]) /\ Cardinality(live[p]) \in Nat
  BY <1>1, ProcAssumption, FS_Subset, FS_CardinalityType
<1>3. \A q \in Range(dead[p]) : q \in PROCS
  BY <1>1 DEF Range
<1>4. \A q \in live[p] \cup Range(dead[p]) : q \in PROCS \ freed /\ parent[q] = p
  BY <1>1, <1>3 DEF PIInv, LiveInv, DeadInv, TakenInv
<1>5. \A q \in live[p] \cup Range(dead[p]) : q # init
  BY <1>4, ProcAssumption DEF PIInv, LoneInv, SoleInv, AloneInv, InitInv
<1> QED
  BY <1>1, <1>2, <1>4, <1>5 DEF PIInv, LiveInv, DeadInv, TakenInv

\* The children of a process that has ended go to init, and as many signals.
LEMMA OrphanMoveEffect ==
  ASSUME PIInv, NEW t \in THREADS, OrphanMove(t)
  PROVE  LET p == proc[t] IN
         /\ p \in PROCS \ {init} /\ pc[t] = "orphan_move" /\ refcount[p] = 0
         /\ \A v \in THREADS : proc[v] = p /\ v # t => pc[v] \in {"die", "dead"}
         /\ Signal(init, Len(dead[p]), [pc EXCEPT ![t] = "die_last"])
         /\ live' = [live EXCEPT ![init] = @ \cup live[p], ![p] = {}]
         /\ dead' \in [PROCS -> Seq(PROCS)]
         /\ dead'[p] = <<>>
         /\ Range(dead'[init]) = Range(dead[init]) \cup Range(dead[p])
         /\ Len(dead'[init]) = Len(dead[init]) + Len(dead[p])
         /\ \A i, j \in DOMAIN dead'[init] : dead'[init][i] = dead'[init][j] => i = j
         /\ \A q \in PROCS \ {p, init} : dead'[q] = dead[q]
         /\ nchilds' = [nchilds EXCEPT ![init] = @ + Cardinality(live[p]) + Len(dead[p])]
         /\ Cardinality(live[init] \cup live[p])
              = Cardinality(live[init]) + Cardinality(live[p])
         /\ parent' = [q \in PROCS |-> IF q \in live[p] \cup Range(dead[p]) THEN init
                                       ELSE parent[q]]
         /\ waitOwner' = [waitOwner EXCEPT ![p] = None, ![init] = None]
         /\ UNCHANGED <<proc, arg, refcount, nwaiters, refOwner, heapOwner, freed, strays>>
<1> USE DEF PIInv
<1> DEFINE p == proc[t]
<1>1. pc[t] = "orphan_move"
  BY DEF OrphanMove, At
<1>2. p \in PROCS /\ init \in PROCS /\ dead \in [PROCS -> Seq(PROCS)]
  BY <1>1, ProcAssumption DEF PTypeOK, ThreadInv
<1>3. p # init
  BY <1>1 DEF LoneInv, SoleInv, AloneInv, InitInv, Counted, Waiting
<1>4. /\ refcount[p] = 0
      /\ \A v \in THREADS : proc[v] = p /\ v # t => pc[v] \in {"die", "dead"}
  BY <1>1 DEF LastInv, LastOnes
<1>5. dead' = [dead EXCEPT ![init] = @ \o dead[p], ![p] = <<>>]
  BY DEF OrphanMove
<1>6. dead'[p] = <<>> /\ dead'[init] = dead[init] \o dead[p]
      /\ \A q \in PROCS \ {p, init} : dead'[q] = dead[q]
  BY <1>2, <1>3, <1>5
<1>7. dead' \in [PROCS -> Seq(PROCS)]
  <2>1. dead[init] \o dead[p] \in Seq(PROCS) /\ <<>> \in Seq(PROCS)
    BY <1>2
  <2> QED
    BY <1>2, <1>3, <1>5, <2>1
<1> DEFINE a == dead[init]
           b == dead[p]
<1>8. /\ a \in Seq(PROCS) /\ b \in Seq(PROCS) /\ Len(a \o b) = Len(a) + Len(b)
      /\ DOMAIN (a \o b) = 1 .. (Len(a) + Len(b))
      /\ DOMAIN a = 1 .. Len(a) /\ DOMAIN b = 1 .. Len(b)
      /\ Len(a) \in Nat /\ Len(b) \in Nat
      /\ \A i \in DOMAIN (a \o b) : (a \o b)[i] = IF i <= Len(a) THEN a[i] ELSE b[i - Len(a)]
  BY <1>2
<1> HIDE DEF a, b
<1>9. Range(a \o b) = Range(a) \cup Range(b)
  <2>1. \A i \in DOMAIN (a \o b) : (a \o b)[i] \in Range(a) \cup Range(b)
    BY <1>8 DEF Range
  <2>2. \A i \in DOMAIN a : a[i] \in Range(a \o b)
    BY <1>8 DEF Range
  <2>3. ASSUME NEW i \in DOMAIN b
        PROVE  b[i] \in Range(a \o b)
    <3>1. i + Len(a) \in DOMAIN (a \o b) /\ (a \o b)[i + Len(a)] = b[i]
      BY <1>8
    <3> QED
      BY <3>1 DEF Range
  <2> QED
    BY <2>1, <2>2, <2>3 DEF Range
<1>10. /\ \A i, j \in DOMAIN a : a[i] = a[j] => i = j
       /\ \A i, j \in DOMAIN b : b[i] = b[j] => i = j
       /\ \A q \in Range(a) : parent[q] = init
       /\ \A q \in Range(b) : parent[q] = p
  BY <1>2, LiveFacts DEF a, b
<1>11. ASSUME NEW i \in DOMAIN (a \o b), NEW j \in DOMAIN (a \o b), (a \o b)[i] = (a \o b)[j]
       PROVE  i = j
  <2>1. CASE i <= Len(a) /\ j <= Len(a)
    BY <1>8, <1>10, <1>11, <2>1
  <2>2. CASE i > Len(a) /\ j > Len(a)
    <3>1. i - Len(a) \in DOMAIN b /\ j - Len(a) \in DOMAIN b
      BY <1>8, <2>2
    <3>2. b[i - Len(a)] = b[j - Len(a)]
      BY <1>8, <1>11, <2>2
    <3>3. i - Len(a) = j - Len(a)
      BY <1>10, <3>1, <3>2
    <3> QED
      BY <1>8, <3>3
  <2>3. \A k \in DOMAIN (a \o b) : /\ k <= Len(a) => parent[(a \o b)[k]] = init
                                   /\ k > Len(a) => parent[(a \o b)[k]] = p
    BY <1>8, <1>10 DEF Range
  <2> QED
    BY <1>3, <1>8, <1>11, <2>1, <2>2, <2>3
<1>12. Cardinality(live[init] \cup live[p]) = Cardinality(live[init]) + Cardinality(live[p])
  <2>1. live[init] \cap live[p] = {}
    BY ZenonT(60), <1>2, <1>3, LiveFacts
  <2>2. /\ IsFiniteSet(live[init]) /\ IsFiniteSet(live[p])
        /\ Cardinality(live[init]) \in Nat /\ Cardinality(live[p]) \in Nat
    BY <1>2, LiveFacts
  <2>3. Cardinality(live[init] \cup live[p])
          = Cardinality(live[init]) + Cardinality(live[p]) - Cardinality(live[init] \cap live[p])
    BY <2>2, FS_Union
  <2>4. Cardinality(live[init] \cap live[p]) = 0
    BY <2>1, FS_EmptySet
  <2> QED
    BY <2>2, <2>3, <2>4
<1>13. \A i, j \in DOMAIN dead'[init] : dead'[init][i] = dead'[init][j] => i = j
  BY <1>6, <1>11 DEF a, b
<1>14. /\ Range(dead'[init]) = Range(dead[init]) \cup Range(dead[p])
       /\ Len(dead'[init]) = Len(dead[init]) + Len(dead[p])
  BY <1>6, <1>8, <1>9 DEF a, b
<1> QED
  BY <1>1, <1>2, <1>3, <1>4, <1>6, <1>7, <1>12, <1>13, <1>14 DEF OrphanMove

\* The end of a process is reported to the process that is its parent now, which
\* is the one that was asked for its lock, or init.
LEMMA ReportEffect ==
  ASSUME PIInv, NEW t \in THREADS, Report(t)
  PROVE  LET p == proc[t]
             to == parent[proc[t]] IN
         /\ p \in PROCS \ {init} /\ to \in PROCS /\ to # p /\ pc[t] = "report"
         /\ arg[t] \in PROCS /\ to \in {arg[t], init} /\ waitOwner[arg[t]] = None
         /\ refcount[p] = 0 /\ p \in live[to] /\ p \notin freed
         /\ \A v \in THREADS : proc[v] = p /\ v # t => pc[v] \in {"die", "dead"}
         /\ \A r \in PROCS : p \notin Range(dead[r]) /\ (r # to => p \notin live[r])
         /\ Signal(to, 1, [pc EXCEPT ![t] = "dead"])
         /\ live' = [live EXCEPT ![to] = @ \ {p}]
         /\ Cardinality(live[to] \ {p}) = Cardinality(live[to]) - 1
         /\ dead' \in [PROCS -> Seq(PROCS)]
         /\ Range(dead'[to]) = Range(dead[to]) \cup {p}
         /\ Len(dead'[to]) = Len(dead[to]) + 1
         /\ \A i, j \in DOMAIN dead'[to] : dead'[to][i] = dead'[to][j] => i = j
         /\ \A q \in PROCS \ {to} : dead'[q] = dead[q]
         /\ waitOwner' = [q \in PROCS |-> CASE q = to -> None
                                            [] q = arg[t] /\ q # to -> t
                                            [] OTHER -> waitOwner[q]]
         /\ strays' = IF to = arg[t] THEN strays ELSE strays \cup {to}
         /\ arg' = [arg EXCEPT ![t] = None]
         /\ UNCHANGED <<proc, parent, refcount, nchilds, nwaiters, refOwner, heapOwner, freed>>
<1> USE DEF PIInv
<1> DEFINE p == proc[t]
           to == parent[proc[t]]
<1>1. pc[t] = "report" /\ waitOwner[arg[t]] = None
  BY DEF Report, At
<1>2. p \in PROCS /\ dead \in [PROCS -> Seq(PROCS)] /\ arg[t] \in PROCS /\ to \in {arg[t], init}
  BY <1>1, ProcAssumption DEF PTypeOK, ThreadInv
<1>3. p # init
  BY <1>1 DEF LoneInv, SoleInv, AloneInv, InitInv, Counted, Waiting
<1>4. /\ refcount[p] = 0
      /\ \A v \in THREADS : proc[v] = p /\ v # t => pc[v] \in {"die", "dead"}
  BY <1>1 DEF LastInv, LastOnes
<1>5. to \in PROCS /\ to # None
  BY <1>2, ProcAssumption
<1>6. p \in live[to]
  BY <1>1, <1>5 DEF ActiveInv, FoundInv
<1>7. /\ p \notin freed
      /\ \A r \in PROCS : p \notin Range(dead[r]) /\ (r # to => p \notin live[r])
  BY <1>2, <1>5, <1>6 DEF LiveInv, DeadInv, TakenInv
<1>8. to # p
  <2>1. \A v \in THREADS : proc[v] = p => pc[v] \notin Leaving
    BY <1>1, <1>4 DEF Leaving
  <2>2. live[p] = {}
    BY <1>2, <1>4, <2>1 DEF ChildlessInv
  <2> QED
    BY <1>6, <2>2
<1>9. dead' = [dead EXCEPT ![to] = Append(@, p)]
  BY DEF Report
<1>10. /\ dead' \in [PROCS -> Seq(PROCS)] /\ dead'[to] = Append(dead[to], p)
       /\ \A q \in PROCS \ {to} : dead'[q] = dead[q]
  BY <1>2, <1>5, <1>9
<1> DEFINE s == dead[to]
<1>11. /\ s \in Seq(PROCS) /\ Len(Append(s, p)) = Len(s) + 1 /\ Len(s) \in Nat
       /\ DOMAIN Append(s, p) = 1 .. (Len(s) + 1) /\ DOMAIN s = 1 .. Len(s)
       /\ \A i \in DOMAIN Append(s, p) : Append(s, p)[i] = IF i <= Len(s) THEN s[i] ELSE p
       /\ p \notin Range(s)
       /\ \A i, j \in DOMAIN s : s[i] = s[j] => i = j
  BY <1>2, <1>5, <1>7, LiveFacts
<1> HIDE DEF s
<1>12. Range(Append(s, p)) = Range(s) \cup {p}
  <2>1. \A i \in DOMAIN Append(s, p) : Append(s, p)[i] \in Range(s) \cup {p}
    BY <1>11 DEF Range
  <2>2. \A i \in DOMAIN s : s[i] \in Range(Append(s, p))
    BY <1>11 DEF Range
  <2>3. Len(s) + 1 \in DOMAIN Append(s, p) /\ Append(s, p)[Len(s) + 1] = p
    BY <1>11
  <2> QED
    BY <2>1, <2>2, <2>3 DEF Range
<1>13. \A i, j \in DOMAIN Append(s, p) : Append(s, p)[i] = Append(s, p)[j] => i = j
  <2>1. \A i \in DOMAIN s : s[i] # p
    BY <1>11 DEF Range
  <2> QED
    BY <1>11, <2>1
<1>14. Cardinality(live[to] \ {p}) = Cardinality(live[to]) - 1
  BY ZenonT(60), <1>5, <1>6, LiveFacts, FS_RemoveElement
<1>15. /\ Range(dead'[to]) = Range(dead[to]) \cup {p}
       /\ Len(dead'[to]) = Len(dead[to]) + 1
       /\ \A i, j \in DOMAIN dead'[to] : dead'[to][i] = dead'[to][j] => i = j
  BY <1>10, <1>11, <1>12, <1>13 DEF s
<1> QED
  BY <1>1, <1>2, <1>3, <1>4, <1>5, <1>6, <1>7, <1>8, <1>10, <1>14, <1>15 DEF Report

\* A dying thread takes malloc_lock, and either it is not the last one, or its
\* process has no parent and frees itself, or it goes on to report.
LEMMA DieLockEffect ==
  ASSUME PIInv, NEW t \in THREADS, DieLock(t)
  PROVE  LET p == proc[t] IN
         /\ p \in PROCS \ {init} /\ heapOwner = None /\ heapOwner' = t
         /\ \/ /\ pc[t] = "die"
               /\ pc' = [pc EXCEPT ![t] = "dead"] /\ UNCHANGED <<arg, freed>>
            \/ /\ pc[t] = "die_last" /\ parent[p] = None
               /\ pc' = [pc EXCEPT ![t] = "dead"] /\ UNCHANGED arg
               /\ freed' = freed \cup {p}
            \/ /\ pc[t] = "die_last" /\ parent[p] \in PROCS /\ p \in live[parent[p]]
               /\ pc' = [pc EXCEPT ![t] = "report"]
               /\ arg' = [arg EXCEPT ![t] = parent[p]] /\ UNCHANGED freed
         /\ pc[t] = "die_last" =>
              /\ refcount[p] = 0
              /\ \A v \in THREADS : proc[v] = p /\ v # t => pc[v] \in {"die", "dead"}
         /\ UNCHANGED <<proc, parent, refcount, childVars, waitVars, waitOwner,
                        refOwner, strays>>
<1> USE DEF PIInv
<1>1. pc[t] \in {"die", "die_last"}
  BY DEF DieLock
<1>2. proc[t] \in PROCS /\ arg[t] = None /\ parent[proc[t]] \in PROCS \cup {None}
      /\ arg \in [THREADS -> PROCS \cup THREADS \cup {None}]
  BY <1>1 DEF PTypeOK, ThreadInv
<1>3. proc[t] # init
  BY <1>1 DEF LoneInv, SoleInv, AloneInv, InitInv, Counted, Waiting
<1>4. pc[t] = "die_last" => 
        /\ refcount[proc[t]] = 0
        /\ \A v \in THREADS : proc[v] = proc[t] /\ v # t => pc[v] \in {"die", "dead"}
  BY <1>1 DEF LastInv, LastOnes
<1>5. pc[t] = "die_last" /\ parent[proc[t]] # None => proc[t] \in live[parent[proc[t]]]
  BY <1>1 DEF ActiveInv, FoundInv
<1>6. arg' = [arg EXCEPT ![t] = None] => arg' = arg
  BY <1>2
<1>7. CASE pc[t] = "die"
  BY <1>2, <1>3, <1>4, <1>6, <1>7 DEF DieLock, At, Goto
<1>8. CASE pc[t] = "die_last" /\ parent[proc[t]] = None
  BY <1>2, <1>3, <1>4, <1>6, <1>8 DEF DieLock, At, Goto
<1>9. CASE pc[t] = "die_last" /\ parent[proc[t]] # None
  BY <1>2, <1>3, <1>4, <1>5, <1>9 DEF DieLock, At, Goto
<1> QED
  BY <1>1, <1>7, <1>8, <1>9

\* Whom OrphanMove wakes: threads of init that slept in wait().
LEMMA OrphanMoveWakes ==
  ASSUME PIInv, NEW t \in THREADS, OrphanMove(t)
  PROVE  /\ pc' \in [THREADS -> Labels] /\ pc'[t] = "die_last"
         /\ \A u \in THREADS \ {t} :
              \/ pc'[u] = pc[u]
              \/ pc[u] = "asleep" /\ proc[u] = init /\ pc'[u] = "wait_lock"
<1>1. /\ proc[t] \in PROCS /\ pc[t] = "orphan_move"
      /\ Signal(init, Len(dead[proc[t]]), [pc EXCEPT ![t] = "die_last"])
  BY OrphanMoveEffect
<1>2. init \in PROCS /\ Len(dead[proc[t]]) \in Nat /\ "die_last" \in Labels
  BY <1>1, ProcAssumption, LiveFacts DEF Labels
<1> QED
  BY <1>1, <1>2, SignalFacts

\* Whom Report wakes: a thread of the parent that slept in wait().
LEMMA ReportWakes ==
  ASSUME PIInv, NEW t \in THREADS, Report(t)
  PROVE  /\ pc' \in [THREADS -> Labels] /\ pc'[t] = "dead"
         /\ \A u \in THREADS \ {t} :
              \/ pc'[u] = pc[u]
              \/ /\ pc[u] = "asleep" /\ proc[u] = parent[proc[t]]
                 /\ pc'[u] = "wait_lock"
<1>1. PICK to \in PROCS : /\ to = parent[proc[t]] /\ pc[t] = "report"
                          /\ Signal(to, 1, [pc EXCEPT ![t] = "dead"])
  BY ReportEffect
<1>2. 1 \in Nat /\ "dead" \in Labels /\ pc[t] # "asleep"
  BY <1>1 DEF Labels
<1> QED
  BY <1>1, <1>2, SignalFacts

\* What most operations leave alone: every list of children, and what the
\* threads other than the one that runs do.
Quiet(t) ==
  \/ WaitNoChild(t) \/ Wait(t) \/ WaitEmpty(t) \/ WaitSleep(t) \/ WaitRelock(t)
  \/ WaitBadStatus(t) \/ Vanish(t) \/ ExitLeave(t) \/ ExitLast(t)
  \/ OrphanLock(t) \/ OrphanLockInit(t) \/ Cleanup(t)

\* What the steps that touch no list, no parent and nothing freed leave alone.
LEMMA QuietEffect ==
  ASSUME PIInv, NEW t \in THREADS, Quiet(t)
  PROVE  /\ UNCHANGED <<arg, parent, nchilds, live, dead, freed>>
         /\ \/ pc[t] # "dead" /\ UNCHANGED proc
            \/ pc[t] = "dead" /\ pc'[t] = "gone" /\ proc' = [proc EXCEPT ![t] = None]
         /\ \A u \in THREADS \ {t} : pc'[u] = pc[u]
         /\ pc[t] \notin {"unused", "new", "fork_add", "wait_free", "die",
                         "die_last", "report", "gone", "orphan_move"}
         /\ pc'[t] \notin {"unused", "new", "fork_add", "wait_free", "die_last",
                         "report", "dead"}
         /\ pc'[t] = "die" => pc[t] = "exit_left"
         /\ \/ UNCHANGED refcount
            \/ /\ pc[t] = "exit" /\ pc'[t] = "exit_left"
               /\ refcount' = [refcount EXCEPT ![proc[t]] = @ - 1]
         /\ \/ UNCHANGED nwaiters
            \/ nwaiters' = [nwaiters EXCEPT ![proc[t]] = @ - 1]
            \/ /\ nchilds[proc[t]] > nwaiters[proc[t]]
               /\ nwaiters' = [nwaiters EXCEPT ![proc[t]] = @ + 1]
         /\ pc[t] \in Leaving /\ pc'[t] \notin Leaving =>
              pc[t] = "exit_left" /\ pc'[t] = "die" /\ refcount[proc[t]] # 0
         /\ pc[t] \in {"user", "wait_test", "wait_sleep", "wait_lock", "exit", "dead"} \cup Leaving
<1>1. pc \in [THREADS -> Labels] /\ proc \in [THREADS -> PROCS \cup {None}]
  BY DEF PIInv, PTypeOK
<1>2. CASE WaitNoChild(t)
  BY <1>1, <1>2 DEF WaitNoChild, Goto, At, User, Leaving, vars, threadVars,
     childVars, waitVars, lockVars
<1>3. CASE Wait(t)
  BY <1>1, <1>3 DEF Wait, Goto, At, User, Leaving, vars, threadVars,
     childVars, waitVars, lockVars
<1>4. CASE WaitEmpty(t)
  BY <1>1, <1>4 DEF WaitEmpty, Goto, At, User, Leaving, vars, threadVars,
     childVars, waitVars, lockVars
<1>5. CASE WaitSleep(t)
  BY <1>1, <1>5 DEF WaitSleep, Goto, At, User, Leaving, vars, threadVars,
     childVars, waitVars, lockVars
<1>6. CASE WaitRelock(t)
  BY <1>1, <1>6 DEF WaitRelock, Goto, At, User, Leaving, vars, threadVars,
     childVars, waitVars, lockVars
<1>7. CASE WaitBadStatus(t)
  BY <1>1, <1>7 DEF WaitBadStatus, Goto, At, User, Leaving, vars, threadVars,
     childVars, waitVars, lockVars
<1>8. CASE Vanish(t)
  BY <1>1, <1>8 DEF Vanish, Goto, At, User, Leaving, vars, threadVars,
     childVars, waitVars, lockVars
<1>9. CASE ExitLeave(t)
  BY <1>1, <1>9 DEF ExitLeave, Goto, At, User, Leaving, vars, threadVars,
     childVars, waitVars, lockVars
<1>10. CASE ExitLast(t)
  BY <1>1, <1>10 DEF ExitLast, Goto, At, User, Leaving, vars, threadVars,
     childVars, waitVars, lockVars
<1>11. CASE OrphanLock(t)
  BY <1>1, <1>11 DEF OrphanLock, Goto, At, User, Leaving, vars, threadVars,
     childVars, waitVars, lockVars
<1>12. CASE OrphanLockInit(t)
  BY <1>1, <1>12 DEF OrphanLockInit, Goto, At, User, Leaving, vars, threadVars,
     childVars, waitVars, lockVars
<1>13. CASE Cleanup(t)
  BY <1>1, <1>13 DEF Cleanup, Goto, At, User, Leaving, vars, threadVars,
     childVars, waitVars, lockVars
<1> QED
  BY <1>2, <1>3, <1>4, <1>5, <1>6, <1>7, <1>8, <1>9, <1>10, <1>11, <1>12, <1>13 DEF Quiet


\* The queue of wait_cv has the sleepers of the process, each once.
LEMMA AsleepStep ==
  ASSUME PIInv, Careful, NEW t \in THREADS, Call(t) \/ Step(t)
  PROVE  AsleepInv'
<1>1. /\ proc \in [THREADS -> PROCS \cup {None}] /\ pc \in [THREADS -> Labels]
      /\ arg \in [THREADS -> PROCS \cup THREADS \cup {None}]
      /\ parent \in [PROCS -> PROCS \cup {None}] /\ init \in PROCS
      /\ None \notin PROCS \cup THREADS
      /\ \A u \in THREADS : pc[u] \notin {"unused", "gone"} => proc[u] \in PROCS
  BY ProcAssumption DEF PIInv, PTypeOK, ThreadInv
<1>2. AsleepInv
  BY DEF PIInv
<1>3. asleep \in [PROCS -> Seq(THREADS)]
  BY DEF PIInv, PTypeOK
<1>4. \A p \in PROCS : \A i \in DOMAIN asleep[p] : asleep[p][i] \in THREADS
  BY <1>3
<1>5. CASE Exec(t) \/ Respawn(t)
  <2>1. PICK q \in FreshProcs, u \in FreshThreads :
          LET p == proc[t] IN
          /\ p \in PROCS /\ pc[t] = "user" /\ t # u /\ p # q
          /\ \A v \in THREADS : proc[v] = p => v = t
          /\ proc' = [proc EXCEPT ![t] = q, ![u] = p]
          /\ pc' = [pc EXCEPT ![t] = "exit", ![u] = "user"]
          /\ UNCHANGED <<asleep>>
    BY <1>5, SwapEffect DEF childVars, waitVars, lockVars
  <2>2. /\ q \in PROCS \ {init} /\ u \in THREADS /\ pc[u] = "unused" /\ proc[u] = None
        /\ arg[u] = None /\ parent[q] = None /\ q \notin freed /\ ~Listed(q)
        /\ \A v \in THREADS : proc[v] # q /\ arg[v] # q
        /\ \A v \in THREADS : pc[v] = "fork_add" => arg[v] # u
    BY FreshFacts
  <2> QED
    BY <1>1, <1>2, <1>3, <1>4, <2>1, <2>2 DEF AsleepInv
<1>6. CASE Fork(t)
  <2>1. PICK q \in FreshProcs, u \in FreshThreads :
          LET p == proc[t] IN
          /\ p \in PROCS /\ pc[t] = "user" /\ t # u /\ p # q
          /\ proc' = [proc EXCEPT ![u] = q] /\ parent' = [parent EXCEPT ![q] = p]
          /\ arg' = [arg EXCEPT ![t] = u]
          /\ pc' = [pc EXCEPT ![t] = "fork_add", ![u] = "new"]
          /\ UNCHANGED <<asleep>>
    BY <1>6, ForkEffect DEF childVars, waitVars, lockVars
  <2>2. /\ q \in PROCS \ {init} /\ u \in THREADS /\ pc[u] = "unused" /\ proc[u] = None
        /\ arg[u] = None /\ parent[q] = None /\ q \notin freed /\ ~Listed(q)
        /\ \A v \in THREADS : proc[v] # q /\ arg[v] # q
        /\ \A v \in THREADS : pc[v] = "fork_add" => arg[v] # u
    BY FreshFacts
  <2> QED
    BY <1>1, <1>2, <1>3, <1>4, <2>1, <2>2 DEF AsleepInv
<1>7. CASE ForkAdd(t)
  <2>1. PICK u \in THREADS : /\ pc[t] = "fork_add" /\ pc[u] = "new"
                             /\ pc' = [pc EXCEPT ![t] = "user", ![u] = "user"]
                             /\ UNCHANGED <<proc, asleep>>
    BY <1>7, ForkAddEffect DEF waitVars
  <2> QED
    BY <1>1, <1>2, <1>3, <1>4, <2>1 DEF AsleepInv
<1>8. CASE ThreadFork(t)
  <2>1. PICK u \in FreshThreads :
          LET p == proc[t] IN
          /\ p \in PROCS \ {init} /\ pc[t] = "user" /\ t # u
          /\ "thread_fork" \in Calls[p] /\ parent[p] # None
          /\ proc' = [proc EXCEPT ![u] = p] /\ pc' = [pc EXCEPT ![u] = "user"]
          /\ UNCHANGED <<asleep>>
    BY <1>8, ThreadForkEffect DEF childVars, waitVars, lockVars
  <2>2. u \in THREADS /\ pc[u] = "unused"
    BY DEF FreshThreads
  <2>3. proc[u] = None /\ arg[u] = None
    BY <2>2 DEF PIInv, ThreadInv
  <2> QED
    BY <1>1, <1>2, <1>3, <1>4, <2>1, <2>2, <2>3 DEF AsleepInv
<1>9. CASE WaitNoChild(t)
  BY <1>1, <1>2, <1>3, <1>4, <1>9 DEF WaitNoChild, Goto, At, User, AsleepInv,
       vars, threadVars, childVars, waitVars, lockVars
<1>10. CASE Wait(t)
  BY <1>1, <1>2, <1>3, <1>4, <1>10 DEF Wait, Goto, At, User, AsleepInv, vars,
       threadVars, childVars, waitVars, lockVars
<1>11. CASE WaitEmpty(t)
  BY <1>1, <1>2, <1>3, <1>4, <1>11 DEF WaitEmpty, Goto, At, User, AsleepInv,
       vars, threadVars, childVars, waitVars, lockVars
<1>12. CASE WaitSleep(t)
  <2>1. /\ pc[t] = "wait_sleep" /\ proc[t] \in PROCS /\ UNCHANGED proc
        /\ pc' = [pc EXCEPT ![t] = "asleep"]
        /\ asleep' = [asleep EXCEPT ![proc[t]] = Append(@, t)]
    BY <1>1, <1>12 DEF WaitSleep, At, Goto
  <2>2. PICK p \in PROCS : p = proc[t]
    BY <2>1
  <2>3. /\ asleep'[p] = Append(asleep[p], t)
        /\ \A i \in DOMAIN asleep'[p] :
             \/ i \in DOMAIN asleep[p] /\ asleep'[p][i] = asleep[p][i]
             \/ i = Len(asleep[p]) + 1 /\ asleep'[p][i] = t
    BY <1>3, <2>1, <2>2
  <2>4. \A i \in DOMAIN asleep[p] : asleep[p][i] # t
    BY <1>2, <2>1, <2>2 DEF AsleepInv
  <2>5. \A i \in DOMAIN asleep'[p] : pc'[asleep'[p][i]] = "asleep" /\ proc'[asleep'[p][i]] = p
    BY <1>1, <1>2, <1>4, <2>1, <2>2, <2>3, <2>4 DEF AsleepInv
  <2>6. \A i, j \in DOMAIN asleep'[p] : asleep'[p][i] = asleep'[p][j] => i = j
    BY <1>2, <2>2, <2>3, <2>4 DEF AsleepInv
  <2>7. \A r \in PROCS \ {p} : asleep'[r] = asleep[r]
    BY <1>3, <2>1, <2>2
  <2>8. \A r \in PROCS \ {p} : \A i \in DOMAIN asleep[r] : asleep[r][i] # t
    BY <1>2, <2>1 DEF AsleepInv
  <2>9. ASSUME NEW r \in PROCS \ {p}, NEW i \in DOMAIN asleep[r]
        PROVE  pc'[asleep[r][i]] = "asleep" /\ proc'[asleep[r][i]] = r
    BY <1>1, <1>2, <1>4, <2>1, <2>8 DEF AsleepInv
  <2> QED
    BY <1>2, <2>2, <2>5, <2>6, <2>7, <2>9 DEF AsleepInv
<1>13. CASE WaitRelock(t)
  BY <1>1, <1>2, <1>3, <1>4, <1>13 DEF WaitRelock, Goto, At, User, AsleepInv,
       vars, threadVars, childVars, waitVars, lockVars
<1>14. CASE WaitReap(t)
  BY <1>1, <1>2, <1>3, <1>4, <1>14 DEF WaitReap, Goto, At, AsleepInv
<1>15. CASE WaitBadStatus(t)
  BY <1>1, <1>2, <1>3, <1>4, <1>15 DEF WaitBadStatus, Goto, At, User,
       AsleepInv, vars, threadVars, childVars, waitVars, lockVars
<1>16. CASE WaitFree(t)
  BY <1>1, <1>2, <1>3, <1>4, <1>16 DEF WaitFree, Goto, At, User, AsleepInv,
       vars, threadVars, childVars, waitVars, lockVars
<1>17. CASE Vanish(t)
  BY <1>1, <1>2, <1>3, <1>4, <1>17 DEF Vanish, Goto, At, User, AsleepInv,
       vars, threadVars, childVars, waitVars, lockVars
<1>18. CASE ExitLeave(t)
  BY <1>1, <1>2, <1>3, <1>4, <1>18 DEF ExitLeave, Goto, At, User, AsleepInv,
       vars, threadVars, childVars, waitVars, lockVars
<1>19. CASE ExitLast(t)
  BY <1>1, <1>2, <1>3, <1>4, <1>19 DEF ExitLast, Goto, At, User, AsleepInv,
       vars, threadVars, childVars, waitVars, lockVars
<1>20. CASE OrphanLock(t)
  BY <1>1, <1>2, <1>3, <1>4, <1>20 DEF OrphanLock, Goto, At, User, AsleepInv,
       vars, threadVars, childVars, waitVars, lockVars
<1>21. CASE OrphanLockInit(t)
  BY <1>1, <1>2, <1>3, <1>4, <1>21 DEF OrphanLockInit, Goto, At, User,
       AsleepInv, vars, threadVars, childVars, waitVars, lockVars
<1>22. CASE OrphanMove(t)
  <2>1. PICK to \in PROCS, n \in Nat, l \in Labels :
          /\ Signal(to, n, [pc EXCEPT ![t] = l]) /\ pc[t] # "asleep" /\ UNCHANGED proc
    <3>1. /\ proc[t] \in PROCS /\ pc[t] = "orphan_move" /\ UNCHANGED proc
          /\ Signal(init, Len(dead[proc[t]]), [pc EXCEPT ![t] = "die_last"])
      BY <1>22, OrphanMoveEffect
    <3>2. Len(dead[proc[t]]) \in Nat /\ "die_last" \in Labels
      BY <3>1, LiveFacts DEF Labels
    <3> QED
      BY <1>1, <3>1, <3>2
  <2>2. /\ \A u \in THREADS \ {t} :
             \/ pc'[u] = pc[u]
             \/ pc[u] = "asleep" /\ proc[u] = to /\ pc'[u] = "wait_lock"
        /\ \A r \in PROCS \ {to} : asleep'[r] = asleep[r]
        /\ \A i \in DOMAIN asleep'[to] :
             /\ i + n \in DOMAIN asleep[to]
             /\ asleep'[to][i] = asleep[to][i + n]
             /\ pc'[asleep'[to][i]] = "asleep"
        /\ asleep' \in [PROCS -> Seq(THREADS)]
    BY <2>1, SignalFacts
  <2>3. \A i, j \in DOMAIN asleep'[to] :
          /\ proc'[asleep'[to][i]] = to
          /\ asleep'[to][i] = asleep'[to][j] => i = j
    <3>1. \A i \in DOMAIN asleep'[to] : i \in Nat
      BY <2>2
    <3> QED
      BY <1>2, <2>1, <2>2, <3>1 DEF AsleepInv
  <2>4. ASSUME NEW r \in PROCS \ {to}, NEW i \in DOMAIN asleep[r]
        PROVE  pc'[asleep[r][i]] = "asleep" /\ proc'[asleep[r][i]] = r
    BY <1>1, <1>2, <1>4, <2>1, <2>2 DEF AsleepInv
  <2> QED
    BY <1>2, <2>2, <2>3, <2>4 DEF AsleepInv
<1>23. CASE DieLock(t)
  BY <1>1, <1>2, <1>3, <1>4, <1>23, DieLockEffect DEF waitVars, AsleepInv
<1>24. CASE Report(t)
  <2>1. PICK to \in PROCS, n \in Nat, l \in Labels :
          /\ Signal(to, n, [pc EXCEPT ![t] = l]) /\ pc[t] # "asleep" /\ UNCHANGED proc
    <3>1. PICK to \in PROCS : /\ pc[t] = "report" /\ UNCHANGED proc
                             /\ Signal(to, 1, [pc EXCEPT ![t] = "dead"])
      BY <1>24, ReportEffect
    <3>2. 1 \in Nat /\ "dead" \in Labels
      BY DEF Labels
    <3> QED
      BY <3>1, <3>2
  <2>2. /\ \A u \in THREADS \ {t} :
             \/ pc'[u] = pc[u]
             \/ pc[u] = "asleep" /\ proc[u] = to /\ pc'[u] = "wait_lock"
        /\ \A r \in PROCS \ {to} : asleep'[r] = asleep[r]
        /\ \A i \in DOMAIN asleep'[to] :
             /\ i + n \in DOMAIN asleep[to]
             /\ asleep'[to][i] = asleep[to][i + n]
             /\ pc'[asleep'[to][i]] = "asleep"
        /\ asleep' \in [PROCS -> Seq(THREADS)]
    BY <2>1, SignalFacts
  <2>3. \A i, j \in DOMAIN asleep'[to] :
          /\ proc'[asleep'[to][i]] = to
          /\ asleep'[to][i] = asleep'[to][j] => i = j
    <3>1. \A i \in DOMAIN asleep'[to] : i \in Nat
      BY <2>2
    <3> QED
      BY <1>2, <2>1, <2>2, <3>1 DEF AsleepInv
  <2>4. ASSUME NEW r \in PROCS \ {to}, NEW i \in DOMAIN asleep[r]
        PROVE  pc'[asleep[r][i]] = "asleep" /\ proc'[asleep[r][i]] = r
    BY <1>1, <1>2, <1>4, <2>1, <2>2 DEF AsleepInv
  <2> QED
    BY <1>2, <2>2, <2>3, <2>4 DEF AsleepInv
<1>25. CASE Cleanup(t)
  BY <1>1, <1>2, <1>3, <1>4, <1>25 DEF Cleanup, Goto, At, User, AsleepInv,
       vars, threadVars, childVars, waitVars, lockVars
<1> QED
    BY <1>5, <1>6, <1>7, <1>8, <1>9, <1>10, <1>11, <1>12, <1>13, <1>14, <1>15,
     <1>16, <1>17, <1>18, <1>19, <1>20, <1>21, <1>22, <1>23, <1>24, <1>25 DEF
     Call, Step

\* A process that is over stays over, unless its structure is new.
LEMMA OverKept ==
  ASSUME PIInv, Careful, NEW p \in PROCS \ FreshProcs, Over(p), NEW t \in THREADS, Call(t) \/ Step(t)
  PROVE  Over(p)'
<1>1. /\ proc \in [THREADS -> PROCS \cup {None}] /\ pc \in [THREADS -> Labels]
      /\ arg \in [THREADS -> PROCS \cup THREADS \cup {None}]
      /\ parent \in [PROCS -> PROCS \cup {None}] /\ init \in PROCS
      /\ None \notin PROCS \cup THREADS
      /\ \A u \in THREADS : pc[u] \notin {"unused", "gone"} => proc[u] \in PROCS
  BY ProcAssumption DEF PIInv, PTypeOK, ThreadInv
<1>2. p \in PROCS /\ p \notin FreshProcs /\ \A u \in THREADS : proc[u] = p =>
       pc[u] \in {"die", "dead"}
  BY DEF Over
<1>3. CASE Exec(t) \/ Respawn(t)
  <2>1. PICK q \in FreshProcs, u \in FreshThreads :
          LET pp == proc[t] IN
          /\ pp \in PROCS /\ pc[t] = "user" /\ t # u /\ pp # q
          /\ \A v \in THREADS : proc[v] = pp => v = t
          /\ proc' = [proc EXCEPT ![t] = q, ![u] = pp]
          /\ pc' = [pc EXCEPT ![t] = "exit", ![u] = "user"]
          /\ UNCHANGED <<arg>>
    BY <1>3, SwapEffect DEF childVars, waitVars, lockVars
  <2>2. /\ q \in PROCS \ {init} /\ u \in THREADS /\ pc[u] = "unused" /\ proc[u] = None
        /\ arg[u] = None /\ parent[q] = None /\ q \notin freed /\ ~Listed(q)
        /\ \A v \in THREADS : proc[v] # q /\ arg[v] # q
        /\ \A v \in THREADS : pc[v] = "fork_add" => arg[v] # u
    BY FreshFacts
  <2> QED
    BY <1>1, <1>2, <2>1, <2>2 DEF Over
<1>4. CASE Fork(t)
  <2>1. PICK q \in FreshProcs, u \in FreshThreads :
          LET pp == proc[t] IN
          /\ pp \in PROCS /\ pc[t] = "user" /\ t # u /\ pp # q
          /\ proc' = [proc EXCEPT ![u] = q] /\ parent' = [parent EXCEPT ![q] = pp]
          /\ arg' = [arg EXCEPT ![t] = u]
          /\ pc' = [pc EXCEPT ![t] = "fork_add", ![u] = "new"]
          /\ UNCHANGED <<freed>>
    BY <1>4, ForkEffect DEF childVars, waitVars, lockVars
  <2>2. /\ q \in PROCS \ {init} /\ u \in THREADS /\ pc[u] = "unused" /\ proc[u] = None
        /\ arg[u] = None /\ parent[q] = None /\ q \notin freed /\ ~Listed(q)
        /\ \A v \in THREADS : proc[v] # q /\ arg[v] # q
        /\ \A v \in THREADS : pc[v] = "fork_add" => arg[v] # u
    BY FreshFacts
  <2> QED
    BY <1>1, <1>2, <2>1, <2>2 DEF Over
<1>5. CASE ForkAdd(t)
  BY <1>1, <1>2, <1>5, ForkAddEffect DEF Over
<1>6. CASE ThreadFork(t)
  <2>1. PICK u \in FreshThreads :
          LET pp == proc[t] IN
          /\ pp \in PROCS \ {init} /\ pc[t] = "user" /\ t # u
          /\ "thread_fork" \in Calls[pp] /\ parent[pp] # None
          /\ proc' = [proc EXCEPT ![u] = pp] /\ pc' = [pc EXCEPT ![u] = "user"]
          /\ UNCHANGED <<arg>>
    BY <1>6, ThreadForkEffect DEF childVars, waitVars, lockVars
  <2>2. u \in THREADS /\ pc[u] = "unused"
    BY DEF FreshThreads
  <2>3. proc[u] = None /\ arg[u] = None
    BY <2>2 DEF PIInv, ThreadInv
  <2> QED
    BY <1>1, <1>2, <2>1, <2>2, <2>3 DEF Over
<1>7. CASE WaitNoChild(t)
  BY <1>1, <1>2, <1>7 DEF WaitNoChild, Goto, At, User, Over, vars, threadVars,
       childVars, waitVars, lockVars
<1>8. CASE Wait(t)
  BY <1>1, <1>2, <1>8 DEF Wait, Goto, At, User, Over, vars, threadVars,
       childVars, waitVars, lockVars
<1>9. CASE WaitEmpty(t)
  BY <1>1, <1>2, <1>9 DEF WaitEmpty, Goto, At, User, Over, vars, threadVars,
       childVars, waitVars, lockVars
<1>10. CASE WaitSleep(t)
  BY <1>1, <1>2, <1>10 DEF WaitSleep, Goto, At, User, Over, vars, threadVars,
       childVars, waitVars, lockVars
<1>11. CASE WaitRelock(t)
  BY <1>1, <1>2, <1>11 DEF WaitRelock, Goto, At, User, Over, vars, threadVars,
       childVars, waitVars, lockVars
<1>12. CASE WaitReap(t)
  BY <1>1, <1>2, <1>12 DEF WaitReap, Goto, At, Over
<1>13. CASE WaitBadStatus(t)
  BY <1>1, <1>2, <1>13 DEF WaitBadStatus, Goto, At, User, Over, vars,
       threadVars, childVars, waitVars, lockVars
<1>14. CASE WaitFree(t)
  BY <1>1, <1>2, <1>14 DEF WaitFree, Goto, At, User, Over, vars, threadVars,
       childVars, waitVars, lockVars
<1>15. CASE Vanish(t)
  BY <1>1, <1>2, <1>15 DEF Vanish, Goto, At, User, Over, vars, threadVars,
       childVars, waitVars, lockVars
<1>16. CASE ExitLeave(t)
  BY <1>1, <1>2, <1>16 DEF ExitLeave, Goto, At, User, Over, vars, threadVars,
       childVars, waitVars, lockVars
<1>17. CASE ExitLast(t)
  BY <1>1, <1>2, <1>17 DEF ExitLast, Goto, At, User, Over, vars, threadVars,
       childVars, waitVars, lockVars
<1>18. CASE OrphanLock(t)
  BY <1>1, <1>2, <1>18 DEF OrphanLock, Goto, At, User, Over, vars, threadVars,
       childVars, waitVars, lockVars
<1>19. CASE OrphanLockInit(t)
  BY <1>1, <1>2, <1>19 DEF OrphanLockInit, Goto, At, User, Over, vars,
       threadVars, childVars, waitVars, lockVars
<1>20. CASE OrphanMove(t)
  <2>1. /\ pc'[t] = "die_last"
        /\ \A u \in THREADS \ {t} :
             \/ pc'[u] = pc[u]
             \/ pc[u] = "asleep" /\ proc[u] = init /\ pc'[u] = "wait_lock"
    BY <1>20, OrphanMoveWakes
  <2>2. /\ proc[t] \in PROCS \ {init} /\ pc[t] = "orphan_move"
        /\ parent' = [q \in PROCS |-> IF q \in live[proc[t]] \cup Range(dead[proc[t]])
                                      THEN init ELSE parent[q]]
        /\ UNCHANGED <<proc>>
    BY <1>20, OrphanMoveEffect
  <2> QED
    BY <1>1, <1>2, <2>1, <2>2 DEF Over
<1>21. CASE DieLock(t)
  BY <1>1, <1>2, <1>21, DieLockEffect DEF Over
<1>22. CASE Report(t)
  <2>1. /\ pc'[t] = "dead"
        /\ \A u \in THREADS \ {t} :
             \/ pc'[u] = pc[u]
             \/ pc[u] = "asleep" /\ proc[u] = parent[proc[t]] /\ pc'[u] = "wait_lock"
    BY <1>22, ReportWakes
  <2>2. /\ proc[t] \in PROCS \ {init} /\ pc[t] = "report"
        /\ parent[proc[t]] \in PROCS \ {proc[t]}
        /\ arg' = [arg EXCEPT ![t] = None]
        /\ UNCHANGED <<proc>>
    BY <1>22, ReportEffect
  <2> QED
    BY <1>1, <1>2, <2>1, <2>2 DEF Over
<1>23. CASE Cleanup(t)
  BY <1>1, <1>2, <1>23 DEF Cleanup, Goto, At, User, Over, vars, threadVars,
       childVars, waitVars, lockVars
<1> QED
    BY <1>3, <1>4, <1>5, <1>6, <1>7, <1>8, <1>9, <1>10, <1>11, <1>12, <1>13,
     <1>14, <1>15, <1>16, <1>17, <1>18, <1>19, <1>20, <1>21, <1>22, <1>23 DEF
     Call, Step

-----------------------------------------------------------------------------
(* Types *)

\* No operation leaves the types of the variables.
LEMMA TypeStep ==
  ASSUME PIInv, Careful, NEW t \in THREADS, Call(t) \/ Step(t)
  PROVE  PTypeOK'
<1>1. PTypeOK /\ ThreadInv
  BY DEF PIInv
<1>2. /\ t \in THREADS /\ init \in PROCS /\ None \notin PROCS \cup THREADS
      /\ pc[t] \notin {"unused", "gone"} => proc[t] \in PROCS
  BY <1>1, ProcAssumption DEF PTypeOK, ThreadInv
<1>3. nwaiters \in [PROCS -> Nat] /\ nchilds \in [PROCS -> Nat]
  BY <1>1 DEF PTypeOK
<1>4. CASE Exec(t) \/ Respawn(t)
  <2>1. PICK q \in FreshProcs, u \in FreshThreads :
          LET p == proc[t] IN
          /\ p \in PROCS /\ refcount[p] = 1
          /\ proc' = [proc EXCEPT ![t] = q, ![u] = p]
          /\ pc' = [pc EXCEPT ![t] = "exit", ![u] = "user"]
          /\ refcount' = [refcount EXCEPT ![q] = 1]
          /\ UNCHANGED <<arg, parent, live, waitVars, lockVars, strays>>
          /\ \/ UNCHANGED <<childVars, freed>>
             \/ /\ p = init
                /\ dead' = [dead EXCEPT ![init] = <<>>]
                /\ nchilds' = [nchilds EXCEPT ![init] = @ - Len(dead[init])]
                /\ freed' = freed \cup Range(dead[init])
    BY <1>4, SwapEffect
  <2>2. q \in PROCS /\ u \in THREADS
    BY DEF FreshProcs, FreshThreads
  <2>3. PTypeOK' \/ ~UNCHANGED <<childVars, freed>>
    BY <1>1, <2>1, <2>2 DEF PTypeOK, Labels, childVars, waitVars, lockVars
  <2>4. CASE ~UNCHANGED <<childVars, freed>>
    <3>1. refcount[init] = 1 /\ Range(dead[init]) \in SUBSET PROCS
      BY <1>2, <2>1, <2>4, LiveFacts
    <3>2. nchilds[init] - Len(dead[init]) \in Nat
      BY <1>2, <3>1, LiveFacts DEF PIInv, WaitersHaveChildren
    <3>3. /\ nchilds' \in [PROCS -> Nat] /\ dead' \in [PROCS -> Seq(PROCS)]
          /\ freed' \in SUBSET PROCS
      <4>1. nchilds' \in [PROCS -> Nat]
        BY <1>2, <1>3, <2>1, <2>4, <3>2
      <4>2. dead' = [dead EXCEPT ![init] = <<>>] /\ freed' = freed \cup Range(dead[init])
        BY <2>1, <2>4
      <4>3. dead \in [PROCS -> Seq(PROCS)] /\ freed \in SUBSET PROCS /\ <<>> \in Seq(PROCS)
        BY <1>1 DEF PTypeOK
      <4> QED
        BY <3>1, <4>1, <4>2, <4>3
    <3>4. /\ proc' \in [THREADS -> PROCS \cup {None}] /\ pc' \in [THREADS -> Labels]
          /\ refcount' \in [PROCS -> Nat]
      BY <1>1, <2>1, <2>2 DEF PTypeOK, Labels
    <3> QED
      BY <1>1, <2>1, <3>3, <3>4 DEF PTypeOK, childVars, waitVars, lockVars
  <2> QED
    BY <2>3, <2>4
<1>5. CASE Fork(t)
  <2>1. PICK q \in FreshProcs, u \in FreshThreads :
          LET p == proc[t] IN
          /\ p \in PROCS
          /\ proc' = [proc EXCEPT ![u] = q] /\ parent' = [parent EXCEPT ![q] = p]
          /\ refcount' = [refcount EXCEPT ![q] = 1]
          /\ arg' = [arg EXCEPT ![t] = u]
          /\ pc' = [pc EXCEPT ![t] = "fork_add", ![u] = "new"]
          /\ UNCHANGED <<childVars, waitVars, lockVars, freed, strays>>
    BY <1>5, ForkEffect
  <2>2. q \in PROCS /\ u \in THREADS
    BY DEF FreshProcs, FreshThreads
  <2> QED
    BY <1>1, <2>1, <2>2 DEF PTypeOK, Labels, childVars, waitVars, lockVars
<1>6. CASE ForkAdd(t)
  <2>1. /\ proc[t] \in PROCS /\ proc[arg[t]] \in PROCS /\ arg[t] \in THREADS
        /\ live' = [live EXCEPT ![proc[t]] = @ \cup {proc[arg[t]]}]
        /\ nchilds' = [nchilds EXCEPT ![proc[t]] = @ + 1]
        /\ pc' = [pc EXCEPT ![t] = "user", ![arg[t]] = "user"]
        /\ arg' = [arg EXCEPT ![t] = None]
        /\ UNCHANGED <<proc, parent, refcount, dead, waitVars, lockVars, freed, strays>>
    BY <1>6, ForkAddEffect
  <2>2. nchilds' \in [PROCS -> Nat]
    BY <1>3, <2>1
  <2> QED
    BY ZenonT(60), <1>1, <2>1, <2>2 DEF PTypeOK, Labels, childVars, waitVars, lockVars
<1>7. CASE ThreadFork(t)
  <2>1. PICK u \in FreshThreads :
          LET p == proc[t] IN
          /\ p \in PROCS
          /\ proc' = [proc EXCEPT ![u] = p] /\ pc' = [pc EXCEPT ![u] = "user"]
          /\ refcount' = [refcount EXCEPT ![p] = @ + 1]
          /\ UNCHANGED <<arg, parent, childVars, waitVars, lockVars, freed, strays>>
    BY <1>7, ThreadForkEffect
  <2>2. u \in THREADS
    BY DEF FreshThreads
  <2> QED
    BY <1>1, <2>1, <2>2 DEF PTypeOK, Labels, childVars, waitVars, lockVars
<1>8. CASE WaitNoChild(t)
  BY <1>1, <1>8 DEF WaitNoChild, PTypeOK, vars, threadVars, childVars,
       waitVars, lockVars
<1>9. CASE Wait(t)
  BY <1>1, <1>2, <1>9 DEF Wait, PTypeOK, Labels, Goto, At, User, childVars,
       waitVars, lockVars
<1>10. CASE WaitEmpty(t)
  BY <1>1, <1>2, <1>10 DEF WaitEmpty, PTypeOK, Labels, Goto, At, User,
       childVars, waitVars, lockVars
<1>11. CASE WaitSleep(t)
  BY <1>1, <1>2, <1>11 DEF WaitSleep, PTypeOK, Labels, Goto, At, User,
       childVars, waitVars, lockVars
<1>12. CASE WaitRelock(t)
  BY <1>1, <1>2, <1>12 DEF WaitRelock, PTypeOK, Labels, Goto, At, User,
       childVars, waitVars, lockVars
<1>13. CASE WaitReap(t)
  <2>1. /\ proc[t] \in PROCS /\ Head(dead[proc[t]]) \in PROCS
        /\ nwaiters[proc[t]] > 0 /\ nchilds[proc[t]] > 0
        /\ Tail(dead[proc[t]]) \in Seq(PROCS)
        /\ dead' = [dead EXCEPT ![proc[t]] = Tail(@)]
        /\ nchilds' = [nchilds EXCEPT ![proc[t]] = @ - 1]
        /\ nwaiters' = [nwaiters EXCEPT ![proc[t]] = @ - 1]
        /\ waitOwner' = [waitOwner EXCEPT ![proc[t]] = None]
        /\ arg' = [arg EXCEPT ![t] = Head(dead[proc[t]])]
        /\ pc' = [pc EXCEPT ![t] = "wait_free"]
        /\ UNCHANGED <<proc, parent, refcount, live, asleep, refOwner, heapOwner,
                       freed, strays>>
    BY <1>13, WaitReapEffect
  <2>2. nwaiters' \in [PROCS -> Nat] /\ nchilds' \in [PROCS -> Nat]
    BY <1>3, <2>1
  <2>3. dead' \in [PROCS -> Seq(PROCS)]
    BY <1>1, <2>1 DEF PTypeOK
  <2> QED
    BY <1>1, <1>2, <2>1, <2>2, <2>3 DEF PTypeOK, Labels
<1>14. CASE WaitBadStatus(t)
  <2>1. nwaiters[proc[t]] > 0 /\ proc[t] \in PROCS
    BY <1>2, <1>14, CountedThread DEF WaitBadStatus, At, Waiting
  <2>2. nwaiters' = [nwaiters EXCEPT ![proc[t]] = @ - 1]
    BY <1>14 DEF WaitBadStatus
  <2>3. nwaiters' \in [PROCS -> Nat]
    BY <1>3, <2>1, <2>2
  <2> QED
    BY <1>1, <1>2, <1>14, <2>3 DEF WaitBadStatus, PTypeOK, Labels, Goto, At,
       User, childVars, waitVars, lockVars
<1>15. CASE WaitFree(t)
  <2>1. arg[t] \in PROCS
    BY <1>15 DEF WaitFree, At, PIInv, LiveInv, DeadInv, TakenInv
  <2> QED
    BY <1>1, <1>2, <1>15, <2>1 DEF WaitFree, PTypeOK, Labels, Goto, At, User,
       childVars, waitVars, lockVars
<1>16. CASE Vanish(t)
  BY <1>1, <1>2, <1>16 DEF Vanish, PTypeOK, Labels, Goto, At, User, childVars,
       waitVars, lockVars
<1>17. CASE ExitLeave(t)
  <2>1. refcount[proc[t]] > 0
    BY <1>2, <1>17, CountedThread DEF ExitLeave, At, Counted
  <2> QED
    BY <1>1, <1>2, <1>17, <2>1 DEF ExitLeave, PTypeOK, Labels, Goto, At, User,
       childVars, waitVars, lockVars
<1>18. CASE ExitLast(t)
  BY <1>1, <1>2, <1>18 DEF ExitLast, PTypeOK, Labels, Goto, At, User,
       childVars, waitVars, lockVars
<1>19. CASE OrphanLock(t)
  BY <1>1, <1>2, <1>19 DEF OrphanLock, PTypeOK, Labels, Goto, At, User,
       childVars, waitVars, lockVars
<1>20. CASE OrphanLockInit(t)
  BY <1>1, <1>2, <1>20 DEF OrphanLockInit, PTypeOK, Labels, Goto, At, User,
       childVars, waitVars, lockVars
<1>21. CASE OrphanMove(t)
  <2>1. pc' \in [THREADS -> Labels] /\ asleep' \in [PROCS -> Seq(THREADS)]
    BY ZenonT(60), <1>2, <1>21, OrphanMoveEffect, SignalFacts, LiveFacts DEF Labels
  <2>2. /\ proc[t] \in PROCS /\ dead' \in [PROCS -> Seq(PROCS)]
        /\ live' = [live EXCEPT ![init] = @ \cup live[proc[t]], ![proc[t]] = {}]
        /\ nchilds' = [nchilds EXCEPT ![init] = @ + Cardinality(live[proc[t]])
                                                  + Len(dead[proc[t]])]
        /\ parent' = [q \in PROCS |-> IF q \in live[proc[t]] \cup Range(dead[proc[t]])
                                       THEN init ELSE parent[q]]
        /\ waitOwner' = [waitOwner EXCEPT ![proc[t]] = None, ![init] = None]
        /\ UNCHANGED <<proc, arg, refcount, nwaiters, refOwner, heapOwner, freed, strays>>
    BY <1>21, OrphanMoveEffect
  <2>3. Cardinality(live[proc[t]]) \in Nat /\ Len(dead[proc[t]]) \in Nat
    BY <2>2, LiveFacts
  <2>4. nchilds' \in [PROCS -> Nat]
    BY SMTT(30), <1>2, <1>3, <2>2, <2>3
  <2>5. live' \in [PROCS -> SUBSET PROCS]
    BY <1>1, <1>2, <2>2 DEF PTypeOK
  <2>6. parent' \in [PROCS -> PROCS \cup {None}] /\ waitOwner' \in [PROCS -> THREADS \cup {None}]
    BY <1>1, <1>2, <2>2 DEF PTypeOK
  <2> QED
    BY <1>1, <2>1, <2>2, <2>4, <2>5, <2>6 DEF PTypeOK
<1>22. CASE DieLock(t)
  <2>1. /\ pc' \in [THREADS -> Labels] /\ freed' \in SUBSET PROCS /\ heapOwner' = t
        /\ arg' \in [THREADS -> PROCS \cup THREADS \cup {None}]
    <3>1. /\ pc \in [THREADS -> Labels] /\ freed \in SUBSET PROCS
          /\ arg \in [THREADS -> PROCS \cup THREADS \cup {None}]
      BY <1>1 DEF PTypeOK
    <3> QED
      BY <1>22, <3>1, DieLockEffect DEF Labels
  <2>2. UNCHANGED <<proc, parent, refcount, childVars, waitVars, waitOwner, refOwner, strays>>
    BY <1>22, DieLockEffect
  <2> QED
    BY <1>1, <2>1, <2>2 DEF PTypeOK, childVars, waitVars
<1>23. CASE Report(t)
  <2>1. pc' \in [THREADS -> Labels] /\ asleep' \in [PROCS -> Seq(THREADS)]
    BY <1>2, <1>23, ReportEffect, SignalFacts DEF Labels
  <2>2. /\ dead' \in [PROCS -> Seq(PROCS)] /\ parent[proc[t]] \in PROCS
        /\ live' = [live EXCEPT ![parent[proc[t]]] = @ \ {proc[t]}]
        /\ waitOwner' = [q \in PROCS |-> CASE q = parent[proc[t]] -> None
                                           [] q = arg[t] /\ q # parent[proc[t]] -> t
                                           [] OTHER -> waitOwner[q]]
        /\ strays' = IF parent[proc[t]] = arg[t] THEN strays ELSE strays \cup {parent[proc[t]]}
        /\ arg' = [arg EXCEPT ![t] = None]
        /\ UNCHANGED <<proc, parent, refcount, nchilds, nwaiters, refOwner, heapOwner, freed>>
    BY <1>23, ReportEffect
  <2>3. live' \in [PROCS -> SUBSET PROCS] /\ waitOwner' \in [PROCS -> THREADS \cup {None}]
    BY <1>1, <1>2, <2>2 DEF PTypeOK
  <2> QED
    BY <1>1, <1>2, <2>1, <2>2, <2>3 DEF PTypeOK
<1>24. CASE Cleanup(t)
  BY <1>1, <1>2, <1>24 DEF Cleanup, PTypeOK, Labels, Goto, At, User,
       childVars, waitVars, lockVars
<1> QED
    BY <1>4, <1>5, <1>6, <1>7, <1>8, <1>9, <1>10, <1>11, <1>12, <1>13, <1>14,
     <1>15, <1>16, <1>17, <1>18, <1>19, <1>20, <1>21, <1>22, <1>23, <1>24 DEF
     Call, Step

-----------------------------------------------------------------------------
(* Threads *)

\* Every operation keeps what the labels say of a thread's process and argument.
LEMMA ThreadStep ==
  ASSUME PIInv, Careful, NEW t \in THREADS, Call(t) \/ Step(t)
  PROVE  ThreadInv'
<1>1. /\ proc \in [THREADS -> PROCS \cup {None}] /\ pc \in [THREADS -> Labels]
      /\ arg \in [THREADS -> PROCS \cup THREADS \cup {None}]
      /\ parent \in [PROCS -> PROCS \cup {None}] /\ init \in PROCS
      /\ None \notin PROCS \cup THREADS
      /\ \A u \in THREADS : pc[u] \notin {"unused", "gone"} => proc[u] \in PROCS
  BY ProcAssumption DEF PIInv, PTypeOK, ThreadInv
<1>2. ThreadInv
  BY DEF PIInv
<1>3. CASE Exec(t) \/ Respawn(t)
  <2>1. PICK q \in FreshProcs, u \in FreshThreads :
          LET p == proc[t] IN
          /\ p \in PROCS /\ pc[t] = "user" /\ t # u /\ p # q
          /\ \A v \in THREADS : proc[v] = p => v = t
          /\ proc' = [proc EXCEPT ![t] = q, ![u] = p]
          /\ pc' = [pc EXCEPT ![t] = "exit", ![u] = "user"]
          /\ UNCHANGED <<arg, parent>>
    BY <1>3, SwapEffect DEF childVars, waitVars, lockVars
  <2>2. /\ q \in PROCS \ {init} /\ u \in THREADS /\ pc[u] = "unused" /\ proc[u] = None
        /\ arg[u] = None /\ parent[q] = None /\ q \notin freed /\ ~Listed(q)
        /\ \A v \in THREADS : proc[v] # q /\ arg[v] # q
        /\ \A v \in THREADS : pc[v] = "fork_add" => arg[v] # u
    BY FreshFacts
  <2> QED
    BY <1>1, <1>2, <2>1, <2>2 DEF ThreadInv
<1>4. CASE Fork(t)
  <2>1. PICK q \in FreshProcs, u \in FreshThreads :
          LET p == proc[t] IN
          /\ p \in PROCS /\ pc[t] = "user" /\ t # u /\ p # q
          /\ proc' = [proc EXCEPT ![u] = q] /\ parent' = [parent EXCEPT ![q] = p]
          /\ arg' = [arg EXCEPT ![t] = u]
          /\ pc' = [pc EXCEPT ![t] = "fork_add", ![u] = "new"]
          /\ UNCHANGED freed
    BY <1>4, ForkEffect DEF childVars, waitVars, lockVars
  <2>2. /\ q \in PROCS \ {init} /\ u \in THREADS /\ pc[u] = "unused" /\ proc[u] = None
        /\ arg[u] = None /\ parent[q] = None /\ q \notin freed /\ ~Listed(q)
        /\ \A v \in THREADS : proc[v] # q /\ arg[v] # q
        /\ \A v \in THREADS : pc[v] = "fork_add" => arg[v] # u
    BY FreshFacts
  <2> QED
    BY <1>1, <1>2, <2>1, <2>2 DEF ThreadInv
<1>5. CASE ForkAdd(t)
  BY <1>1, <1>2, <1>5, ForkAddEffect DEF ThreadInv
<1>6. CASE ThreadFork(t)
  <2>1. PICK u \in FreshThreads :
          LET p == proc[t] IN
          /\ p \in PROCS \ {init} /\ pc[t] = "user" /\ t # u
          /\ "thread_fork" \in Calls[p] /\ parent[p] # None
          /\ proc' = [proc EXCEPT ![u] = p] /\ pc' = [pc EXCEPT ![u] = "user"]
          /\ UNCHANGED <<arg, parent>>
    BY <1>6, ThreadForkEffect DEF childVars, waitVars, lockVars
  <2>2. u \in THREADS /\ pc[u] = "unused"
    BY DEF FreshThreads
  <2>3. proc[u] = None /\ arg[u] = None
    BY <2>2 DEF PIInv, ThreadInv
  <2> QED
    BY <1>1, <1>2, <2>1, <2>2, <2>3 DEF ThreadInv
<1>7. CASE WaitNoChild(t)
  BY <1>1, <1>2, <1>7 DEF WaitNoChild, ThreadInv, Goto, At, User, vars,
       threadVars, childVars, waitVars, lockVars
<1>8. CASE Wait(t)
  BY <1>1, <1>2, <1>8 DEF Wait, ThreadInv, Goto, At, User, vars, threadVars,
       childVars, waitVars, lockVars
<1>9. CASE WaitEmpty(t)
  BY <1>1, <1>2, <1>9 DEF WaitEmpty, ThreadInv, Goto, At, User, vars,
       threadVars, childVars, waitVars, lockVars
<1>10. CASE WaitSleep(t)
  BY <1>1, <1>2, <1>10 DEF WaitSleep, ThreadInv, Goto, At, User, vars,
       threadVars, childVars, waitVars, lockVars
<1>11. CASE WaitRelock(t)
  BY <1>1, <1>2, <1>11 DEF WaitRelock, ThreadInv, Goto, At, User, vars,
       threadVars, childVars, waitVars, lockVars
<1>12. CASE WaitReap(t)
  BY <1>1, <1>2, <1>12, WaitReapEffect DEF ThreadInv
<1>13. CASE WaitBadStatus(t)
  BY <1>1, <1>2, <1>13 DEF WaitBadStatus, ThreadInv, Goto, At, User, vars,
       threadVars, childVars, waitVars, lockVars
<1>14. CASE WaitFree(t)
  BY <1>1, <1>2, <1>14 DEF WaitFree, ThreadInv, Goto, At, User, vars,
       threadVars, childVars, waitVars, lockVars
<1>15. CASE Vanish(t)
  BY <1>1, <1>2, <1>15 DEF Vanish, ThreadInv, Goto, At, User, vars,
       threadVars, childVars, waitVars, lockVars
<1>16. CASE ExitLeave(t)
  BY <1>1, <1>2, <1>16 DEF ExitLeave, ThreadInv, Goto, At, User, vars,
       threadVars, childVars, waitVars, lockVars
<1>17. CASE ExitLast(t)
  BY <1>1, <1>2, <1>17 DEF ExitLast, ThreadInv, Goto, At, User, vars,
       threadVars, childVars, waitVars, lockVars
<1>18. CASE OrphanLock(t)
  BY <1>1, <1>2, <1>18 DEF OrphanLock, ThreadInv, Goto, At, User, vars,
       threadVars, childVars, waitVars, lockVars
<1>19. CASE OrphanLockInit(t)
  BY <1>1, <1>2, <1>19 DEF OrphanLockInit, ThreadInv, Goto, At, User, vars,
       threadVars, childVars, waitVars, lockVars
<1>20. CASE OrphanMove(t)
  <2>1. /\ pc'[t] = "die_last"
        /\ \A u \in THREADS \ {t} :
             \/ pc'[u] = pc[u]
             \/ pc[u] = "asleep" /\ proc[u] = init /\ pc'[u] = "wait_lock"
    BY <1>20, OrphanMoveWakes
  <2>2. /\ proc[t] \in PROCS \ {init} /\ pc[t] = "orphan_move"
        /\ parent' = [q \in PROCS |-> IF q \in live[proc[t]] \cup Range(dead[proc[t]])
                                      THEN init ELSE parent[q]]
        /\ UNCHANGED <<proc, arg>>
    BY <1>20, OrphanMoveEffect
  <2> QED
    BY <1>1, <1>2, <2>1, <2>2 DEF ThreadInv
<1>21. CASE DieLock(t)
  BY <1>1, <1>2, <1>21, DieLockEffect DEF ThreadInv
<1>22. CASE Report(t)
  <2>1. /\ pc'[t] = "dead"
        /\ \A u \in THREADS \ {t} :
             \/ pc'[u] = pc[u]
             \/ pc[u] = "asleep" /\ proc[u] = parent[proc[t]] /\ pc'[u] = "wait_lock"
    BY <1>22, ReportWakes
  <2>2. /\ proc[t] \in PROCS \ {init} /\ pc[t] = "report"
        /\ parent[proc[t]] \in PROCS \ {proc[t]}
        /\ arg' = [arg EXCEPT ![t] = None]
        /\ UNCHANGED <<proc, parent>>
    BY <1>22, ReportEffect
  <2> QED
    BY <1>1, <1>2, <2>1, <2>2 DEF ThreadInv
<1>23. CASE Cleanup(t)
  BY <1>1, <1>2, <1>23 DEF Cleanup, ThreadInv, Goto, At, User, vars,
       threadVars, childVars, waitVars, lockVars
<1> QED
    BY <1>3, <1>4, <1>5, <1>6, <1>7, <1>8, <1>9, <1>10, <1>11, <1>12, <1>13,
     <1>14, <1>15, <1>16, <1>17, <1>18, <1>19, <1>20, <1>21, <1>22, <1>23 DEF
     Call, Step


\* Every operation keeps what forking threads and new ones know of each other.
LEMMA NewStep ==
  ASSUME PIInv, Careful, NEW t \in THREADS, Call(t) \/ Step(t)
  PROVE  NewInv'
<1>1. /\ proc \in [THREADS -> PROCS \cup {None}] /\ pc \in [THREADS -> Labels]
      /\ arg \in [THREADS -> PROCS \cup THREADS \cup {None}]
      /\ parent \in [PROCS -> PROCS \cup {None}] /\ init \in PROCS
      /\ None \notin PROCS \cup THREADS
      /\ \A u \in THREADS : pc[u] \notin {"unused", "gone"} => proc[u] \in PROCS
  BY ProcAssumption DEF PIInv, PTypeOK, ThreadInv
<1>2. NewInv
  BY DEF PIInv
<1>3. UNCHANGED <<live, dead>> => \A q : Listed(q)' <=> Listed(q)
  BY DEF Listed
<1>4. CASE Exec(t) \/ Respawn(t)
  <2>1. PICK q \in FreshProcs, u \in FreshThreads :
          LET p == proc[t] IN
          /\ p \in PROCS /\ pc[t] = "user" /\ t # u /\ p # q
          /\ \A v \in THREADS : proc[v] = p => v = t
          /\ proc' = [proc EXCEPT ![t] = q, ![u] = p]
          /\ pc' = [pc EXCEPT ![t] = "exit", ![u] = "user"]
          /\ UNCHANGED <<arg, parent, live>>
    BY <1>4, SwapEffect DEF childVars, waitVars, lockVars
  <2>2. /\ q \in PROCS \ {init} /\ u \in THREADS /\ pc[u] = "unused" /\ proc[u] = None
        /\ arg[u] = None /\ parent[q] = None /\ q \notin freed /\ ~Listed(q)
        /\ \A v \in THREADS : proc[v] # q /\ arg[v] # q
        /\ \A v \in THREADS : pc[v] = "fork_add" => arg[v] # u
    BY FreshFacts
  <2>3. \/ UNCHANGED <<dead, freed>>
        \/ dead' = [dead EXCEPT ![init] = <<>>] /\ freed' = freed \cup Range(dead[init])
    BY <1>4, SwapEffect DEF childVars
  <2>4. ASSUME NEW v, ~Listed(v)
        PROVE  ~Listed(v)' /\ (v \notin freed => v \notin freed')
    <3>1. dead \in [PROCS -> Seq(PROCS)] /\ Range(<<>>) = {}
      BY DEF PIInv, PTypeOK, Range
    <3> QED
      BY <1>1, <2>1, <2>3, <2>4, <3>1 DEF Listed
  <2> QED
    BY <1>1, <1>2, <1>3, <2>1, <2>2, <2>4 DEF NewInv
<1>5. CASE Fork(t)
  <2>1. PICK q \in FreshProcs, u \in FreshThreads :
          LET p == proc[t] IN
          /\ p \in PROCS /\ pc[t] = "user" /\ t # u /\ p # q
          /\ proc' = [proc EXCEPT ![u] = q] /\ parent' = [parent EXCEPT ![q] = p]
          /\ arg' = [arg EXCEPT ![t] = u]
          /\ pc' = [pc EXCEPT ![t] = "fork_add", ![u] = "new"]
          /\ UNCHANGED <<live, dead, freed>>
    BY <1>5, ForkEffect DEF childVars, waitVars, lockVars
  <2>2. /\ q \in PROCS \ {init} /\ u \in THREADS /\ pc[u] = "unused" /\ proc[u] = None
        /\ arg[u] = None /\ parent[q] = None /\ q \notin freed /\ ~Listed(q)
        /\ \A v \in THREADS : proc[v] # q /\ arg[v] # q
        /\ \A v \in THREADS : pc[v] = "fork_add" => arg[v] # u
    BY FreshFacts
  <2> QED
    BY <1>1, <1>2, <1>3, <2>1, <2>2 DEF NewInv
<1>6. CASE ForkAdd(t)
  <2>1. /\ arg[t] \in THREADS /\ t # arg[t] /\ pc[t] = "fork_add" /\ pc[arg[t]] = "new"
        /\ \A v \in THREADS : proc[v] = proc[arg[t]] => v = arg[t]
        /\ \A v \in THREADS : pc[v] = "fork_add" /\ arg[v] = arg[t] => v = t
        /\ proc[t] \in PROCS /\ proc[arg[t]] \in PROCS
        /\ live' = [live EXCEPT ![proc[t]] = @ \cup {proc[arg[t]]}]
        /\ pc' = [pc EXCEPT ![t] = "user", ![arg[t]] = "user"]
        /\ arg' = [arg EXCEPT ![t] = None]
        /\ UNCHANGED <<proc, parent, dead, freed>>
    BY <1>6, ForkAddEffect
  <2>2. ASSUME NEW q \in PROCS \ {proc[arg[t]]}, ~Listed(q)
        PROVE  ~Listed(q)'
    <3>1. live \in [PROCS -> SUBSET PROCS]
      BY DEF PIInv, PTypeOK
    <3> QED
      BY <2>1, <2>2, <3>1 DEF Listed
  <2> QED
    BY <1>1, <1>2, <1>3, <2>1, <2>2 DEF NewInv
<1>7. CASE ThreadFork(t)
  <2>1. PICK u \in FreshThreads :
          LET p == proc[t] IN
          /\ p \in PROCS \ {init} /\ pc[t] = "user" /\ t # u
          /\ "thread_fork" \in Calls[p] /\ parent[p] # None
          /\ proc' = [proc EXCEPT ![u] = p] /\ pc' = [pc EXCEPT ![u] = "user"]
          /\ UNCHANGED <<arg, parent, live, dead, freed>>
    BY <1>7, ThreadForkEffect DEF childVars, waitVars, lockVars
  <2>2. u \in THREADS /\ pc[u] = "unused"
    BY DEF FreshThreads
  <2>3. proc[u] = None /\ arg[u] = None
    BY <2>2 DEF PIInv, ThreadInv
  <2> QED
    BY <1>1, <1>2, <1>3, <2>1, <2>2, <2>3 DEF NewInv
<1>8. CASE WaitNoChild(t)
  BY <1>1, <1>2, <1>3, <1>8 DEF WaitNoChild, NewInv, Goto, At, User, vars,
       threadVars, childVars, waitVars, lockVars
<1>9. CASE Wait(t)
  BY <1>1, <1>2, <1>3, <1>9 DEF Wait, NewInv, Goto, At, User, vars,
       threadVars, childVars, waitVars, lockVars
<1>10. CASE WaitEmpty(t)
  BY <1>1, <1>2, <1>3, <1>10 DEF WaitEmpty, NewInv, Goto, At, User, vars,
       threadVars, childVars, waitVars, lockVars
<1>11. CASE WaitSleep(t)
  BY <1>1, <1>2, <1>3, <1>11 DEF WaitSleep, NewInv, Goto, At, User, vars,
       threadVars, childVars, waitVars, lockVars
<1>12. CASE WaitRelock(t)
  BY <1>1, <1>2, <1>3, <1>12 DEF WaitRelock, NewInv, Goto, At, User, vars,
       threadVars, childVars, waitVars, lockVars
<1>13. CASE WaitReap(t)
  <2>1. /\ pc[t] = "wait_test" /\ proc[t] \in PROCS /\ pc' = [pc EXCEPT ![t] = "wait_free"]
        /\ \E x : arg' = [arg EXCEPT ![t] = x]
        /\ UNCHANGED <<proc, parent, live, freed>>
        /\ Range(dead[proc[t]]) = {Head(dead[proc[t]])} \cup Range(Tail(dead[proc[t]]))
        /\ dead' = [dead EXCEPT ![proc[t]] = Tail(@)]
    BY <1>13, WaitReapEffect
  <2>2. ASSUME NEW q, ~Listed(q)
        PROVE  ~Listed(q)'
    <3>1. dead \in [PROCS -> Seq(PROCS)]
      BY DEF PIInv, PTypeOK
    <3>2. \A r \in PROCS : q \in Range(dead'[r]) => q \in Range(dead[r])
      BY <2>1, <3>1
    <3> QED
      BY <2>1, <2>2, <3>2 DEF Listed
  <2> QED
    BY <1>1, <1>2, <1>3, <2>1, <2>2 DEF NewInv
<1>14. CASE WaitBadStatus(t)
  BY <1>1, <1>2, <1>3, <1>14 DEF WaitBadStatus, NewInv, Goto, At, User, vars,
       threadVars, childVars, waitVars, lockVars
<1>15. CASE WaitFree(t)
  <2>1. /\ pc[t] = "wait_free" /\ pc' = [pc EXCEPT ![t] = "user"]
        /\ arg' = [arg EXCEPT ![t] = None] /\ freed' = freed \cup {arg[t]}
        /\ UNCHANGED <<proc, parent, live, dead>>
    BY <1>15 DEF WaitFree, At, Goto, childVars
  <2>2. \A u \in THREADS : pc[u] = "new" => proc[u] # arg[t]
    BY <2>1 DEF PIInv, LiveInv, DeadInv, TakenInv, Over
  <2> QED
    BY <1>1, <1>2, <1>3, <2>1, <2>2 DEF NewInv
<1>16. CASE Vanish(t)
  BY <1>1, <1>2, <1>3, <1>16 DEF Vanish, NewInv, Goto, At, User, vars,
       threadVars, childVars, waitVars, lockVars
<1>17. CASE ExitLeave(t)
  BY <1>1, <1>2, <1>3, <1>17 DEF ExitLeave, NewInv, Goto, At, User, vars,
       threadVars, childVars, waitVars, lockVars
<1>18. CASE ExitLast(t)
  BY <1>1, <1>2, <1>3, <1>18 DEF ExitLast, NewInv, Goto, At, User, vars,
       threadVars, childVars, waitVars, lockVars
<1>19. CASE OrphanLock(t)
  BY <1>1, <1>2, <1>3, <1>19 DEF OrphanLock, NewInv, Goto, At, User, vars,
       threadVars, childVars, waitVars, lockVars
<1>20. CASE OrphanLockInit(t)
  BY <1>1, <1>2, <1>3, <1>20 DEF OrphanLockInit, NewInv, Goto, At, User, vars,
       threadVars, childVars, waitVars, lockVars
<1>21. CASE OrphanMove(t)
  <2>1. /\ pc'[t] = "die_last"
        /\ \A u \in THREADS \ {t} :
             \/ pc'[u] = pc[u]
             \/ pc[u] = "asleep" /\ proc[u] = init /\ pc'[u] = "wait_lock"
    BY <1>21, OrphanMoveWakes
  <2>2. /\ proc[t] \in PROCS \ {init} /\ pc[t] = "orphan_move"
        /\ parent' = [q \in PROCS |-> IF q \in live[proc[t]] \cup Range(dead[proc[t]])
                                      THEN init ELSE parent[q]]
        /\ UNCHANGED <<proc, arg, freed>>
    BY <1>21, OrphanMoveEffect
  <2>3. /\ \A v \in THREADS : proc[v] = proc[t] /\ v # t => pc[v] \in {"die", "dead"}
        /\ live' = [live EXCEPT ![init] = @ \cup live[proc[t]], ![proc[t]] = {}]
        /\ dead'[proc[t]] = <<>>
        /\ Range(dead'[init]) = Range(dead[init]) \cup Range(dead[proc[t]])
        /\ \A q \in PROCS \ {proc[t], init} : dead'[q] = dead[q]
    BY <1>21, OrphanMoveEffect
  <2>4. ASSUME NEW q, ~Listed(q)
        PROVE  ~Listed(q)'
    <3>1. live \in [PROCS -> SUBSET PROCS] /\ Range(<<>>) = {}
      BY DEF PIInv, PTypeOK, Range
    <3> QED
      BY <1>1, <2>2, <2>3, <2>4, <3>1 DEF Listed
  <2>5. \A q \in PROCS : ~Listed(q) => parent'[q] = parent[q]
    BY <2>2 DEF Listed
  <2> QED
    BY <1>1, <1>2, <1>3, <2>1, <2>2, <2>3, <2>4, <2>5 DEF NewInv
<1>22. CASE DieLock(t)
  BY <1>1, <1>2, <1>3, <1>22, DieLockEffect DEF NewInv, childVars
<1>23. CASE Report(t)
  <2>1. /\ pc'[t] = "dead"
        /\ \A u \in THREADS \ {t} :
             \/ pc'[u] = pc[u]
             \/ pc[u] = "asleep" /\ proc[u] = parent[proc[t]] /\ pc'[u] = "wait_lock"
    BY <1>23, ReportWakes
  <2>2. /\ proc[t] \in PROCS \ {init} /\ pc[t] = "report"
        /\ parent[proc[t]] \in PROCS \ {proc[t]}
        /\ arg' = [arg EXCEPT ![t] = None]
        /\ UNCHANGED <<proc, parent, freed>>
    BY <1>23, ReportEffect
  <2>3. /\ \A v \in THREADS : proc[v] = proc[t] /\ v # t => pc[v] \in {"die", "dead"}
        /\ live' = [live EXCEPT ![parent[proc[t]]] = @ \ {proc[t]}]
        /\ Range(dead'[parent[proc[t]]]) = Range(dead[parent[proc[t]]]) \cup {proc[t]}
        /\ \A q \in PROCS \ {parent[proc[t]]} : dead'[q] = dead[q]
    BY <1>23, ReportEffect
  <2>4. ASSUME NEW q, q # proc[t], ~Listed(q)
        PROVE  ~Listed(q)'
    <3>1. live \in [PROCS -> SUBSET PROCS]
      BY DEF PIInv, PTypeOK
    <3> QED
      BY <1>1, <2>2, <2>3, <2>4, <3>1 DEF Listed
  <2> QED
    BY <1>1, <1>2, <1>3, <2>1, <2>2, <2>3, <2>4 DEF NewInv
<1>24. CASE Cleanup(t)
  BY <1>1, <1>2, <1>3, <1>24 DEF Cleanup, NewInv, Goto, At, User, vars,
       threadVars, childVars, waitVars, lockVars
<1> QED
    BY <1>4, <1>5, <1>6, <1>7, <1>8, <1>9, <1>10, <1>11, <1>12, <1>13, <1>14,
     <1>15, <1>16, <1>17, <1>18, <1>19, <1>20, <1>21, <1>22, <1>23, <1>24 DEF
     Call, Step

-----------------------------------------------------------------------------
(* Counts *)

\* Nothing arrives at the labels L of process p or leaves them.
LEMMA CountSame ==
  ASSUME NEW p, NEW L,
         \A u \in THREADS : (proc[u] = p /\ pc[u] \in L) <=> (proc'[u] = p /\ pc'[u] \in L)
  PROVE  Cardinality(ThreadsAt(p, L)') = Cardinality(ThreadsAt(p, L))
<1>1. ThreadsAt(p, L)' = ThreadsAt(p, L)
  BY DEF ThreadsAt
<1> QED
  BY <1>1

\* A thread arrives at the labels L.
LEMMA CountArrive ==
  ASSUME NEW p, NEW L, NEW t \in THREADS,
         ~(proc[t] = p /\ pc[t] \in L), proc'[t] = p, pc'[t] \in L,
         \A u \in THREADS \ {t} :
           (proc[u] = p /\ pc[u] \in L) <=> (proc'[u] = p /\ pc'[u] \in L)
  PROVE  Cardinality(ThreadsAt(p, L)') = Cardinality(ThreadsAt(p, L)) + 1
<1>1. ThreadsAt(p, L)' = ThreadsAt(p, L) \cup {t} /\ t \notin ThreadsAt(p, L)
  BY DEF ThreadsAt
<1> QED
  BY ZenonT(60), <1>1, CountFacts, FS_AddElement

\* A thread leaves the labels L.
LEMMA CountLeave ==
  ASSUME NEW p, NEW L, NEW t \in THREADS,
         proc[t] = p, pc[t] \in L, ~(proc'[t] = p /\ pc'[t] \in L),
         \A u \in THREADS \ {t} :
           (proc[u] = p /\ pc[u] \in L) <=> (proc'[u] = p /\ pc'[u] \in L)
  PROVE  Cardinality(ThreadsAt(p, L)') = Cardinality(ThreadsAt(p, L)) - 1
<1>1. ThreadsAt(p, L)' = ThreadsAt(p, L) \ {t} /\ t \in ThreadsAt(p, L)
  BY DEF ThreadsAt
<1> QED
  BY ZenonT(60), <1>1, CountFacts, FS_RemoveElement

\* A thread is the only one at the labels L.
LEMMA CountOne ==
  ASSUME NEW p, NEW L, NEW t \in THREADS,
         \A u \in THREADS : (proc'[u] = p /\ pc'[u] \in L) <=> u = t
  PROVE  Cardinality(ThreadsAt(p, L)') = 1
<1>1. ThreadsAt(p, L)' = {t}
  BY DEF ThreadsAt
<1> QED
  BY <1>1, FS_Singleton

\* refcount counts the threads of a process that have not left it.
LEMMA RefcountStep ==
  ASSUME PIInv, Careful, NEW t \in THREADS, Call(t) \/ Step(t)
  PROVE  \A p \in PROCS : refcount'[p] = Cardinality(ThreadsAt(p, Counted)')
<1>1. /\ proc \in [THREADS -> PROCS \cup {None}] /\ pc \in [THREADS -> Labels]
      /\ arg \in [THREADS -> PROCS \cup THREADS \cup {None}]
      /\ parent \in [PROCS -> PROCS \cup {None}] /\ init \in PROCS
      /\ None \notin PROCS \cup THREADS
      /\ \A u \in THREADS : pc[u] \notin {"unused", "gone"} => proc[u] \in PROCS
  BY ProcAssumption DEF PIInv, PTypeOK, ThreadInv
<1>2. /\ refcount \in [PROCS -> Nat]
      /\ \A p \in PROCS : refcount[p] = Cardinality(ThreadsAt(p, Counted))
  BY DEF PIInv, PTypeOK, CountInv
<1>3. (\A p \in PROCS : \A u \in THREADS :
         (proc[u] = p /\ pc[u] \in Counted) <=> (proc'[u] = p /\ pc'[u] \in Counted))
        => \A p \in PROCS : Cardinality(ThreadsAt(p, Counted)') = Cardinality(ThreadsAt(p, Counted))
  BY CountSame
<1>4. CASE Exec(t) \/ Respawn(t)
  <2>1. PICK q \in FreshProcs, u \in FreshThreads :
          LET p == proc[t] IN
          /\ p \in PROCS /\ pc[t] = "user" /\ t # u /\ p # q
          /\ \A v \in THREADS : proc[v] = p => v = t
          /\ proc' = [proc EXCEPT ![t] = q, ![u] = p]
          /\ pc' = [pc EXCEPT ![t] = "exit", ![u] = "user"]
          /\ refcount[p] = 1 /\ refcount' = [refcount EXCEPT ![q] = 1]
    BY <1>4, SwapEffect DEF childVars, waitVars, lockVars
  <2>2. /\ q \in PROCS \ {init} /\ u \in THREADS /\ pc[u] = "unused" /\ proc[u] = None
        /\ arg[u] = None /\ parent[q] = None /\ q \notin freed /\ ~Listed(q)
        /\ \A v \in THREADS : proc[v] # q /\ arg[v] # q
        /\ \A v \in THREADS : pc[v] = "fork_add" => arg[v] # u
    BY FreshFacts
  <2>3. PICK p \in PROCS : p = proc[t]
    BY <2>1
  <2>4. Cardinality(ThreadsAt(q, Counted)') = 1
    <3>1. \A v \in THREADS : (proc'[v] = q /\ pc'[v] \in Counted) <=> v = t
      BY <1>1, <2>1, <2>2 DEF Counted, Waiting
    <3> QED
      BY <1>1, <2>1, <2>2, <3>1, CountOne
  <2>5. Cardinality(ThreadsAt(p, Counted)') = 1
    <3>1. \A v \in THREADS : (proc'[v] = p /\ pc'[v] \in Counted) <=> v = u
      BY <1>1, <2>1, <2>2, <2>3 DEF Counted, Waiting
    <3> QED
      BY <1>1, <2>1, <2>2, <2>3, <3>1, CountOne
  <2>6. ASSUME NEW r \in PROCS \ {p, q}
        PROVE  Cardinality(ThreadsAt(r, Counted)') = Cardinality(ThreadsAt(r, Counted))
    <3>1. \A v \in THREADS : (proc[v] = r /\ pc[v] \in Counted) <=> (proc'[v] = r /\ pc'[v] \in Counted)
      BY <1>1, <2>1, <2>2, <2>3, <2>6 DEF Counted, Waiting
    <3> QED
      BY <3>1, CountSame
  <2> QED
    BY <1>2, <2>1, <2>2, <2>3, <2>4, <2>5, <2>6
<1>5. CASE Fork(t)
  <2>1. PICK q \in FreshProcs, u \in FreshThreads :
          LET p == proc[t] IN
          /\ p \in PROCS /\ pc[t] = "user" /\ t # u /\ p # q
          /\ proc' = [proc EXCEPT ![u] = q] /\ parent' = [parent EXCEPT ![q] = p]
          /\ arg' = [arg EXCEPT ![t] = u]
          /\ pc' = [pc EXCEPT ![t] = "fork_add", ![u] = "new"]
          /\ refcount' = [refcount EXCEPT ![q] = 1]
    BY <1>5, ForkEffect DEF childVars, waitVars, lockVars
  <2>2. /\ q \in PROCS \ {init} /\ u \in THREADS /\ pc[u] = "unused" /\ proc[u] = None
        /\ arg[u] = None /\ parent[q] = None /\ q \notin freed /\ ~Listed(q)
        /\ \A v \in THREADS : proc[v] # q /\ arg[v] # q
        /\ \A v \in THREADS : pc[v] = "fork_add" => arg[v] # u
    BY FreshFacts
  <2>3. Cardinality(ThreadsAt(q, Counted)') = 1
    <3>1. \A v \in THREADS : (proc'[v] = q /\ pc'[v] \in Counted) <=> v = u
      BY <1>1, <2>1, <2>2 DEF Counted, Waiting
    <3> QED
      BY <1>1, <2>1, <2>2, <3>1, CountOne
  <2>4. ASSUME NEW r \in PROCS \ {q}
        PROVE  Cardinality(ThreadsAt(r, Counted)') = Cardinality(ThreadsAt(r, Counted))
    <3>1. \A v \in THREADS : (proc[v] = r /\ pc[v] \in Counted) <=> (proc'[v] = r /\ pc'[v] \in Counted)
      BY <1>1, <2>1, <2>2, <2>4 DEF Counted, Waiting
    <3> QED
      BY <3>1, CountSame
  <2> QED
    BY <1>2, <2>1, <2>2, <2>3, <2>4
<1>6. CASE ForkAdd(t)
  <2>1. /\ arg[t] \in THREADS /\ t # arg[t] /\ pc[t] = "fork_add" /\ pc[arg[t]] = "new"
        /\ pc' = [pc EXCEPT ![t] = "user", ![arg[t]] = "user"]
        /\ UNCHANGED <<proc, refcount>>
    BY <1>6, ForkAddEffect DEF waitVars
  <2>2. ASSUME NEW r \in PROCS
        PROVE  Cardinality(ThreadsAt(r, Counted)') = Cardinality(ThreadsAt(r, Counted))
    <3>1. \A v \in THREADS : (proc[v] = r /\ pc[v] \in Counted) <=> (proc'[v] = r /\ pc'[v] \in Counted)
      BY <1>1, <2>1, <2>2 DEF Counted, Waiting
    <3> QED
      BY <3>1, CountSame
  <2> QED
    BY <1>2, <2>1, <2>2
<1>7. CASE ThreadFork(t)
  <2>1. PICK u \in FreshThreads :
          LET p == proc[t] IN
          /\ p \in PROCS \ {init} /\ pc[t] = "user" /\ t # u
          /\ "thread_fork" \in Calls[p] /\ parent[p] # None
          /\ proc' = [proc EXCEPT ![u] = p] /\ pc' = [pc EXCEPT ![u] = "user"]
          /\ refcount' = [refcount EXCEPT ![p] = @ + 1]
    BY <1>7, ThreadForkEffect DEF childVars, waitVars, lockVars
  <2>2. u \in THREADS /\ pc[u] = "unused"
    BY DEF FreshThreads
  <2>3. proc[u] = None /\ arg[u] = None
    BY <2>2 DEF PIInv, ThreadInv
  <2>4. PICK p \in PROCS : p = proc[t]
    BY <2>1
  <2>5. Cardinality(ThreadsAt(p, Counted)') = Cardinality(ThreadsAt(p, Counted)) + 1
    <3>1. /\ ~(proc[u] = p /\ pc[u] \in Counted) /\ proc'[u] = p /\ pc'[u] \in Counted
          /\ \A v \in THREADS \ {u} : (proc[v] = p /\ pc[v] \in Counted)
                                       <=> (proc'[v] = p /\ pc'[v] \in Counted)
      BY <1>1, <2>1, <2>2, <2>3, <2>4 DEF Counted, Waiting
    <3> QED
      BY <1>1, <2>1, <2>2, <2>3, <2>4, <3>1, CountArrive
  <2>6. ASSUME NEW r \in PROCS \ {p}
        PROVE  Cardinality(ThreadsAt(r, Counted)') = Cardinality(ThreadsAt(r, Counted))
    <3>1. \A v \in THREADS : (proc[v] = r /\ pc[v] \in Counted) <=> (proc'[v] = r /\ pc'[v] \in Counted)
      BY <1>1, <2>1, <2>2, <2>3, <2>4, <2>6 DEF Counted, Waiting
    <3> QED
      BY <3>1, CountSame
  <2> QED
    BY <1>2, <2>1, <2>4, <2>5, <2>6
<1>8. CASE WaitNoChild(t)
  BY <1>1, <1>2, <1>3, <1>8 DEF WaitNoChild, Goto, At, User, Counted, Waiting,
       vars, threadVars, childVars, waitVars, lockVars
<1>9. CASE Wait(t)
  BY <1>1, <1>2, <1>3, <1>9 DEF Wait, Goto, At, User, Counted, Waiting, vars,
       threadVars, childVars, waitVars, lockVars
<1>10. CASE WaitEmpty(t)
  BY <1>1, <1>2, <1>3, <1>10 DEF WaitEmpty, Goto, At, User, Counted, Waiting,
       vars, threadVars, childVars, waitVars, lockVars
<1>11. CASE WaitSleep(t)
  BY <1>1, <1>2, <1>3, <1>11 DEF WaitSleep, Goto, At, User, Counted, Waiting,
       vars, threadVars, childVars, waitVars, lockVars
<1>12. CASE WaitRelock(t)
  BY <1>1, <1>2, <1>3, <1>12 DEF WaitRelock, Goto, At, User, Counted, Waiting,
       vars, threadVars, childVars, waitVars, lockVars
<1>13. CASE WaitReap(t)
  BY <1>1, <1>2, <1>3, <1>13 DEF WaitReap, Goto, At, Counted, Waiting
<1>14. CASE WaitBadStatus(t)
  BY <1>1, <1>2, <1>3, <1>14 DEF WaitBadStatus, Goto, At, User, Counted,
       Waiting, vars, threadVars, childVars, waitVars, lockVars
<1>15. CASE WaitFree(t)
  BY <1>1, <1>2, <1>3, <1>15 DEF WaitFree, Goto, At, User, Counted, Waiting,
       vars, threadVars, childVars, waitVars, lockVars
<1>16. CASE Vanish(t)
  BY <1>1, <1>2, <1>3, <1>16 DEF Vanish, Goto, At, User, Counted, Waiting,
       vars, threadVars, childVars, waitVars, lockVars
<1>17. CASE ExitLeave(t)
  <2>1. /\ pc[t] = "exit" /\ pc' = [pc EXCEPT ![t] = "exit_left"] /\ UNCHANGED proc
        /\ refcount' = [refcount EXCEPT ![proc[t]] = @ - 1]
    BY <1>17 DEF ExitLeave, At, User, Goto
  <2>2. PICK p \in PROCS : p = proc[t]
    BY <1>1, <2>1
  <2>3. Cardinality(ThreadsAt(p, Counted)') = Cardinality(ThreadsAt(p, Counted)) - 1
    <3>1. /\ proc[t] = p /\ pc[t] \in Counted /\ ~(proc'[t] = p /\ pc'[t] \in Counted)
          /\ \A v \in THREADS \ {t} : (proc[v] = p /\ pc[v] \in Counted)
                                       <=> (proc'[v] = p /\ pc'[v] \in Counted)
      BY <1>1, <2>1, <2>2 DEF Counted, Waiting
    <3> QED
      BY <1>1, <2>1, <2>2, <3>1, CountLeave
  <2>4. ASSUME NEW r \in PROCS \ {p}
        PROVE  Cardinality(ThreadsAt(r, Counted)') = Cardinality(ThreadsAt(r, Counted))
    <3>1. \A v \in THREADS : (proc[v] = r /\ pc[v] \in Counted) <=> (proc'[v] = r /\ pc'[v] \in Counted)
      BY <1>1, <2>1, <2>2, <2>4 DEF Counted, Waiting
    <3> QED
      BY <3>1, CountSame
  <2> QED
    BY <1>2, <2>1, <2>2, <2>3, <2>4
<1>18. CASE ExitLast(t)
  BY <1>1, <1>2, <1>3, <1>18 DEF ExitLast, Goto, At, User, Counted, Waiting,
       vars, threadVars, childVars, waitVars, lockVars
<1>19. CASE OrphanLock(t)
  BY <1>1, <1>2, <1>3, <1>19 DEF OrphanLock, Goto, At, User, Counted, Waiting,
       vars, threadVars, childVars, waitVars, lockVars
<1>20. CASE OrphanLockInit(t)
  BY <1>1, <1>2, <1>3, <1>20 DEF OrphanLockInit, Goto, At, User, Counted,
       Waiting, vars, threadVars, childVars, waitVars, lockVars
<1>21. CASE OrphanMove(t)
  <2>1. /\ pc'[t] = "die_last"
        /\ \A u \in THREADS \ {t} :
             \/ pc'[u] = pc[u]
             \/ pc[u] = "asleep" /\ proc[u] = init /\ pc'[u] = "wait_lock"
    BY <1>21, OrphanMoveWakes
  <2>2. /\ proc[t] \in PROCS \ {init} /\ pc[t] = "orphan_move"
        /\ parent' = [q \in PROCS |-> IF q \in live[proc[t]] \cup Range(dead[proc[t]])
                                      THEN init ELSE parent[q]]
        /\ UNCHANGED <<proc, refcount>>
    BY <1>21, OrphanMoveEffect
  <2> QED
    BY <1>2, <1>3, <2>1, <2>2 DEF Counted, Waiting
<1>22. CASE DieLock(t)
  BY <1>1, <1>2, <1>3, <1>22 DEF DieLock, Goto, At, User, Counted, Waiting,
       vars, threadVars, childVars, waitVars, lockVars
<1>23. CASE Report(t)
  <2>1. /\ pc'[t] = "dead"
        /\ \A u \in THREADS \ {t} :
             \/ pc'[u] = pc[u]
             \/ pc[u] = "asleep" /\ proc[u] = parent[proc[t]] /\ pc'[u] = "wait_lock"
    BY <1>23, ReportWakes
  <2>2. /\ proc[t] \in PROCS \ {init} /\ pc[t] = "report"
        /\ parent[proc[t]] \in PROCS \ {proc[t]}
        /\ arg' = [arg EXCEPT ![t] = None]
        /\ UNCHANGED <<proc, refcount>>
    BY <1>23, ReportEffect
  <2> QED
    BY <1>2, <1>3, <2>1, <2>2 DEF Counted, Waiting
<1>24. CASE Cleanup(t)
  BY <1>1, <1>2, <1>3, <1>24 DEF Cleanup, Goto, At, User, Counted, Waiting,
       vars, threadVars, childVars, waitVars, lockVars
<1> QED
    BY <1>4, <1>5, <1>6, <1>7, <1>8, <1>9, <1>10, <1>11, <1>12, <1>13, <1>14,
     <1>15, <1>16, <1>17, <1>18, <1>19, <1>20, <1>21, <1>22, <1>23, <1>24 DEF
     Call, Step

\* nwaiters counts the threads of a process that are in wait().
LEMMA NwaitersStep ==
  ASSUME PIInv, Careful, NEW t \in THREADS, Call(t) \/ Step(t)
  PROVE  \A p \in PROCS : nwaiters'[p] = Cardinality(ThreadsAt(p, Waiting)')
<1>1. /\ proc \in [THREADS -> PROCS \cup {None}] /\ pc \in [THREADS -> Labels]
      /\ arg \in [THREADS -> PROCS \cup THREADS \cup {None}]
      /\ parent \in [PROCS -> PROCS \cup {None}] /\ init \in PROCS
      /\ None \notin PROCS \cup THREADS
      /\ \A u \in THREADS : pc[u] \notin {"unused", "gone"} => proc[u] \in PROCS
  BY ProcAssumption DEF PIInv, PTypeOK, ThreadInv
<1>2. /\ nwaiters \in [PROCS -> Nat]
      /\ \A p \in PROCS : nwaiters[p] = Cardinality(ThreadsAt(p, Waiting))
  BY DEF PIInv, PTypeOK, CountInv
<1>3. (\A p \in PROCS : \A u \in THREADS :
         (proc[u] = p /\ pc[u] \in Waiting) <=> (proc'[u] = p /\ pc'[u] \in Waiting))
        => \A p \in PROCS : Cardinality(ThreadsAt(p, Waiting)') = Cardinality(ThreadsAt(p, Waiting))
  BY CountSame
<1>4. CASE Exec(t) \/ Respawn(t)
  <2>1. PICK q \in FreshProcs, u \in FreshThreads :
          LET p == proc[t] IN
          /\ p \in PROCS /\ pc[t] = "user" /\ t # u /\ p # q
          /\ \A v \in THREADS : proc[v] = p => v = t
          /\ proc' = [proc EXCEPT ![t] = q, ![u] = p]
          /\ pc' = [pc EXCEPT ![t] = "exit", ![u] = "user"]
          /\ UNCHANGED <<nwaiters>>
    BY <1>4, SwapEffect DEF childVars, waitVars, lockVars
  <2>2. /\ q \in PROCS \ {init} /\ u \in THREADS /\ pc[u] = "unused" /\ proc[u] = None
        /\ arg[u] = None /\ parent[q] = None /\ q \notin freed /\ ~Listed(q)
        /\ \A v \in THREADS : proc[v] # q /\ arg[v] # q
        /\ \A v \in THREADS : pc[v] = "fork_add" => arg[v] # u
    BY FreshFacts
  <2>3. ASSUME NEW r \in PROCS
        PROVE  Cardinality(ThreadsAt(r, Waiting)') = Cardinality(ThreadsAt(r, Waiting))
    <3>1. \A v \in THREADS : (proc[v] = r /\ pc[v] \in Waiting) <=> (proc'[v] = r /\ pc'[v] \in Waiting)
      BY <1>1, <2>1, <2>2, <2>3 DEF Counted, Waiting
    <3> QED
      BY <3>1, CountSame
  <2> QED
    BY <1>2, <2>1, <2>3
<1>5. CASE Fork(t)
  <2>1. PICK q \in FreshProcs, u \in FreshThreads :
          LET p == proc[t] IN
          /\ p \in PROCS /\ pc[t] = "user" /\ t # u /\ p # q
          /\ proc' = [proc EXCEPT ![u] = q] /\ parent' = [parent EXCEPT ![q] = p]
          /\ arg' = [arg EXCEPT ![t] = u]
          /\ pc' = [pc EXCEPT ![t] = "fork_add", ![u] = "new"]
          /\ UNCHANGED <<nwaiters>>
    BY <1>5, ForkEffect DEF childVars, waitVars, lockVars
  <2>2. /\ q \in PROCS \ {init} /\ u \in THREADS /\ pc[u] = "unused" /\ proc[u] = None
        /\ arg[u] = None /\ parent[q] = None /\ q \notin freed /\ ~Listed(q)
        /\ \A v \in THREADS : proc[v] # q /\ arg[v] # q
        /\ \A v \in THREADS : pc[v] = "fork_add" => arg[v] # u
    BY FreshFacts
  <2>3. ASSUME NEW r \in PROCS
        PROVE  Cardinality(ThreadsAt(r, Waiting)') = Cardinality(ThreadsAt(r, Waiting))
    <3>1. \A v \in THREADS : (proc[v] = r /\ pc[v] \in Waiting) <=> (proc'[v] = r /\ pc'[v] \in Waiting)
      BY <1>1, <2>1, <2>2, <2>3 DEF Counted, Waiting
    <3> QED
      BY <3>1, CountSame
  <2> QED
    BY <1>2, <2>1, <2>3
<1>6. CASE ForkAdd(t)
  <2>1. /\ arg[t] \in THREADS /\ t # arg[t] /\ pc[t] = "fork_add" /\ pc[arg[t]] = "new"
        /\ pc' = [pc EXCEPT ![t] = "user", ![arg[t]] = "user"]
        /\ UNCHANGED <<proc, nwaiters>>
    BY <1>6, ForkAddEffect DEF waitVars
  <2>2. ASSUME NEW r \in PROCS
        PROVE  Cardinality(ThreadsAt(r, Waiting)') = Cardinality(ThreadsAt(r, Waiting))
    <3>1. \A v \in THREADS : (proc[v] = r /\ pc[v] \in Waiting) <=> (proc'[v] = r /\ pc'[v] \in Waiting)
      BY <1>1, <2>1, <2>2 DEF Counted, Waiting
    <3> QED
      BY <3>1, CountSame
  <2> QED
    BY <1>2, <2>1, <2>2
<1>7. CASE ThreadFork(t)
  <2>1. PICK u \in FreshThreads :
          LET p == proc[t] IN
          /\ p \in PROCS \ {init} /\ pc[t] = "user" /\ t # u
          /\ "thread_fork" \in Calls[p] /\ parent[p] # None
          /\ proc' = [proc EXCEPT ![u] = p] /\ pc' = [pc EXCEPT ![u] = "user"]
          /\ UNCHANGED <<nwaiters>>
    BY <1>7, ThreadForkEffect DEF childVars, waitVars, lockVars
  <2>2. u \in THREADS /\ pc[u] = "unused"
    BY DEF FreshThreads
  <2>3. proc[u] = None /\ arg[u] = None
    BY <2>2 DEF PIInv, ThreadInv
  <2>4. ASSUME NEW r \in PROCS
        PROVE  Cardinality(ThreadsAt(r, Waiting)') = Cardinality(ThreadsAt(r, Waiting))
    <3>1. \A v \in THREADS : (proc[v] = r /\ pc[v] \in Waiting) <=> (proc'[v] = r /\ pc'[v] \in Waiting)
      BY <1>1, <2>1, <2>2, <2>3, <2>4 DEF Counted, Waiting
    <3> QED
      BY <3>1, CountSame
  <2> QED
    BY <1>2, <2>1, <2>4
<1>8. CASE WaitNoChild(t)
  BY <1>1, <1>2, <1>3, <1>8 DEF WaitNoChild, Goto, At, User, Counted, Waiting,
       vars, threadVars, childVars, waitVars, lockVars
<1>9. CASE Wait(t)
  <2>1. /\ pc[t] = "user" /\ pc' = [pc EXCEPT ![t] = "wait_test"] /\ UNCHANGED proc
        /\ nwaiters' = [nwaiters EXCEPT ![proc[t]] = @ + 1]
    BY <1>9 DEF Wait, At, User, Goto
  <2>2. PICK p \in PROCS : p = proc[t]
    BY <1>1, <2>1
  <2>3. Cardinality(ThreadsAt(p, Waiting)') = Cardinality(ThreadsAt(p, Waiting)) + 1
    <3>1. /\ ~(proc[t] = p /\ pc[t] \in Waiting) /\ proc'[t] = p /\ pc'[t] \in Waiting
          /\ \A v \in THREADS \ {t} : (proc[v] = p /\ pc[v] \in Waiting)
                                       <=> (proc'[v] = p /\ pc'[v] \in Waiting)
      BY <1>1, <2>1, <2>2 DEF Counted, Waiting
    <3> QED
      BY <1>1, <2>1, <2>2, <3>1, CountArrive
  <2>4. ASSUME NEW r \in PROCS \ {p}
        PROVE  Cardinality(ThreadsAt(r, Waiting)') = Cardinality(ThreadsAt(r, Waiting))
    <3>1. \A v \in THREADS : (proc[v] = r /\ pc[v] \in Waiting) <=> (proc'[v] = r /\ pc'[v] \in Waiting)
      BY <1>1, <2>1, <2>2, <2>4 DEF Counted, Waiting
    <3> QED
      BY <3>1, CountSame
  <2> QED
    BY <1>2, <2>1, <2>2, <2>3, <2>4
<1>10. CASE WaitEmpty(t)
  BY <1>1, <1>2, <1>3, <1>10 DEF WaitEmpty, Goto, At, User, Counted, Waiting,
       vars, threadVars, childVars, waitVars, lockVars
<1>11. CASE WaitSleep(t)
  BY <1>1, <1>2, <1>3, <1>11 DEF WaitSleep, Goto, At, User, Counted, Waiting,
       vars, threadVars, childVars, waitVars, lockVars
<1>12. CASE WaitRelock(t)
  BY <1>1, <1>2, <1>3, <1>12 DEF WaitRelock, Goto, At, User, Counted, Waiting,
       vars, threadVars, childVars, waitVars, lockVars
<1>13. CASE WaitReap(t)
  <2>1. /\ pc[t] = "wait_test" /\ pc' = [pc EXCEPT ![t] = "wait_free"] /\ UNCHANGED proc
        /\ nwaiters' = [nwaiters EXCEPT ![proc[t]] = @ - 1]
    BY <1>13, WaitReapEffect
  <2>2. PICK p \in PROCS : p = proc[t]
    BY <1>1, <2>1
  <2>3. Cardinality(ThreadsAt(p, Waiting)') = Cardinality(ThreadsAt(p, Waiting)) - 1
    <3>1. /\ proc[t] = p /\ pc[t] \in Waiting /\ ~(proc'[t] = p /\ pc'[t] \in Waiting)
          /\ \A v \in THREADS \ {t} : (proc[v] = p /\ pc[v] \in Waiting)
                                       <=> (proc'[v] = p /\ pc'[v] \in Waiting)
      BY <1>1, <2>1, <2>2 DEF Counted, Waiting
    <3> QED
      BY <1>1, <2>1, <2>2, <3>1, CountLeave
  <2>4. ASSUME NEW r \in PROCS \ {p}
        PROVE  Cardinality(ThreadsAt(r, Waiting)') = Cardinality(ThreadsAt(r, Waiting))
    <3>1. \A v \in THREADS : (proc[v] = r /\ pc[v] \in Waiting) <=> (proc'[v] = r /\ pc'[v] \in Waiting)
      BY <1>1, <2>1, <2>2, <2>4 DEF Counted, Waiting
    <3> QED
      BY <3>1, CountSame
  <2> QED
    BY <1>2, <2>1, <2>2, <2>3, <2>4
<1>14. CASE WaitBadStatus(t)
  <2>1. /\ pc[t] = "wait_test" /\ pc' = [pc EXCEPT ![t] = "user"] /\ UNCHANGED proc
        /\ nwaiters' = [nwaiters EXCEPT ![proc[t]] = @ - 1]
    BY <1>14 DEF WaitBadStatus, At, User, Goto
  <2>2. PICK p \in PROCS : p = proc[t]
    BY <1>1, <2>1
  <2>3. Cardinality(ThreadsAt(p, Waiting)') = Cardinality(ThreadsAt(p, Waiting)) - 1
    <3>1. /\ proc[t] = p /\ pc[t] \in Waiting /\ ~(proc'[t] = p /\ pc'[t] \in Waiting)
          /\ \A v \in THREADS \ {t} : (proc[v] = p /\ pc[v] \in Waiting)
                                       <=> (proc'[v] = p /\ pc'[v] \in Waiting)
      BY <1>1, <2>1, <2>2 DEF Counted, Waiting
    <3> QED
      BY <1>1, <2>1, <2>2, <3>1, CountLeave
  <2>4. ASSUME NEW r \in PROCS \ {p}
        PROVE  Cardinality(ThreadsAt(r, Waiting)') = Cardinality(ThreadsAt(r, Waiting))
    <3>1. \A v \in THREADS : (proc[v] = r /\ pc[v] \in Waiting) <=> (proc'[v] = r /\ pc'[v] \in Waiting)
      BY <1>1, <2>1, <2>2, <2>4 DEF Counted, Waiting
    <3> QED
      BY <3>1, CountSame
  <2> QED
    BY <1>2, <2>1, <2>2, <2>3, <2>4
<1>15. CASE WaitFree(t)
  BY <1>1, <1>2, <1>3, <1>15 DEF WaitFree, Goto, At, User, Counted, Waiting,
       vars, threadVars, childVars, waitVars, lockVars
<1>16. CASE Vanish(t)
  BY <1>1, <1>2, <1>3, <1>16 DEF Vanish, Goto, At, User, Counted, Waiting,
       vars, threadVars, childVars, waitVars, lockVars
<1>17. CASE ExitLeave(t)
  BY <1>1, <1>2, <1>3, <1>17 DEF ExitLeave, Goto, At, User, Counted, Waiting,
       vars, threadVars, childVars, waitVars, lockVars
<1>18. CASE ExitLast(t)
  BY <1>1, <1>2, <1>3, <1>18 DEF ExitLast, Goto, At, User, Counted, Waiting,
       vars, threadVars, childVars, waitVars, lockVars
<1>19. CASE OrphanLock(t)
  BY <1>1, <1>2, <1>3, <1>19 DEF OrphanLock, Goto, At, User, Counted, Waiting,
       vars, threadVars, childVars, waitVars, lockVars
<1>20. CASE OrphanLockInit(t)
  BY <1>1, <1>2, <1>3, <1>20 DEF OrphanLockInit, Goto, At, User, Counted,
       Waiting, vars, threadVars, childVars, waitVars, lockVars
<1>21. CASE OrphanMove(t)
  <2>1. /\ pc'[t] = "die_last"
        /\ \A u \in THREADS \ {t} :
             \/ pc'[u] = pc[u]
             \/ pc[u] = "asleep" /\ proc[u] = init /\ pc'[u] = "wait_lock"
    BY <1>21, OrphanMoveWakes
  <2>2. /\ proc[t] \in PROCS \ {init} /\ pc[t] = "orphan_move"
        /\ parent' = [q \in PROCS |-> IF q \in live[proc[t]] \cup Range(dead[proc[t]])
                                      THEN init ELSE parent[q]]
        /\ UNCHANGED <<proc, nwaiters>>
    BY <1>21, OrphanMoveEffect
  <2> QED
    BY <1>2, <1>3, <2>1, <2>2 DEF Counted, Waiting
<1>22. CASE DieLock(t)
  BY <1>1, <1>2, <1>3, <1>22 DEF DieLock, Goto, At, User, Counted, Waiting,
       vars, threadVars, childVars, waitVars, lockVars
<1>23. CASE Report(t)
  <2>1. /\ pc'[t] = "dead"
        /\ \A u \in THREADS \ {t} :
             \/ pc'[u] = pc[u]
             \/ pc[u] = "asleep" /\ proc[u] = parent[proc[t]] /\ pc'[u] = "wait_lock"
    BY <1>23, ReportWakes
  <2>2. /\ proc[t] \in PROCS \ {init} /\ pc[t] = "report"
        /\ parent[proc[t]] \in PROCS \ {proc[t]}
        /\ arg' = [arg EXCEPT ![t] = None]
        /\ UNCHANGED <<proc, nwaiters>>
    BY <1>23, ReportEffect
  <2> QED
    BY <1>2, <1>3, <2>1, <2>2 DEF Counted, Waiting
<1>24. CASE Cleanup(t)
  BY <1>1, <1>2, <1>3, <1>24 DEF Cleanup, Goto, At, User, Counted, Waiting,
       vars, threadVars, childVars, waitVars, lockVars
<1> QED
    BY <1>4, <1>5, <1>6, <1>7, <1>8, <1>9, <1>10, <1>11, <1>12, <1>13, <1>14,
     <1>15, <1>16, <1>17, <1>18, <1>19, <1>20, <1>21, <1>22, <1>23, <1>24 DEF
     Call, Step


\* A process that does not call thread_fork, or has no parent, has one thread.
LEMMA SoleStep ==
  ASSUME PIInv, Careful, NEW t \in THREADS, Call(t) \/ Step(t)
  PROVE  SoleInv'
<1>1. /\ proc \in [THREADS -> PROCS \cup {None}] /\ pc \in [THREADS -> Labels]
      /\ arg \in [THREADS -> PROCS \cup THREADS \cup {None}]
      /\ parent \in [PROCS -> PROCS \cup {None}] /\ init \in PROCS
      /\ None \notin PROCS \cup THREADS
      /\ \A u \in THREADS : pc[u] \notin {"unused", "gone"} => proc[u] \in PROCS
  BY ProcAssumption DEF PIInv, PTypeOK, ThreadInv
<1>2. SoleInv /\ AloneInv /\ InitInv
  BY DEF PIInv, LoneInv
<1>3. /\ live \in [PROCS -> SUBSET PROCS] /\ nchilds \in [PROCS -> Nat]
      /\ refcount \in [PROCS -> Nat] /\ dead \in [PROCS -> Seq(PROCS)]
  BY DEF PIInv, PTypeOK
<1>4. CASE Exec(t) \/ Respawn(t)
  <2>1. PICK q \in FreshProcs, u \in FreshThreads :
          LET p == proc[t] IN
          /\ p \in PROCS /\ pc[t] = "user" /\ t # u /\ p # q
          /\ \A v \in THREADS : proc[v] = p => v = t
          /\ proc' = [proc EXCEPT ![t] = q, ![u] = p]
          /\ pc' = [pc EXCEPT ![t] = "exit", ![u] = "user"]
          /\ UNCHANGED parent
    BY <1>4, SwapEffect DEF childVars, waitVars, lockVars
  <2>2. /\ q \in PROCS \ {init} /\ u \in THREADS /\ pc[u] = "unused" /\ proc[u] = None
        /\ arg[u] = None /\ parent[q] = None /\ q \notin freed /\ ~Listed(q)
        /\ \A v \in THREADS : proc[v] # q /\ arg[v] # q
        /\ \A v \in THREADS : pc[v] = "fork_add" => arg[v] # u
    BY FreshFacts
  <2>4. PICK p \in PROCS : p = proc[t]
    BY <2>1
  <2>5. \A v \in THREADS : /\ proc'[v] = p <=> v = u
                           /\ proc'[v] = q <=> v = t
                           /\ v \notin {t, u} => proc'[v] = proc[v]
    BY <1>1, <2>1, <2>2, <2>4
  <2>6. ASSUME NEW r \in PROCS, "thread_fork" \notin Calls[r] \/ (parent[r] = None /\ r # init),
               NEW v \in THREADS, NEW w \in THREADS, proc'[v] = r, proc'[w] = r
        PROVE  v = w
    <3>1. CASE r \in {p, q}
      BY <2>5, <2>6, <3>1
    <3>2. CASE r \notin {p, q}
      BY <1>2, <2>2, <2>4, <2>5, <2>6, <3>2 DEF SoleInv
    <3> QED
      BY <3>1, <3>2
  <2> QED
    BY <2>1, <2>6 DEF SoleInv
<1>5. CASE Fork(t)
  <2>1. PICK q \in FreshProcs, u \in FreshThreads :
          LET p == proc[t] IN
          /\ p \in PROCS /\ pc[t] = "user" /\ t # u /\ p # q
          /\ proc' = [proc EXCEPT ![u] = q] /\ parent' = [parent EXCEPT ![q] = p]
          /\ arg' = [arg EXCEPT ![t] = u]
          /\ pc' = [pc EXCEPT ![t] = "fork_add", ![u] = "new"]
          /\ refcount' = [refcount EXCEPT ![q] = 1]
          /\ UNCHANGED <<nchilds, live, dead>>
    BY <1>5, ForkEffect DEF childVars, waitVars, lockVars
  <2>2. /\ q \in PROCS \ {init} /\ u \in THREADS /\ pc[u] = "unused" /\ proc[u] = None
        /\ arg[u] = None /\ parent[q] = None /\ q \notin freed /\ ~Listed(q)
        /\ \A v \in THREADS : proc[v] # q /\ arg[v] # q
        /\ \A v \in THREADS : pc[v] = "fork_add" => arg[v] # u
    BY FreshFacts
  <2> QED
    BY <1>1, <1>2, <1>3, <2>1, <2>2 DEF SoleInv
<1>6. CASE ForkAdd(t)
  <2>1. /\ arg[t] \in THREADS /\ t # arg[t] /\ pc[t] = "fork_add" /\ pc[arg[t]] = "new"
        /\ proc[t] \in PROCS /\ parent[proc[arg[t]]] = proc[t] /\ proc[arg[t]] \in PROCS \ {init}
        /\ live' = [live EXCEPT ![proc[t]] = @ \cup {proc[arg[t]]}]
        /\ nchilds' = [nchilds EXCEPT ![proc[t]] = @ + 1]
        /\ pc' = [pc EXCEPT ![t] = "user", ![arg[t]] = "user"]
        /\ UNCHANGED <<proc, parent, refcount, dead>>
    BY <1>6, ForkAddEffect
  <2>2. proc[t] = init \/ parent[proc[t]] # None
    BY <1>1, <1>2, <2>1 DEF AloneInv, Leaving
  <2> QED
    BY <1>1, <1>2, <1>3, <2>1, <2>2 DEF SoleInv
<1>7. CASE ThreadFork(t)
  <2>1. PICK u \in FreshThreads :
          LET p == proc[t] IN
          /\ p \in PROCS \ {init} /\ pc[t] = "user" /\ t # u
          /\ "thread_fork" \in Calls[p] /\ parent[p] # None
          /\ proc' = [proc EXCEPT ![u] = p] /\ pc' = [pc EXCEPT ![u] = "user"]
          /\ refcount' = [refcount EXCEPT ![p] = @ + 1]
          /\ UNCHANGED <<parent, nchilds, live, dead>>
    BY <1>7, ThreadForkEffect DEF childVars, waitVars, lockVars
  <2>2. u \in THREADS /\ pc[u] = "unused"
    BY DEF FreshThreads
  <2>3. proc[u] = None /\ arg[u] = None
    BY <2>2 DEF PIInv, ThreadInv
  <2> QED
    BY <1>1, <1>2, <1>3, <2>1, <2>2, <2>3 DEF SoleInv
<1>8. CASE WaitNoChild(t)
  BY <1>1, <1>2, <1>3, <1>8 DEF WaitNoChild, Goto, At, User, SoleInv, vars,
       threadVars, childVars, waitVars, lockVars
<1>9. CASE Wait(t)
  BY <1>1, <1>2, <1>3, <1>9 DEF Wait, Goto, At, User, SoleInv, vars,
       threadVars, childVars, waitVars, lockVars
<1>10. CASE WaitEmpty(t)
  BY <1>1, <1>2, <1>3, <1>10 DEF WaitEmpty, Goto, At, User, SoleInv, vars,
       threadVars, childVars, waitVars, lockVars
<1>11. CASE WaitSleep(t)
  BY <1>1, <1>2, <1>3, <1>11 DEF WaitSleep, Goto, At, User, SoleInv, vars,
       threadVars, childVars, waitVars, lockVars
<1>12. CASE WaitRelock(t)
  BY <1>1, <1>2, <1>3, <1>12 DEF WaitRelock, Goto, At, User, SoleInv, vars,
       threadVars, childVars, waitVars, lockVars
<1>13. CASE WaitReap(t)
  <2>1. /\ pc[t] = "wait_test" /\ proc[t] \in PROCS /\ pc' = [pc EXCEPT ![t] = "wait_free"]
        /\ nchilds' = [nchilds EXCEPT ![proc[t]] = @ - 1]
        /\ dead' = [dead EXCEPT ![proc[t]] = Tail(@)]
        /\ UNCHANGED <<proc, parent, refcount, live>>
    BY <1>13, WaitReapEffect
  <2>2. proc[t] = init \/ parent[proc[t]] # None
    BY <1>1, <1>2, <2>1 DEF AloneInv, Leaving
  <2> QED
    BY <1>1, <1>2, <1>3, <2>1, <2>2 DEF SoleInv
<1>14. CASE WaitBadStatus(t)
  BY <1>1, <1>2, <1>3, <1>14 DEF WaitBadStatus, Goto, At, User, SoleInv, vars,
       threadVars, childVars, waitVars, lockVars
<1>15. CASE WaitFree(t)
  BY <1>1, <1>2, <1>3, <1>15 DEF WaitFree, Goto, At, User, SoleInv, vars,
       threadVars, childVars, waitVars, lockVars
<1>16. CASE Vanish(t)
  BY <1>1, <1>2, <1>3, <1>16 DEF Vanish, Goto, At, User, SoleInv, vars,
       threadVars, childVars, waitVars, lockVars
<1>17. CASE ExitLeave(t)
  BY <1>1, <1>2, <1>3, <1>17 DEF ExitLeave, Goto, At, User, SoleInv, vars,
       threadVars, childVars, waitVars, lockVars
<1>18. CASE ExitLast(t)
  <2>1. /\ pc[t] = "exit_left" /\ UNCHANGED <<proc, parent, refcount, nchilds, live, dead>>
        /\ pc' = [pc EXCEPT ![t] = IF refcount[proc[t]] = 0 THEN "orphan" ELSE "die"]
    BY <1>18 DEF ExitLast, At, Goto, childVars
  <2>2. ASSUME parent[proc[t]] = None
        PROVE  refcount[proc[t]] = 0
    <3>1. PICK p \in PROCS : p = proc[t]
      BY <1>1, <2>1
    <3>2. p # init
      BY <1>2, <2>1, <3>1 DEF InitInv, Counted, Waiting
    <3>3. ThreadsAt(p, Counted) = {}
      BY <1>2, <2>1, <2>2, <3>1, <3>2 DEF SoleInv, ThreadsAt, Counted, Waiting
    <3> QED
      BY <3>1, <3>3, CountFacts DEF PIInv, CountInv
  <2> QED
    BY <1>1, <1>2, <1>3, <2>1, <2>2 DEF SoleInv
<1>19. CASE OrphanLock(t)
  BY <1>1, <1>2, <1>3, <1>19 DEF OrphanLock, Goto, At, User, SoleInv, vars,
       threadVars, childVars, waitVars, lockVars
<1>20. CASE OrphanLockInit(t)
  BY <1>1, <1>2, <1>3, <1>20 DEF OrphanLockInit, Goto, At, User, SoleInv,
       vars, threadVars, childVars, waitVars, lockVars
<1>21. CASE OrphanMove(t)
  <2>1. /\ pc'[t] = "die_last"
        /\ \A u \in THREADS \ {t} :
             \/ pc'[u] = pc[u]
             \/ pc[u] = "asleep" /\ proc[u] = init /\ pc'[u] = "wait_lock"
    BY <1>21, OrphanMoveWakes
  <2>2. /\ proc[t] \in PROCS \ {init} /\ pc[t] = "orphan_move"
        /\ parent' = [q \in PROCS |-> IF q \in live[proc[t]] \cup Range(dead[proc[t]])
                                      THEN init ELSE parent[q]]
        /\ UNCHANGED <<proc, refcount>>
    BY <1>21, OrphanMoveEffect
  <2>3. /\ live' = [live EXCEPT ![init] = @ \cup live[proc[t]], ![proc[t]] = {}]
        /\ dead'[proc[t]] = <<>>
        /\ \A q \in PROCS \ {proc[t], init} : dead'[q] = dead[q]
        /\ nchilds' = [nchilds EXCEPT ![init] = @ + Cardinality(live[proc[t]])
                                                  + Len(dead[proc[t]])]
    BY <1>21, OrphanMoveEffect
  <2>4. \A q \in PROCS : /\ parent'[q] = None => parent[q] = None
                        /\ parent[q] = None => parent'[q] = None
    BY <1>1, <2>2, LiveFacts
  <2> QED
    BY <1>1, <1>2, <1>3, <2>1, <2>2, <2>3, <2>4 DEF SoleInv
<1>22. CASE DieLock(t)
  <2>1. /\ proc[t] \in PROCS \ {init} /\ UNCHANGED <<proc, parent, refcount, childVars>>
        /\ \/ pc[t] = "die" /\ pc' = [pc EXCEPT ![t] = "dead"]
           \/ pc[t] = "die_last" /\ parent[proc[t]] = None /\ pc' = [pc EXCEPT ![t] = "dead"]
           \/ pc[t] = "die_last" /\ parent[proc[t]] # None /\ pc' = [pc EXCEPT ![t] = "report"]
    BY <1>1, <1>22, DieLockEffect
  <2>2. UNCHANGED <<nchilds, live, dead>>
    BY <2>1 DEF childVars
  <2> QED
    BY <1>1, <1>2, <1>3, <2>1, <2>2 DEF SoleInv
<1>23. CASE Report(t)
  <2>1. /\ pc'[t] = "dead"
        /\ \A u \in THREADS \ {t} :
             \/ pc'[u] = pc[u]
             \/ pc[u] = "asleep" /\ proc[u] = parent[proc[t]] /\ pc'[u] = "wait_lock"
    BY <1>23, ReportWakes
  <2>2. /\ proc[t] \in PROCS \ {init} /\ pc[t] = "report"
        /\ parent[proc[t]] \in PROCS \ {proc[t]}
        /\ arg' = [arg EXCEPT ![t] = None]
        /\ UNCHANGED <<proc, parent, refcount, nchilds>>
    BY <1>23, ReportEffect
  <2>3. /\ live' = [live EXCEPT ![parent[proc[t]]] = @ \ {proc[t]}]
        /\ proc[t] \in live[parent[proc[t]]]
        /\ \A q \in PROCS \ {parent[proc[t]]} : dead'[q] = dead[q]
        /\ \A v \in THREADS : proc[v] = proc[t] /\ v # t => pc[v] \in {"die", "dead"}
    BY <1>23, ReportEffect
  <2> QED
    BY <1>1, <1>2, <1>3, <2>1, <2>2, <2>3 DEF SoleInv
<1>24. CASE Cleanup(t)
  BY <1>1, <1>2, <1>3, <1>24 DEF Cleanup, Goto, At, User, SoleInv, vars,
       threadVars, childVars, waitVars, lockVars
<1> QED
    BY <1>4, <1>5, <1>6, <1>7, <1>8, <1>9, <1>10, <1>11, <1>12, <1>13, <1>14,
     <1>15, <1>16, <1>17, <1>18, <1>19, <1>20, <1>21, <1>22, <1>23, <1>24 DEF
     Call, Step

\* A process without parent is on its way out and has no children.
LEMMA AloneStep ==
  ASSUME PIInv, Careful, NEW t \in THREADS, Call(t) \/ Step(t)
  PROVE  AloneInv'
<1>1. /\ proc \in [THREADS -> PROCS \cup {None}] /\ pc \in [THREADS -> Labels]
      /\ arg \in [THREADS -> PROCS \cup THREADS \cup {None}]
      /\ parent \in [PROCS -> PROCS \cup {None}] /\ init \in PROCS
      /\ None \notin PROCS \cup THREADS
      /\ \A u \in THREADS : pc[u] \notin {"unused", "gone"} => proc[u] \in PROCS
  BY ProcAssumption DEF PIInv, PTypeOK, ThreadInv
<1>2. SoleInv /\ AloneInv /\ InitInv
  BY DEF PIInv, LoneInv
<1>3. /\ live \in [PROCS -> SUBSET PROCS] /\ nchilds \in [PROCS -> Nat]
      /\ refcount \in [PROCS -> Nat] /\ dead \in [PROCS -> Seq(PROCS)]
  BY DEF PIInv, PTypeOK
<1>4. CASE Exec(t) \/ Respawn(t)
  <2>1. PICK q \in FreshProcs, u \in FreshThreads :
          LET p == proc[t] IN
          /\ p \in PROCS /\ pc[t] = "user" /\ t # u /\ p # q
          /\ \A v \in THREADS : proc[v] = p => v = t
          /\ proc' = [proc EXCEPT ![t] = q, ![u] = p]
          /\ pc' = [pc EXCEPT ![t] = "exit", ![u] = "user"]
          /\ refcount[p] = 1 /\ refcount' = [refcount EXCEPT ![q] = 1]
          /\ UNCHANGED <<parent, live>>
    BY <1>4, SwapEffect DEF childVars, waitVars, lockVars
  <2>2. /\ q \in PROCS \ {init} /\ u \in THREADS /\ pc[u] = "unused" /\ proc[u] = None
        /\ arg[u] = None /\ parent[q] = None /\ q \notin freed /\ ~Listed(q)
        /\ \A v \in THREADS : proc[v] # q /\ arg[v] # q
        /\ \A v \in THREADS : pc[v] = "fork_add" => arg[v] # u
    BY FreshFacts
  <2>3. \/ UNCHANGED <<dead, nchilds>>
        \/ /\ dead' = [dead EXCEPT ![init] = <<>>]
           /\ nchilds' = [nchilds EXCEPT ![init] = @ - Len(dead[init])]
    BY <1>4, SwapEffect DEF childVars
  <2> QED
    BY ZenonT(60), <1>1, <1>2, <1>3, <2>1, <2>2, <2>3 DEF AloneInv, Leaving
<1>5. CASE Fork(t)
  <2>1. PICK q \in FreshProcs, u \in FreshThreads :
          LET p == proc[t] IN
          /\ p \in PROCS /\ pc[t] = "user" /\ t # u /\ p # q
          /\ proc' = [proc EXCEPT ![u] = q] /\ parent' = [parent EXCEPT ![q] = p]
          /\ arg' = [arg EXCEPT ![t] = u]
          /\ pc' = [pc EXCEPT ![t] = "fork_add", ![u] = "new"]
          /\ refcount' = [refcount EXCEPT ![q] = 1]
          /\ UNCHANGED <<nchilds, live, dead>>
    BY <1>5, ForkEffect DEF childVars, waitVars, lockVars
  <2>2. /\ q \in PROCS \ {init} /\ u \in THREADS /\ pc[u] = "unused" /\ proc[u] = None
        /\ arg[u] = None /\ parent[q] = None /\ q \notin freed /\ ~Listed(q)
        /\ \A v \in THREADS : proc[v] # q /\ arg[v] # q
        /\ \A v \in THREADS : pc[v] = "fork_add" => arg[v] # u
    BY FreshFacts
  <2> QED
    BY <1>1, <1>2, <1>3, <2>1, <2>2 DEF AloneInv, Leaving
<1>6. CASE ForkAdd(t)
  <2>1. /\ arg[t] \in THREADS /\ t # arg[t] /\ pc[t] = "fork_add" /\ pc[arg[t]] = "new"
        /\ proc[t] \in PROCS /\ parent[proc[arg[t]]] = proc[t] /\ proc[arg[t]] \in PROCS \ {init}
        /\ live' = [live EXCEPT ![proc[t]] = @ \cup {proc[arg[t]]}]
        /\ nchilds' = [nchilds EXCEPT ![proc[t]] = @ + 1]
        /\ pc' = [pc EXCEPT ![t] = "user", ![arg[t]] = "user"]
        /\ UNCHANGED <<proc, parent, refcount, dead>>
    BY <1>6, ForkAddEffect
  <2>2. proc[t] = init \/ parent[proc[t]] # None
    BY <1>1, <1>2, <2>1 DEF AloneInv, Leaving
  <2> QED
    BY <1>1, <1>2, <1>3, <2>1, <2>2 DEF AloneInv, Leaving
<1>7. CASE ThreadFork(t)
  <2>1. PICK u \in FreshThreads :
          LET p == proc[t] IN
          /\ p \in PROCS \ {init} /\ pc[t] = "user" /\ t # u
          /\ "thread_fork" \in Calls[p] /\ parent[p] # None
          /\ proc' = [proc EXCEPT ![u] = p] /\ pc' = [pc EXCEPT ![u] = "user"]
          /\ refcount' = [refcount EXCEPT ![p] = @ + 1]
          /\ UNCHANGED <<parent, nchilds, live, dead>>
    BY <1>7, ThreadForkEffect DEF childVars, waitVars, lockVars
  <2>2. u \in THREADS /\ pc[u] = "unused"
    BY DEF FreshThreads
  <2>3. proc[u] = None /\ arg[u] = None
    BY <2>2 DEF PIInv, ThreadInv
  <2> QED
    BY <1>1, <1>2, <1>3, <2>1, <2>2, <2>3 DEF AloneInv, Leaving
<1>8. CASE WaitNoChild(t)
  BY <1>1, <1>2, <1>3, <1>8 DEF WaitNoChild, Goto, At, User, AloneInv,
       Leaving, vars, threadVars, childVars, waitVars, lockVars
<1>9. CASE Wait(t)
  BY <1>1, <1>2, <1>3, <1>9 DEF Wait, Goto, At, User, AloneInv, Leaving, vars,
       threadVars, childVars, waitVars, lockVars
<1>10. CASE WaitEmpty(t)
  BY <1>1, <1>2, <1>3, <1>10 DEF WaitEmpty, Goto, At, User, AloneInv, Leaving,
       vars, threadVars, childVars, waitVars, lockVars
<1>11. CASE WaitSleep(t)
  BY <1>1, <1>2, <1>3, <1>11 DEF WaitSleep, Goto, At, User, AloneInv, Leaving,
       vars, threadVars, childVars, waitVars, lockVars
<1>12. CASE WaitRelock(t)
  BY <1>1, <1>2, <1>3, <1>12 DEF WaitRelock, Goto, At, User, AloneInv,
       Leaving, vars, threadVars, childVars, waitVars, lockVars
<1>13. CASE WaitReap(t)
  <2>1. /\ pc[t] = "wait_test" /\ proc[t] \in PROCS /\ pc' = [pc EXCEPT ![t] = "wait_free"]
        /\ nchilds' = [nchilds EXCEPT ![proc[t]] = @ - 1]
        /\ dead' = [dead EXCEPT ![proc[t]] = Tail(@)]
        /\ UNCHANGED <<proc, parent, refcount, live>>
    BY <1>13, WaitReapEffect
  <2>2. proc[t] = init \/ parent[proc[t]] # None
    BY <1>1, <1>2, <2>1 DEF AloneInv, Leaving
  <2> QED
    BY <1>1, <1>2, <1>3, <2>1, <2>2 DEF AloneInv, Leaving
<1>14. CASE WaitBadStatus(t)
  BY <1>1, <1>2, <1>3, <1>14 DEF WaitBadStatus, Goto, At, User, AloneInv,
       Leaving, vars, threadVars, childVars, waitVars, lockVars
<1>15. CASE WaitFree(t)
  BY <1>1, <1>2, <1>3, <1>15 DEF WaitFree, Goto, At, User, AloneInv, Leaving,
       vars, threadVars, childVars, waitVars, lockVars
<1>16. CASE Vanish(t)
  BY <1>1, <1>2, <1>3, <1>16 DEF Vanish, Goto, At, User, AloneInv, Leaving,
       vars, threadVars, childVars, waitVars, lockVars
<1>17. CASE ExitLeave(t)
  BY <1>1, <1>2, <1>3, <1>17 DEF ExitLeave, Goto, At, User, AloneInv, Leaving,
       vars, threadVars, childVars, waitVars, lockVars
<1>18. CASE ExitLast(t)
  <2>1. /\ pc[t] = "exit_left" /\ UNCHANGED <<proc, parent, refcount, nchilds, live, dead>>
        /\ pc' = [pc EXCEPT ![t] = IF refcount[proc[t]] = 0 THEN "orphan" ELSE "die"]
    BY <1>18 DEF ExitLast, At, Goto, childVars
  <2>2. ASSUME parent[proc[t]] = None
        PROVE  refcount[proc[t]] = 0
    <3>1. PICK p \in PROCS : p = proc[t]
      BY <1>1, <2>1
    <3>2. p # init
      BY <1>2, <2>1, <3>1 DEF InitInv, Counted, Waiting
    <3>3. ThreadsAt(p, Counted) = {}
      BY <1>2, <2>1, <2>2, <3>1, <3>2 DEF SoleInv, ThreadsAt, Counted, Waiting
    <3> QED
      BY <3>1, <3>3, CountFacts DEF PIInv, CountInv
  <2> QED
    BY <1>1, <1>2, <1>3, <2>1, <2>2 DEF AloneInv, Leaving
<1>19. CASE OrphanLock(t)
  BY <1>1, <1>2, <1>3, <1>19 DEF OrphanLock, Goto, At, User, AloneInv,
       Leaving, vars, threadVars, childVars, waitVars, lockVars
<1>20. CASE OrphanLockInit(t)
  BY <1>1, <1>2, <1>3, <1>20 DEF OrphanLockInit, Goto, At, User, AloneInv,
       Leaving, vars, threadVars, childVars, waitVars, lockVars
<1>21. CASE OrphanMove(t)
  <2>1. /\ pc'[t] = "die_last"
        /\ \A u \in THREADS \ {t} :
             \/ pc'[u] = pc[u]
             \/ pc[u] = "asleep" /\ proc[u] = init /\ pc'[u] = "wait_lock"
    BY <1>21, OrphanMoveWakes
  <2>2. /\ proc[t] \in PROCS \ {init} /\ pc[t] = "orphan_move"
        /\ parent' = [q \in PROCS |-> IF q \in live[proc[t]] \cup Range(dead[proc[t]])
                                      THEN init ELSE parent[q]]
        /\ UNCHANGED <<proc, refcount>>
    BY <1>21, OrphanMoveEffect
  <2>3. /\ live' = [live EXCEPT ![init] = @ \cup live[proc[t]], ![proc[t]] = {}]
        /\ dead'[proc[t]] = <<>>
        /\ \A q \in PROCS \ {proc[t], init} : dead'[q] = dead[q]
        /\ nchilds' = [nchilds EXCEPT ![init] = @ + Cardinality(live[proc[t]])
                                                  + Len(dead[proc[t]])]
    BY <1>21, OrphanMoveEffect
  <2>4. \A q \in PROCS : /\ parent'[q] = None => parent[q] = None
                        /\ parent[q] = None => parent'[q] = None
    BY <1>1, <2>2, LiveFacts
  <2> QED
    BY <1>1, <1>2, <1>3, <2>1, <2>2, <2>3, <2>4 DEF AloneInv, Leaving
<1>22. CASE DieLock(t)
  <2>1. /\ proc[t] \in PROCS \ {init} /\ UNCHANGED <<proc, parent, refcount, childVars>>
        /\ \/ pc[t] = "die" /\ pc' = [pc EXCEPT ![t] = "dead"]
           \/ pc[t] = "die_last" /\ parent[proc[t]] = None /\ pc' = [pc EXCEPT ![t] = "dead"]
           \/ pc[t] = "die_last" /\ parent[proc[t]] # None /\ pc' = [pc EXCEPT ![t] = "report"]
    BY <1>1, <1>22, DieLockEffect
  <2>2. UNCHANGED <<nchilds, live, dead>>
    BY <2>1 DEF childVars
  <2> QED
    BY ZenonT(60), <1>1, <1>2, <1>3, <2>1, <2>2 DEF AloneInv, Leaving
<1>23. CASE Report(t)
  <2>1. /\ pc'[t] = "dead"
        /\ \A u \in THREADS \ {t} :
             \/ pc'[u] = pc[u]
             \/ pc[u] = "asleep" /\ proc[u] = parent[proc[t]] /\ pc'[u] = "wait_lock"
    BY <1>23, ReportWakes
  <2>2. /\ proc[t] \in PROCS \ {init} /\ pc[t] = "report"
        /\ parent[proc[t]] \in PROCS \ {proc[t]}
        /\ arg' = [arg EXCEPT ![t] = None]
        /\ UNCHANGED <<proc, parent, refcount, nchilds>>
    BY <1>23, ReportEffect
  <2>3. /\ live' = [live EXCEPT ![parent[proc[t]]] = @ \ {proc[t]}]
        /\ proc[t] \in live[parent[proc[t]]]
        /\ \A q \in PROCS \ {parent[proc[t]]} : dead'[q] = dead[q]
        /\ \A v \in THREADS : proc[v] = proc[t] /\ v # t => pc[v] \in {"die", "dead"}
    BY <1>23, ReportEffect
  <2> QED
    BY ZenonT(60), <1>1, <1>2, <1>3, <2>1, <2>2, <2>3 DEF AloneInv, Leaving
<1>24. CASE Cleanup(t)
  BY <1>1, <1>2, <1>3, <1>24 DEF Cleanup, Goto, At, User, AloneInv, Leaving,
       vars, threadVars, childVars, waitVars, lockVars
<1> QED
    BY <1>4, <1>5, <1>6, <1>7, <1>8, <1>9, <1>10, <1>11, <1>12, <1>13, <1>14,
     <1>15, <1>16, <1>17, <1>18, <1>19, <1>20, <1>21, <1>22, <1>23, <1>24 DEF
     Call, Step

\* init has one thread, which does not exit as part of it.
LEMMA InitStep ==
  ASSUME PIInv, Careful, NEW t \in THREADS, Call(t) \/ Step(t)
  PROVE  InitInv'
<1>1. /\ proc \in [THREADS -> PROCS \cup {None}] /\ pc \in [THREADS -> Labels]
      /\ arg \in [THREADS -> PROCS \cup THREADS \cup {None}]
      /\ parent \in [PROCS -> PROCS \cup {None}] /\ init \in PROCS
      /\ None \notin PROCS \cup THREADS
      /\ \A u \in THREADS : pc[u] \notin {"unused", "gone"} => proc[u] \in PROCS
  BY ProcAssumption DEF PIInv, PTypeOK, ThreadInv
<1>2. SoleInv /\ AloneInv /\ InitInv
  BY DEF PIInv, LoneInv
<1>3. /\ live \in [PROCS -> SUBSET PROCS] /\ nchilds \in [PROCS -> Nat]
      /\ refcount \in [PROCS -> Nat] /\ dead \in [PROCS -> Seq(PROCS)]
  BY DEF PIInv, PTypeOK
<1>4. CASE Exec(t) \/ Respawn(t)
  <2>1. PICK q \in FreshProcs, u \in FreshThreads :
          LET p == proc[t] IN
          /\ p \in PROCS /\ pc[t] = "user" /\ t # u /\ p # q
          /\ \A v \in THREADS : proc[v] = p => v = t
          /\ proc' = [proc EXCEPT ![t] = q, ![u] = p]
          /\ pc' = [pc EXCEPT ![t] = "exit", ![u] = "user"]
          /\ refcount[p] = 1 /\ refcount' = [refcount EXCEPT ![q] = 1]
          /\ UNCHANGED <<parent, live>>
    BY <1>4, SwapEffect DEF childVars, waitVars, lockVars
  <2>2. /\ q \in PROCS \ {init} /\ u \in THREADS /\ pc[u] = "unused" /\ proc[u] = None
        /\ arg[u] = None /\ parent[q] = None /\ q \notin freed /\ ~Listed(q)
        /\ \A v \in THREADS : proc[v] # q /\ arg[v] # q
        /\ \A v \in THREADS : pc[v] = "fork_add" => arg[v] # u
    BY FreshFacts
  <2>3. \/ UNCHANGED <<dead, nchilds>>
        \/ /\ dead' = [dead EXCEPT ![init] = <<>>]
           /\ nchilds' = [nchilds EXCEPT ![init] = @ - Len(dead[init])]
    BY <1>4, SwapEffect DEF childVars
  <2> QED
    BY <1>1, <1>2, <1>3, <2>1, <2>2, <2>3 DEF InitInv, Counted, Waiting
<1>5. CASE Fork(t)
  <2>1. PICK q \in FreshProcs, u \in FreshThreads :
          LET p == proc[t] IN
          /\ p \in PROCS /\ pc[t] = "user" /\ t # u /\ p # q
          /\ proc' = [proc EXCEPT ![u] = q] /\ parent' = [parent EXCEPT ![q] = p]
          /\ arg' = [arg EXCEPT ![t] = u]
          /\ pc' = [pc EXCEPT ![t] = "fork_add", ![u] = "new"]
          /\ refcount' = [refcount EXCEPT ![q] = 1]
          /\ UNCHANGED <<nchilds, live, dead>>
    BY <1>5, ForkEffect DEF childVars, waitVars, lockVars
  <2>2. /\ q \in PROCS \ {init} /\ u \in THREADS /\ pc[u] = "unused" /\ proc[u] = None
        /\ arg[u] = None /\ parent[q] = None /\ q \notin freed /\ ~Listed(q)
        /\ \A v \in THREADS : proc[v] # q /\ arg[v] # q
        /\ \A v \in THREADS : pc[v] = "fork_add" => arg[v] # u
    BY FreshFacts
  <2> QED
    BY <1>1, <1>2, <1>3, <2>1, <2>2 DEF InitInv, Counted, Waiting
<1>6. CASE ForkAdd(t)
  <2>1. /\ arg[t] \in THREADS /\ t # arg[t] /\ pc[t] = "fork_add" /\ pc[arg[t]] = "new"
        /\ proc[t] \in PROCS /\ parent[proc[arg[t]]] = proc[t] /\ proc[arg[t]] \in PROCS \ {init}
        /\ live' = [live EXCEPT ![proc[t]] = @ \cup {proc[arg[t]]}]
        /\ nchilds' = [nchilds EXCEPT ![proc[t]] = @ + 1]
        /\ pc' = [pc EXCEPT ![t] = "user", ![arg[t]] = "user"]
        /\ UNCHANGED <<proc, parent, refcount, dead>>
    BY <1>6, ForkAddEffect
  <2>2. proc[t] = init \/ parent[proc[t]] # None
    BY <1>1, <1>2, <2>1 DEF AloneInv, Leaving
  <2> QED
    BY <1>1, <1>2, <1>3, <2>1, <2>2 DEF InitInv, Counted, Waiting
<1>7. CASE ThreadFork(t)
  <2>1. PICK u \in FreshThreads :
          LET p == proc[t] IN
          /\ p \in PROCS \ {init} /\ pc[t] = "user" /\ t # u
          /\ "thread_fork" \in Calls[p] /\ parent[p] # None
          /\ proc' = [proc EXCEPT ![u] = p] /\ pc' = [pc EXCEPT ![u] = "user"]
          /\ refcount' = [refcount EXCEPT ![p] = @ + 1]
          /\ UNCHANGED <<parent, nchilds, live, dead>>
    BY <1>7, ThreadForkEffect DEF childVars, waitVars, lockVars
  <2>2. u \in THREADS /\ pc[u] = "unused"
    BY DEF FreshThreads
  <2>3. proc[u] = None /\ arg[u] = None
    BY <2>2 DEF PIInv, ThreadInv
  <2> QED
    BY <1>1, <1>2, <1>3, <2>1, <2>2, <2>3 DEF InitInv, Counted, Waiting
<1>8. CASE WaitNoChild(t)
  BY <1>1, <1>2, <1>3, <1>8 DEF WaitNoChild, Goto, At, User, InitInv, Counted,
       Waiting, vars, threadVars, childVars, waitVars, lockVars
<1>9. CASE Wait(t)
  BY <1>1, <1>2, <1>3, <1>9 DEF Wait, Goto, At, User, InitInv, Counted,
       Waiting, vars, threadVars, childVars, waitVars, lockVars
<1>10. CASE WaitEmpty(t)
  BY <1>1, <1>2, <1>3, <1>10 DEF WaitEmpty, Goto, At, User, InitInv, Counted,
       Waiting, vars, threadVars, childVars, waitVars, lockVars
<1>11. CASE WaitSleep(t)
  BY <1>1, <1>2, <1>3, <1>11 DEF WaitSleep, Goto, At, User, InitInv, Counted,
       Waiting, vars, threadVars, childVars, waitVars, lockVars
<1>12. CASE WaitRelock(t)
  BY <1>1, <1>2, <1>3, <1>12 DEF WaitRelock, Goto, At, User, InitInv, Counted,
       Waiting, vars, threadVars, childVars, waitVars, lockVars
<1>13. CASE WaitReap(t)
  <2>1. /\ pc[t] = "wait_test" /\ proc[t] \in PROCS /\ pc' = [pc EXCEPT ![t] = "wait_free"]
        /\ nchilds' = [nchilds EXCEPT ![proc[t]] = @ - 1]
        /\ dead' = [dead EXCEPT ![proc[t]] = Tail(@)]
        /\ UNCHANGED <<proc, parent, refcount, live>>
    BY <1>13, WaitReapEffect
  <2>2. proc[t] = init \/ parent[proc[t]] # None
    BY <1>1, <1>2, <2>1 DEF AloneInv, Leaving
  <2> QED
    BY <1>1, <1>2, <1>3, <2>1, <2>2 DEF InitInv, Counted, Waiting
<1>14. CASE WaitBadStatus(t)
  BY <1>1, <1>2, <1>3, <1>14 DEF WaitBadStatus, Goto, At, User, InitInv,
       Counted, Waiting, vars, threadVars, childVars, waitVars, lockVars
<1>15. CASE WaitFree(t)
  BY <1>1, <1>2, <1>3, <1>15 DEF WaitFree, Goto, At, User, InitInv, Counted,
       Waiting, vars, threadVars, childVars, waitVars, lockVars
<1>16. CASE Vanish(t)
  BY <1>1, <1>2, <1>3, <1>16 DEF Vanish, Goto, At, User, InitInv, Counted,
       Waiting, vars, threadVars, childVars, waitVars, lockVars
<1>17. CASE ExitLeave(t)
  BY <1>1, <1>2, <1>3, <1>17 DEF ExitLeave, Goto, At, User, InitInv, Counted,
       Waiting, vars, threadVars, childVars, waitVars, lockVars
<1>18. CASE ExitLast(t)
  <2>1. /\ pc[t] = "exit_left" /\ UNCHANGED <<proc, parent, refcount, nchilds, live, dead>>
        /\ pc' = [pc EXCEPT ![t] = IF refcount[proc[t]] = 0 THEN "orphan" ELSE "die"]
    BY <1>18 DEF ExitLast, At, Goto, childVars
  <2>2. ASSUME parent[proc[t]] = None
        PROVE  refcount[proc[t]] = 0
    <3>1. PICK p \in PROCS : p = proc[t]
      BY <1>1, <2>1
    <3>2. p # init
      BY <1>2, <2>1, <3>1 DEF InitInv, Counted, Waiting
    <3>3. ThreadsAt(p, Counted) = {}
      BY <1>2, <2>1, <2>2, <3>1, <3>2 DEF SoleInv, ThreadsAt, Counted, Waiting
    <3> QED
      BY <3>1, <3>3, CountFacts DEF PIInv, CountInv
  <2> QED
    BY <1>1, <1>2, <1>3, <2>1, <2>2 DEF InitInv, Counted, Waiting
<1>19. CASE OrphanLock(t)
  BY <1>1, <1>2, <1>3, <1>19 DEF OrphanLock, Goto, At, User, InitInv, Counted,
       Waiting, vars, threadVars, childVars, waitVars, lockVars
<1>20. CASE OrphanLockInit(t)
  BY <1>1, <1>2, <1>3, <1>20 DEF OrphanLockInit, Goto, At, User, InitInv,
       Counted, Waiting, vars, threadVars, childVars, waitVars, lockVars
<1>21. CASE OrphanMove(t)
  <2>1. /\ pc'[t] = "die_last"
        /\ \A u \in THREADS \ {t} :
             \/ pc'[u] = pc[u]
             \/ pc[u] = "asleep" /\ proc[u] = init /\ pc'[u] = "wait_lock"
    BY <1>21, OrphanMoveWakes
  <2>2. /\ proc[t] \in PROCS \ {init} /\ pc[t] = "orphan_move"
        /\ parent' = [q \in PROCS |-> IF q \in live[proc[t]] \cup Range(dead[proc[t]])
                                      THEN init ELSE parent[q]]
        /\ UNCHANGED <<proc, refcount>>
    BY <1>21, OrphanMoveEffect
  <2>3. /\ live' = [live EXCEPT ![init] = @ \cup live[proc[t]], ![proc[t]] = {}]
        /\ dead'[proc[t]] = <<>>
        /\ \A q \in PROCS \ {proc[t], init} : dead'[q] = dead[q]
        /\ nchilds' = [nchilds EXCEPT ![init] = @ + Cardinality(live[proc[t]])
                                                  + Len(dead[proc[t]])]
    BY <1>21, OrphanMoveEffect
  <2>4. \A q \in PROCS : /\ parent'[q] = None => parent[q] = None
                        /\ parent[q] = None => parent'[q] = None
    BY <1>1, <2>2, LiveFacts
  <2> QED
    BY <1>1, <1>2, <1>3, <2>1, <2>2, <2>3, <2>4 DEF InitInv, Counted, Waiting
<1>22. CASE DieLock(t)
  <2>1. /\ proc[t] \in PROCS \ {init} /\ UNCHANGED <<proc, parent, refcount, childVars>>
        /\ \/ pc[t] = "die" /\ pc' = [pc EXCEPT ![t] = "dead"]
           \/ pc[t] = "die_last" /\ parent[proc[t]] = None /\ pc' = [pc EXCEPT ![t] = "dead"]
           \/ pc[t] = "die_last" /\ parent[proc[t]] # None /\ pc' = [pc EXCEPT ![t] = "report"]
    BY <1>1, <1>22, DieLockEffect
  <2>2. UNCHANGED <<nchilds, live, dead>>
    BY <2>1 DEF childVars
  <2> QED
    BY <1>1, <1>2, <1>3, <2>1, <2>2 DEF InitInv, Counted, Waiting
<1>23. CASE Report(t)
  <2>1. /\ pc'[t] = "dead"
        /\ \A u \in THREADS \ {t} :
             \/ pc'[u] = pc[u]
             \/ pc[u] = "asleep" /\ proc[u] = parent[proc[t]] /\ pc'[u] = "wait_lock"
    BY <1>23, ReportWakes
  <2>2. /\ proc[t] \in PROCS \ {init} /\ pc[t] = "report"
        /\ parent[proc[t]] \in PROCS \ {proc[t]}
        /\ arg' = [arg EXCEPT ![t] = None]
        /\ UNCHANGED <<proc, parent, refcount, nchilds>>
    BY <1>23, ReportEffect
  <2>3. /\ live' = [live EXCEPT ![parent[proc[t]]] = @ \ {proc[t]}]
        /\ proc[t] \in live[parent[proc[t]]]
        /\ \A q \in PROCS \ {parent[proc[t]]} : dead'[q] = dead[q]
        /\ \A v \in THREADS : proc[v] = proc[t] /\ v # t => pc[v] \in {"die", "dead"}
    BY <1>23, ReportEffect
  <2> QED
    BY <1>1, <1>2, <1>3, <2>1, <2>2, <2>3 DEF InitInv, Counted, Waiting
<1>24. CASE Cleanup(t)
  BY <1>1, <1>2, <1>3, <1>24 DEF Cleanup, Goto, At, User, InitInv, Counted,
       Waiting, vars, threadVars, childVars, waitVars, lockVars
<1> QED
    BY <1>4, <1>5, <1>6, <1>7, <1>8, <1>9, <1>10, <1>11, <1>12, <1>13, <1>14,
     <1>15, <1>16, <1>17, <1>18, <1>19, <1>20, <1>21, <1>22, <1>23, <1>24 DEF
     Call, Step


\* The thread that found the count zero stays the last of its process.
LEMMA LastStep ==
  ASSUME PIInv, Careful, NEW t \in THREADS, Call(t) \/ Step(t)
  PROVE  LastInv'
<1>1. /\ proc \in [THREADS -> PROCS \cup {None}] /\ pc \in [THREADS -> Labels]
      /\ arg \in [THREADS -> PROCS \cup THREADS \cup {None}]
      /\ parent \in [PROCS -> PROCS \cup {None}] /\ init \in PROCS
      /\ None \notin PROCS \cup THREADS
      /\ \A u \in THREADS : pc[u] \notin {"unused", "gone"} => proc[u] \in PROCS
  BY ProcAssumption DEF PIInv, PTypeOK, ThreadInv
<1>2. LastInv
  BY DEF PIInv
<1>3. refcount \in [PROCS -> Nat]
      /\ \A u \in THREADS : pc[u] \in Counted => refcount[proc[u]] > 0
  BY <1>1, CountedThread DEF PIInv, PTypeOK, Counted, Waiting
<1>4. RefLockInv
  BY DEF PIInv
<1>5. CASE Exec(t) \/ Respawn(t)
  <2>1. PICK q \in FreshProcs, u \in FreshThreads :
          LET p == proc[t] IN
          /\ p \in PROCS /\ pc[t] = "user" /\ t # u /\ p # q
          /\ \A v \in THREADS : proc[v] = p => v = t
          /\ proc' = [proc EXCEPT ![t] = q, ![u] = p]
          /\ pc' = [pc EXCEPT ![t] = "exit", ![u] = "user"]
          /\ refcount[p] = 1 /\ refcount' = [refcount EXCEPT ![q] = 1]
    BY <1>5, SwapEffect DEF childVars, waitVars, lockVars
  <2>2. /\ q \in PROCS \ {init} /\ u \in THREADS /\ pc[u] = "unused" /\ proc[u] = None
        /\ arg[u] = None /\ parent[q] = None /\ q \notin freed /\ ~Listed(q)
        /\ \A v \in THREADS : proc[v] # q /\ arg[v] # q
        /\ \A v \in THREADS : pc[v] = "fork_add" => arg[v] # u
    BY FreshFacts
  <2> QED
    BY <1>1, <1>2, <1>3, <2>1, <2>2 DEF Counted, Waiting, LastInv, LastOnes
<1>6. CASE Fork(t)
  <2>1. PICK q \in FreshProcs, u \in FreshThreads :
          LET p == proc[t] IN
          /\ p \in PROCS /\ pc[t] = "user" /\ t # u /\ p # q
          /\ proc' = [proc EXCEPT ![u] = q] /\ parent' = [parent EXCEPT ![q] = p]
          /\ arg' = [arg EXCEPT ![t] = u]
          /\ pc' = [pc EXCEPT ![t] = "fork_add", ![u] = "new"]
          /\ refcount' = [refcount EXCEPT ![q] = 1]
    BY <1>6, ForkEffect DEF childVars, waitVars, lockVars
  <2>2. /\ q \in PROCS \ {init} /\ u \in THREADS /\ pc[u] = "unused" /\ proc[u] = None
        /\ arg[u] = None /\ parent[q] = None /\ q \notin freed /\ ~Listed(q)
        /\ \A v \in THREADS : proc[v] # q /\ arg[v] # q
        /\ \A v \in THREADS : pc[v] = "fork_add" => arg[v] # u
    BY FreshFacts
  <2> QED
    BY <1>1, <1>2, <1>3, <2>1, <2>2 DEF Counted, Waiting, LastInv, LastOnes
<1>7. CASE ForkAdd(t)
  BY <1>1, <1>2, <1>3, <1>7, ForkAddEffect DEF Counted, Waiting, LastInv,
       LastOnes
<1>8. CASE ThreadFork(t)
  <2>1. PICK u \in FreshThreads :
          LET p == proc[t] IN
          /\ p \in PROCS \ {init} /\ pc[t] = "user" /\ t # u
          /\ "thread_fork" \in Calls[p] /\ parent[p] # None
          /\ proc' = [proc EXCEPT ![u] = p] /\ pc' = [pc EXCEPT ![u] = "user"]
          /\ refcount' = [refcount EXCEPT ![p] = @ + 1]
    BY <1>8, ThreadForkEffect DEF childVars, waitVars, lockVars
  <2>2. u \in THREADS /\ pc[u] = "unused"
    BY DEF FreshThreads
  <2>3. proc[u] = None /\ arg[u] = None
    BY <2>2 DEF PIInv, ThreadInv
  <2> QED
    BY <1>1, <1>2, <1>3, <2>1, <2>2, <2>3 DEF Counted, Waiting, LastInv,
       LastOnes
<1>9. CASE WaitNoChild(t)
  BY <1>1, <1>2, <1>3, <1>9 DEF WaitNoChild, Goto, At, User, Counted, Waiting,
       LastInv, LastOnes, vars, threadVars, childVars, waitVars, lockVars
<1>10. CASE Wait(t)
  BY <1>1, <1>2, <1>3, <1>10 DEF Wait, Goto, At, User, Counted, Waiting,
       LastInv, LastOnes, vars, threadVars, childVars, waitVars, lockVars
<1>11. CASE WaitEmpty(t)
  BY <1>1, <1>2, <1>3, <1>11 DEF WaitEmpty, Goto, At, User, Counted, Waiting,
       LastInv, LastOnes, vars, threadVars, childVars, waitVars, lockVars
<1>12. CASE WaitSleep(t)
  BY <1>1, <1>2, <1>3, <1>12 DEF WaitSleep, Goto, At, User, Counted, Waiting,
       LastInv, LastOnes, vars, threadVars, childVars, waitVars, lockVars
<1>13. CASE WaitRelock(t)
  BY <1>1, <1>2, <1>3, <1>13 DEF WaitRelock, Goto, At, User, Counted, Waiting,
       LastInv, LastOnes, vars, threadVars, childVars, waitVars, lockVars
<1>14. CASE WaitReap(t)
  BY <1>1, <1>2, <1>3, <1>14 DEF WaitReap, Goto, At, Counted, Waiting,
       LastInv, LastOnes
<1>15. CASE WaitBadStatus(t)
  BY <1>1, <1>2, <1>3, <1>15 DEF WaitBadStatus, Goto, At, User, Counted,
       Waiting, LastInv, LastOnes, vars, threadVars, childVars, waitVars,
       lockVars
<1>16. CASE WaitFree(t)
  BY <1>1, <1>2, <1>3, <1>16 DEF WaitFree, Goto, At, User, Counted, Waiting,
       LastInv, LastOnes, vars, threadVars, childVars, waitVars, lockVars
<1>17. CASE Vanish(t)
  BY <1>1, <1>2, <1>3, <1>17 DEF Vanish, Goto, At, User, Counted, Waiting,
       LastInv, LastOnes, vars, threadVars, childVars, waitVars, lockVars
<1>18. CASE ExitLeave(t)
  <2>1. /\ pc[t] = "exit" /\ pc' = [pc EXCEPT ![t] = "exit_left"] /\ UNCHANGED proc
        /\ refcount' = [refcount EXCEPT ![proc[t]] = @ - 1]
    BY <1>18 DEF ExitLeave, At, Goto
  <2>2. \A u \in THREADS : pc[u] \in LastOnes => proc[u] # proc[t]
    BY <1>2, <2>1 DEF LastInv, LastOnes
  <2> QED
    BY <1>1, <1>2, <1>3, <2>1, <2>2 DEF Counted, Waiting, LastInv, LastOnes
<1>19. CASE ExitLast(t)
  <2>1. /\ pc[t] = "exit_left" /\ UNCHANGED <<proc, refcount>>
        /\ pc' = [pc EXCEPT ![t] = IF refcount[proc[t]] = 0 THEN "orphan" ELSE "die"]
    BY <1>19 DEF ExitLast, At, Goto
  <2>2. \A u \in THREADS : proc[u] = proc[t] /\ u # t => pc[u] # "exit_left"
    BY <1>1, <1>4, <2>1 DEF RefLockInv
  <2>3. \A u \in THREADS : proc[u] = proc[t] => pc[u] \notin LastOnes
    BY <1>2, <2>1 DEF LastInv, LastOnes
  <2>4. refcount[proc[t]] = 0 =>
          \A u \in THREADS : proc[u] = proc[t] => pc[u] \in {"exit_left", "die", "dead"}
    BY <1>1, <1>3, <2>1, <2>3 DEF PIInv, ThreadInv, Counted, Waiting,
       LastOnes, Labels
  <2> QED
    BY <1>1, <1>2, <1>3, <2>1, <2>2, <2>3, <2>4 DEF Counted, Waiting, LastInv,
       LastOnes
<1>20. CASE OrphanLock(t)
  BY <1>1, <1>2, <1>3, <1>20 DEF OrphanLock, Goto, At, User, Counted, Waiting,
       LastInv, LastOnes, vars, threadVars, childVars, waitVars, lockVars
<1>21. CASE OrphanLockInit(t)
  BY <1>1, <1>2, <1>3, <1>21 DEF OrphanLockInit, Goto, At, User, Counted,
       Waiting, LastInv, LastOnes, vars, threadVars, childVars, waitVars,
       lockVars
<1>22. CASE OrphanMove(t)
  <2>1. /\ pc'[t] = "die_last"
        /\ \A u \in THREADS \ {t} :
             \/ pc'[u] = pc[u]
             \/ pc[u] = "asleep" /\ proc[u] = init /\ pc'[u] = "wait_lock"
    BY <1>22, OrphanMoveWakes
  <2>2. /\ proc[t] \in PROCS \ {init} /\ pc[t] = "orphan_move"
        /\ parent' = [q \in PROCS |-> IF q \in live[proc[t]] \cup Range(dead[proc[t]])
                                      THEN init ELSE parent[q]]
        /\ UNCHANGED <<proc, refcount>>
    BY <1>22, OrphanMoveEffect
  <2> QED
    BY <1>1, <1>2, <1>3, <2>1, <2>2 DEF Counted, Waiting, LastInv, LastOnes
<1>23. CASE DieLock(t)
  BY <1>1, <1>2, <1>3, <1>23, DieLockEffect DEF LastInv, LastOnes
<1>24. CASE Report(t)
  <2>1. /\ pc'[t] = "dead"
        /\ \A u \in THREADS \ {t} :
             \/ pc'[u] = pc[u]
             \/ pc[u] = "asleep" /\ proc[u] = parent[proc[t]] /\ pc'[u] = "wait_lock"
    BY <1>24, ReportWakes
  <2>2. /\ proc[t] \in PROCS \ {init} /\ pc[t] = "report"
        /\ parent[proc[t]] \in PROCS \ {proc[t]}
        /\ arg' = [arg EXCEPT ![t] = None]
        /\ UNCHANGED <<proc, refcount>>
    BY <1>24, ReportEffect
  <2> QED
    BY <1>1, <1>2, <1>3, <2>1, <2>2 DEF Counted, Waiting, LastInv, LastOnes
<1>25. CASE Cleanup(t)
  BY <1>1, <1>2, <1>3, <1>25 DEF Cleanup, Goto, At, User, Counted, Waiting,
       LastInv, LastOnes, vars, threadVars, childVars, waitVars, lockVars
<1> QED
    BY <1>5, <1>6, <1>7, <1>8, <1>9, <1>10, <1>11, <1>12, <1>13, <1>14, <1>15,
     <1>16, <1>17, <1>18, <1>19, <1>20, <1>21, <1>22, <1>23, <1>24, <1>25 DEF
     Call, Step


\* refcount_lock and malloc_lock are held where the labels say.
LEMMA RefLockStep ==
  ASSUME PIInv, Careful, NEW t \in THREADS, Call(t) \/ Step(t)
  PROVE  RefLockInv'
<1>1. /\ proc \in [THREADS -> PROCS \cup {None}] /\ pc \in [THREADS -> Labels]
      /\ arg \in [THREADS -> PROCS \cup THREADS \cup {None}]
      /\ parent \in [PROCS -> PROCS \cup {None}] /\ init \in PROCS
      /\ None \notin PROCS \cup THREADS
      /\ \A u \in THREADS : pc[u] \notin {"unused", "gone"} => proc[u] \in PROCS
  BY ProcAssumption DEF PIInv, PTypeOK, ThreadInv
<1>2. RefLockInv
  BY DEF PIInv
<1>3. /\ refOwner \in [PROCS -> THREADS \cup {None}] /\ heapOwner \in THREADS
       \cup {None}
  BY DEF PIInv, PTypeOK
<1>4. CASE Exec(t) \/ Respawn(t)
  <2>1. PICK q \in FreshProcs, u \in FreshThreads :
          LET p == proc[t] IN
          /\ p \in PROCS /\ pc[t] = "user" /\ t # u /\ p # q
          /\ \A v \in THREADS : proc[v] = p => v = t
          /\ proc' = [proc EXCEPT ![t] = q, ![u] = p]
          /\ pc' = [pc EXCEPT ![t] = "exit", ![u] = "user"]
          /\ UNCHANGED <<refOwner, heapOwner>>
    BY <1>4, SwapEffect DEF childVars, waitVars, lockVars
  <2>2. /\ q \in PROCS \ {init} /\ u \in THREADS /\ pc[u] = "unused" /\ proc[u] = None
        /\ arg[u] = None /\ parent[q] = None /\ q \notin freed /\ ~Listed(q)
        /\ \A v \in THREADS : proc[v] # q /\ arg[v] # q
        /\ \A v \in THREADS : pc[v] = "fork_add" => arg[v] # u
    BY FreshFacts
  <2> QED
    BY <1>1, <1>2, <1>3, <2>1, <2>2 DEF RefLockInv
<1>5. CASE Fork(t)
  <2>1. PICK q \in FreshProcs, u \in FreshThreads :
          LET p == proc[t] IN
          /\ p \in PROCS /\ pc[t] = "user" /\ t # u /\ p # q
          /\ proc' = [proc EXCEPT ![u] = q] /\ parent' = [parent EXCEPT ![q] = p]
          /\ arg' = [arg EXCEPT ![t] = u]
          /\ pc' = [pc EXCEPT ![t] = "fork_add", ![u] = "new"]
          /\ UNCHANGED <<refOwner, heapOwner>>
    BY <1>5, ForkEffect DEF childVars, waitVars, lockVars
  <2>2. /\ q \in PROCS \ {init} /\ u \in THREADS /\ pc[u] = "unused" /\ proc[u] = None
        /\ arg[u] = None /\ parent[q] = None /\ q \notin freed /\ ~Listed(q)
        /\ \A v \in THREADS : proc[v] # q /\ arg[v] # q
        /\ \A v \in THREADS : pc[v] = "fork_add" => arg[v] # u
    BY FreshFacts
  <2> QED
    BY <1>1, <1>2, <1>3, <2>1, <2>2 DEF RefLockInv
<1>6. CASE ForkAdd(t)
  BY <1>1, <1>2, <1>3, <1>6, ForkAddEffect DEF lockVars, RefLockInv
<1>7. CASE ThreadFork(t)
  <2>1. PICK u \in FreshThreads :
          LET p == proc[t] IN
          /\ p \in PROCS \ {init} /\ pc[t] = "user" /\ t # u
          /\ "thread_fork" \in Calls[p] /\ parent[p] # None
          /\ proc' = [proc EXCEPT ![u] = p] /\ pc' = [pc EXCEPT ![u] = "user"]
          /\ UNCHANGED <<refOwner, heapOwner>>
    BY <1>7, ThreadForkEffect DEF childVars, waitVars, lockVars
  <2>2. u \in THREADS /\ pc[u] = "unused"
    BY DEF FreshThreads
  <2>3. proc[u] = None /\ arg[u] = None
    BY <2>2 DEF PIInv, ThreadInv
  <2> QED
    BY <1>1, <1>2, <1>3, <2>1, <2>2, <2>3 DEF RefLockInv
<1>8. CASE WaitNoChild(t)
  BY <1>1, <1>2, <1>3, <1>8 DEF WaitNoChild, Goto, At, User, RefLockInv, vars,
       threadVars, childVars, waitVars, lockVars
<1>9. CASE Wait(t)
  BY <1>1, <1>2, <1>3, <1>9 DEF Wait, Goto, At, User, RefLockInv, vars,
       threadVars, childVars, waitVars, lockVars
<1>10. CASE WaitEmpty(t)
  BY <1>1, <1>2, <1>3, <1>10 DEF WaitEmpty, Goto, At, User, RefLockInv, vars,
       threadVars, childVars, waitVars, lockVars
<1>11. CASE WaitSleep(t)
  BY <1>1, <1>2, <1>3, <1>11 DEF WaitSleep, Goto, At, User, RefLockInv, vars,
       threadVars, childVars, waitVars, lockVars
<1>12. CASE WaitRelock(t)
  BY <1>1, <1>2, <1>3, <1>12 DEF WaitRelock, Goto, At, User, RefLockInv, vars,
       threadVars, childVars, waitVars, lockVars
<1>13. CASE WaitReap(t)
  BY <1>1, <1>2, <1>3, <1>13 DEF WaitReap, Goto, At, RefLockInv
<1>14. CASE WaitBadStatus(t)
  BY <1>1, <1>2, <1>3, <1>14 DEF WaitBadStatus, Goto, At, User, RefLockInv,
       vars, threadVars, childVars, waitVars, lockVars
<1>15. CASE WaitFree(t)
  BY <1>1, <1>2, <1>3, <1>15 DEF WaitFree, Goto, At, User, RefLockInv, vars,
       threadVars, childVars, waitVars, lockVars
<1>16. CASE Vanish(t)
  BY <1>1, <1>2, <1>3, <1>16 DEF Vanish, Goto, At, User, RefLockInv, vars,
       threadVars, childVars, waitVars, lockVars
<1>17. CASE ExitLeave(t)
  BY <1>1, <1>2, <1>3, <1>17 DEF ExitLeave, Goto, At, User, RefLockInv, vars,
       threadVars, childVars, waitVars, lockVars
<1>18. CASE ExitLast(t)
  BY <1>1, <1>2, <1>3, <1>18 DEF ExitLast, Goto, At, User, RefLockInv, vars,
       threadVars, childVars, waitVars, lockVars
<1>19. CASE OrphanLock(t)
  BY <1>1, <1>2, <1>3, <1>19 DEF OrphanLock, Goto, At, User, RefLockInv, vars,
       threadVars, childVars, waitVars, lockVars
<1>20. CASE OrphanLockInit(t)
  BY <1>1, <1>2, <1>3, <1>20 DEF OrphanLockInit, Goto, At, User, RefLockInv,
       vars, threadVars, childVars, waitVars, lockVars
<1>21. CASE OrphanMove(t)
  <2>1. /\ pc'[t] = "die_last"
        /\ \A u \in THREADS \ {t} :
             \/ pc'[u] = pc[u]
             \/ pc[u] = "asleep" /\ proc[u] = init /\ pc'[u] = "wait_lock"
    BY <1>21, OrphanMoveWakes
  <2>2. /\ proc[t] \in PROCS \ {init} /\ pc[t] = "orphan_move"
        /\ parent' = [q \in PROCS |-> IF q \in live[proc[t]] \cup Range(dead[proc[t]])
                                      THEN init ELSE parent[q]]
        /\ UNCHANGED <<proc, refOwner, heapOwner>>
    BY <1>21, OrphanMoveEffect
  <2> QED
    BY <1>1, <1>2, <1>3, <2>1, <2>2 DEF RefLockInv
<1>22. CASE DieLock(t)
  <2>1. /\ proc[t] \in PROCS \ {init} /\ heapOwner = None /\ heapOwner' = t
        /\ \/ pc[t] = "die" /\ pc' = [pc EXCEPT ![t] = "dead"]
           \/ pc[t] = "die_last" /\ pc' = [pc EXCEPT ![t] = "dead"]
           \/ pc[t] = "die_last" /\ pc' = [pc EXCEPT ![t] = "report"]
        /\ UNCHANGED <<proc, refOwner>>
    BY <1>1, <1>22, DieLockEffect DEF childVars, waitVars
  <2> QED
    BY <1>1, <1>2, <1>3, <2>1 DEF RefLockInv
<1>23. CASE Report(t)
  <2>1. /\ pc'[t] = "dead"
        /\ \A u \in THREADS \ {t} :
             \/ pc'[u] = pc[u]
             \/ pc[u] = "asleep" /\ proc[u] = parent[proc[t]] /\ pc'[u] = "wait_lock"
    BY <1>23, ReportWakes
  <2>2. /\ proc[t] \in PROCS \ {init} /\ pc[t] = "report"
        /\ parent[proc[t]] \in PROCS \ {proc[t]}
        /\ arg' = [arg EXCEPT ![t] = None]
        /\ UNCHANGED <<proc, refOwner, heapOwner>>
    BY <1>23, ReportEffect
  <2> QED
    BY <1>1, <1>2, <1>3, <2>1, <2>2 DEF RefLockInv
<1>24. CASE Cleanup(t)
  BY <1>1, <1>2, <1>3, <1>24 DEF Cleanup, Goto, At, User, RefLockInv, vars,
       threadVars, childVars, waitVars, lockVars
<1> QED
    BY <1>4, <1>5, <1>6, <1>7, <1>8, <1>9, <1>10, <1>11, <1>12, <1>13, <1>14,
     <1>15, <1>16, <1>17, <1>18, <1>19, <1>20, <1>21, <1>22, <1>23, <1>24 DEF
     Call, Step

\* wait_lock is held where the labels say, but for a lock somebody else released.
LEMMA WaitLockStep ==
  ASSUME PIInv, Careful, NEW t \in THREADS, Call(t) \/ Step(t)
  PROVE  WaitLockInv'
<1>1. /\ proc \in [THREADS -> PROCS \cup {None}] /\ pc \in [THREADS -> Labels]
      /\ arg \in [THREADS -> PROCS \cup THREADS \cup {None}]
      /\ parent \in [PROCS -> PROCS \cup {None}] /\ init \in PROCS
      /\ None \notin PROCS \cup THREADS
      /\ \A u \in THREADS : pc[u] \notin {"unused", "gone"} => proc[u] \in PROCS
  BY ProcAssumption DEF PIInv, PTypeOK, ThreadInv
<1>2. WaitLockInv
  BY DEF PIInv
<1>3. waitOwner \in [PROCS -> THREADS \cup {None}] /\ strays \in SUBSET PROCS
  BY DEF PIInv, PTypeOK
<1>4. CASE Exec(t) \/ Respawn(t)
  <2>1. PICK q \in FreshProcs, u \in FreshThreads :
          LET p == proc[t] IN
          /\ p \in PROCS /\ pc[t] = "user" /\ t # u /\ p # q
          /\ \A v \in THREADS : proc[v] = p => v = t
          /\ proc' = [proc EXCEPT ![t] = q, ![u] = p]
          /\ pc' = [pc EXCEPT ![t] = "exit", ![u] = "user"]
          /\ UNCHANGED <<waitOwner, strays>>
    BY <1>4, SwapEffect DEF childVars, waitVars, lockVars
  <2>2. /\ q \in PROCS \ {init} /\ u \in THREADS /\ pc[u] = "unused" /\ proc[u] = None
        /\ arg[u] = None /\ parent[q] = None /\ q \notin freed /\ ~Listed(q)
        /\ \A v \in THREADS : proc[v] # q /\ arg[v] # q
        /\ \A v \in THREADS : pc[v] = "fork_add" => arg[v] # u
    BY FreshFacts
  <2> QED
    BY <1>1, <1>2, <1>3, <2>1, <2>2 DEF WaitLockInv, Locking
<1>5. CASE Fork(t)
  <2>1. PICK q \in FreshProcs, u \in FreshThreads :
          LET p == proc[t] IN
          /\ p \in PROCS /\ pc[t] = "user" /\ t # u /\ p # q
          /\ proc' = [proc EXCEPT ![u] = q] /\ parent' = [parent EXCEPT ![q] = p]
          /\ arg' = [arg EXCEPT ![t] = u]
          /\ pc' = [pc EXCEPT ![t] = "fork_add", ![u] = "new"]
          /\ UNCHANGED <<waitOwner, strays>>
    BY <1>5, ForkEffect DEF childVars, waitVars, lockVars
  <2>2. /\ q \in PROCS \ {init} /\ u \in THREADS /\ pc[u] = "unused" /\ proc[u] = None
        /\ arg[u] = None /\ parent[q] = None /\ q \notin freed /\ ~Listed(q)
        /\ \A v \in THREADS : proc[v] # q /\ arg[v] # q
        /\ \A v \in THREADS : pc[v] = "fork_add" => arg[v] # u
    BY FreshFacts
  <2> QED
    BY <1>1, <1>2, <1>3, <2>1, <2>2 DEF WaitLockInv, Locking
<1>6. CASE ForkAdd(t)
  BY <1>1, <1>2, <1>3, <1>6, ForkAddEffect DEF lockVars, WaitLockInv, Locking
<1>7. CASE ThreadFork(t)
  <2>1. PICK u \in FreshThreads :
          LET p == proc[t] IN
          /\ p \in PROCS \ {init} /\ pc[t] = "user" /\ t # u
          /\ "thread_fork" \in Calls[p] /\ parent[p] # None
          /\ proc' = [proc EXCEPT ![u] = p] /\ pc' = [pc EXCEPT ![u] = "user"]
          /\ UNCHANGED <<waitOwner, strays>>
    BY <1>7, ThreadForkEffect DEF childVars, waitVars, lockVars
  <2>2. u \in THREADS /\ pc[u] = "unused"
    BY DEF FreshThreads
  <2>3. proc[u] = None /\ arg[u] = None
    BY <2>2 DEF PIInv, ThreadInv
  <2> QED
    BY <1>1, <1>2, <1>3, <2>1, <2>2, <2>3 DEF WaitLockInv, Locking
<1>8. CASE WaitNoChild(t)
  BY <1>1, <1>2, <1>3, <1>8 DEF WaitNoChild, Goto, At, User, WaitLockInv,
       Locking, vars, threadVars, childVars, waitVars, lockVars
<1>9. CASE Wait(t)
  BY <1>1, <1>2, <1>3, <1>9 DEF Wait, Goto, At, User, WaitLockInv, Locking,
       vars, threadVars, childVars, waitVars, lockVars
<1>10. CASE WaitEmpty(t)
  BY <1>1, <1>2, <1>3, <1>10 DEF WaitEmpty, Goto, At, User, WaitLockInv,
       Locking, vars, threadVars, childVars, waitVars, lockVars
<1>11. CASE WaitSleep(t)
  BY <1>1, <1>2, <1>3, <1>11 DEF WaitSleep, Goto, At, User, WaitLockInv,
       Locking, vars, threadVars, childVars, waitVars, lockVars
<1>12. CASE WaitRelock(t)
  BY <1>1, <1>2, <1>3, <1>12 DEF WaitRelock, Goto, At, User, WaitLockInv,
       Locking, vars, threadVars, childVars, waitVars, lockVars
<1>13. CASE WaitReap(t)
  BY <1>1, <1>2, <1>3, <1>13 DEF WaitReap, Goto, At, WaitLockInv, Locking
<1>14. CASE WaitBadStatus(t)
  BY <1>1, <1>2, <1>3, <1>14 DEF WaitBadStatus, Goto, At, User, WaitLockInv,
       Locking, vars, threadVars, childVars, waitVars, lockVars
<1>15. CASE WaitFree(t)
  BY <1>1, <1>2, <1>3, <1>15 DEF WaitFree, Goto, At, User, WaitLockInv,
       Locking, vars, threadVars, childVars, waitVars, lockVars
<1>16. CASE Vanish(t)
  BY <1>1, <1>2, <1>3, <1>16 DEF Vanish, Goto, At, User, WaitLockInv, Locking,
       vars, threadVars, childVars, waitVars, lockVars
<1>17. CASE ExitLeave(t)
  BY <1>1, <1>2, <1>3, <1>17 DEF ExitLeave, Goto, At, User, WaitLockInv,
       Locking, vars, threadVars, childVars, waitVars, lockVars
<1>18. CASE ExitLast(t)
  BY <1>1, <1>2, <1>3, <1>18 DEF ExitLast, Goto, At, User, WaitLockInv,
       Locking, vars, threadVars, childVars, waitVars, lockVars
<1>19. CASE OrphanLock(t)
  BY <1>1, <1>2, <1>3, <1>19 DEF OrphanLock, Goto, At, User, WaitLockInv,
       Locking, vars, threadVars, childVars, waitVars, lockVars
<1>20. CASE OrphanLockInit(t)
  BY <1>1, <1>2, <1>3, <1>20 DEF OrphanLockInit, Goto, At, User, WaitLockInv,
       Locking, vars, threadVars, childVars, waitVars, lockVars
<1>21. CASE OrphanMove(t)
  <2>1. /\ pc'[t] = "die_last"
        /\ \A u \in THREADS \ {t} :
             \/ pc'[u] = pc[u]
             \/ pc[u] = "asleep" /\ proc[u] = init /\ pc'[u] = "wait_lock"
    BY <1>21, OrphanMoveWakes
  <2>2. /\ proc[t] \in PROCS \ {init} /\ pc[t] = "orphan_move"
        /\ parent' = [q \in PROCS |-> IF q \in live[proc[t]] \cup Range(dead[proc[t]])
                                      THEN init ELSE parent[q]]
        /\ UNCHANGED <<proc, strays>>
    BY <1>21, OrphanMoveEffect
  <2>3. waitOwner' = [waitOwner EXCEPT ![proc[t]] = None, ![init] = None]
    BY <1>21, OrphanMoveEffect
  <2> QED
    BY <1>1, <1>2, <1>3, <2>1, <2>2, <2>3 DEF WaitLockInv, Locking
<1>22. CASE DieLock(t)
  <2>1. /\ proc[t] \in PROCS \ {init} /\ heapOwner = None /\ heapOwner' = t
        /\ \/ pc[t] = "die" /\ pc' = [pc EXCEPT ![t] = "dead"]
           \/ pc[t] = "die_last" /\ pc' = [pc EXCEPT ![t] = "dead"]
           \/ pc[t] = "die_last" /\ pc' = [pc EXCEPT ![t] = "report"]
        /\ UNCHANGED <<proc, waitOwner, strays>>
    BY <1>1, <1>22, DieLockEffect DEF childVars, waitVars
  <2> QED
    BY <1>1, <1>2, <1>3, <2>1 DEF WaitLockInv, Locking
<1>23. CASE Report(t)
  <2>1. /\ pc'[t] = "dead"
        /\ \A u \in THREADS \ {t} :
             \/ pc'[u] = pc[u]
             \/ pc[u] = "asleep" /\ proc[u] = parent[proc[t]] /\ pc'[u] = "wait_lock"
    BY <1>23, ReportWakes
  <2>2. /\ proc[t] \in PROCS \ {init} /\ pc[t] = "report"
        /\ parent[proc[t]] \in PROCS \ {proc[t]}
        /\ arg' = [arg EXCEPT ![t] = None]
        /\ UNCHANGED <<proc>>
    BY <1>23, ReportEffect
  <2>3. /\ arg[t] \in PROCS /\ parent[proc[t]] \in {arg[t], init} /\ waitOwner[arg[t]] = None
        /\ waitOwner' = [q \in PROCS |-> CASE q = parent[proc[t]] -> None
                                           [] q = arg[t] /\ q # parent[proc[t]] -> t
                                           [] OTHER -> waitOwner[q]]
        /\ strays' = IF parent[proc[t]] = arg[t] THEN strays ELSE strays \cup {parent[proc[t]]}
    BY <1>23, ReportEffect
  <2>4. CASE parent[proc[t]] = arg[t]
    BY <1>1, <1>2, <1>3, <2>1, <2>2, <2>3, <2>4 DEF WaitLockInv, Locking
  <2>5. CASE parent[proc[t]] # arg[t]
    BY <1>1, <1>2, <1>3, <2>1, <2>2, <2>3, <2>5 DEF WaitLockInv, Locking
  <2> QED
    BY <2>4, <2>5
<1>24. CASE Cleanup(t)
  BY <1>1, <1>2, <1>3, <1>24 DEF Cleanup, Goto, At, User, WaitLockInv,
       Locking, vars, threadVars, childVars, waitVars, lockVars
<1> QED
    BY <1>4, <1>5, <1>6, <1>7, <1>8, <1>9, <1>10, <1>11, <1>12, <1>13, <1>14,
     <1>15, <1>16, <1>17, <1>18, <1>19, <1>20, <1>21, <1>22, <1>23, <1>24 DEF
     Call, Step


\* What is in live_childs stays a child of that process, and in one list.
LEMMA LiveStep ==
  ASSUME PIInv, Careful, NEW t \in THREADS, Call(t) \/ Step(t)
  PROVE  LiveInv'
<1>1. /\ proc \in [THREADS -> PROCS \cup {None}] /\ pc \in [THREADS -> Labels]
      /\ arg \in [THREADS -> PROCS \cup THREADS \cup {None}]
      /\ parent \in [PROCS -> PROCS \cup {None}] /\ init \in PROCS
      /\ None \notin PROCS \cup THREADS
      /\ \A u \in THREADS : pc[u] \notin {"unused", "gone"} => proc[u] \in PROCS
  BY ProcAssumption DEF PIInv, PTypeOK, ThreadInv
<1>2. LiveInv
  BY DEF PIInv

<1>3. /\ live \in [PROCS -> SUBSET PROCS] /\ dead \in [PROCS -> Seq(PROCS)]
      /\ \A r \in PROCS : Range(dead[r]) \subseteq PROCS
      /\ Range(<<>>) = {}
  BY DEF PIInv, PTypeOK, Range
<1>4. CASE Quiet(t)
  BY <1>1, <1>2, <1>3, <1>4, QuietEffect DEF LiveInv
<1>5. CASE Fork(t)
  <2>1. PICK q \in FreshProcs, u \in FreshThreads :
          LET p == proc[t] IN
          /\ p \in PROCS /\ pc[t] = "user" /\ t # u /\ p # q
          /\ proc' = [proc EXCEPT ![u] = q] /\ parent' = [parent EXCEPT ![q] = p]
          /\ arg' = [arg EXCEPT ![t] = u]
          /\ pc' = [pc EXCEPT ![t] = "fork_add", ![u] = "new"]
          /\ UNCHANGED <<live, dead, freed>>
    BY <1>5, ForkEffect DEF childVars, waitVars, lockVars
  <2>2. /\ q \in PROCS \ {init} /\ u \in THREADS /\ pc[u] = "unused" /\ proc[u] = None
        /\ arg[u] = None /\ parent[q] = None /\ q \notin freed /\ ~Listed(q)
        /\ \A v \in THREADS : proc[v] # q /\ arg[v] # q
        /\ \A v \in THREADS : pc[v] = "fork_add" => arg[v] # u
    BY FreshFacts
  <2> QED
    BY <1>1, <1>2, <1>3, <2>1, <2>2 DEF LiveInv
<1>6. CASE ForkAdd(t)
  <2>1. /\ arg[t] \in THREADS /\ t # arg[t] /\ pc[t] = "fork_add" /\ pc[arg[t]] = "new"
        /\ parent[proc[arg[t]]] = proc[t] /\ ~Listed(proc[arg[t]]) /\ proc[arg[t]] \notin freed
        /\ \A v \in THREADS : proc[v] = proc[arg[t]] => v = arg[t]
        /\ proc[t] \in PROCS /\ proc[arg[t]] \in PROCS
        /\ live' = [live EXCEPT ![proc[t]] = @ \cup {proc[arg[t]]}]
        /\ pc' = [pc EXCEPT ![t] = "user", ![arg[t]] = "user"]
        /\ arg' = [arg EXCEPT ![t] = None]
        /\ UNCHANGED <<proc, parent, dead, freed>>
    BY <1>6, ForkAddEffect
  <2>2. PICK p \in PROCS, q \in PROCS, u \in THREADS : p = proc[t] /\ u = arg[t] /\ q = proc[u]
    BY <2>1
  <2> QED
    BY <1>1, <1>2, <1>3, <2>1, <2>2 DEF Listed, LiveInv
<1>7. CASE ThreadFork(t)
  <2>1. PICK u \in FreshThreads :
          LET p == proc[t] IN
          /\ p \in PROCS \ {init} /\ pc[t] = "user" /\ t # u
          /\ "thread_fork" \in Calls[p] /\ parent[p] # None
          /\ proc' = [proc EXCEPT ![u] = p] /\ pc' = [pc EXCEPT ![u] = "user"]
          /\ UNCHANGED <<arg, parent, live, dead, freed>>
    BY <1>7, ThreadForkEffect DEF childVars, waitVars, lockVars
  <2>2. u \in THREADS /\ pc[u] = "unused"
    BY DEF FreshThreads
  <2>3. proc[u] = None /\ arg[u] = None
    BY <2>2 DEF PIInv, ThreadInv
  <2> QED
    BY <1>1, <1>2, <1>3, <2>1, <2>2, <2>3 DEF LiveInv
<1>8. CASE Exec(t) \/ Respawn(t)
  <2>1. PICK q \in FreshProcs, u \in FreshThreads :
          LET p == proc[t] IN
          /\ p \in PROCS /\ pc[t] = "user" /\ t # u /\ p # q
          /\ \A v \in THREADS : proc[v] = p => v = t
          /\ proc' = [proc EXCEPT ![t] = q, ![u] = p]
          /\ pc' = [pc EXCEPT ![t] = "exit", ![u] = "user"]
          /\ UNCHANGED <<arg, parent, live>>
    BY <1>8, SwapEffect DEF childVars, waitVars, lockVars
  <2>2. /\ q \in PROCS \ {init} /\ u \in THREADS /\ pc[u] = "unused" /\ proc[u] = None
        /\ arg[u] = None /\ parent[q] = None /\ q \notin freed /\ ~Listed(q)
        /\ \A v \in THREADS : proc[v] # q /\ arg[v] # q
        /\ \A v \in THREADS : pc[v] = "fork_add" => arg[v] # u
    BY FreshFacts
  <2>3. \/ UNCHANGED <<dead, freed>>
        \/ dead' = [dead EXCEPT ![init] = <<>>] /\ freed' = freed \cup Range(dead[init])
    BY <1>8, SwapEffect DEF childVars
  <2>4. \A x \in PROCS : Range(dead'[x]) \subseteq Range(dead[x])
    BY <1>1, <1>3, <2>3
  <2>5. ASSUME NEW r \in PROCS, NEW v \in live[r]
        PROVE  v \notin freed' /\ \A x \in PROCS : v \notin Range(dead'[x])
    <3>1. v \in PROCS /\ v \notin freed /\ \A x \in PROCS : v \notin Range(dead[x])
      BY <1>2, <1>3 DEF LiveInv
    <3> QED
      BY <1>1, <2>3, <2>4, <3>1
  <2> QED
    BY <1>2, <2>1, <2>5 DEF LiveInv
<1>9. CASE WaitReap(t)
  <2>1. /\ pc[t] = "wait_test" /\ proc[t] \in PROCS /\ pc' = [pc EXCEPT ![t] = "wait_free"]
        /\ Head(dead[proc[t]]) \in PROCS
        /\ arg' = [arg EXCEPT ![t] = Head(dead[proc[t]])]
        /\ UNCHANGED <<proc, parent, live, freed>>
        /\ Range(dead[proc[t]]) = {Head(dead[proc[t]])} \cup Range(Tail(dead[proc[t]]))
        /\ dead' = [dead EXCEPT ![proc[t]] = Tail(@)]
    BY <1>9, WaitReapEffect
  <2>2. PICK p \in PROCS, q \in PROCS : p = proc[t] /\ q = Head(dead[p])
    BY <2>1
  <2>3. \A r \in PROCS : Range(dead'[r]) \subseteq Range(dead[r])
    BY <1>3, <2>1
  <2> QED
    BY <1>1, <1>2, <1>3, <2>1, <2>2, <2>3 DEF LiveInv
<1>10. CASE WaitFree(t)
  <2>1. /\ pc[t] = "wait_free" /\ pc' = [pc EXCEPT ![t] = "user"] /\ heapOwner = None
        /\ arg' = [arg EXCEPT ![t] = None] /\ freed' = freed \cup {arg[t]}
        /\ UNCHANGED <<proc, parent, live, dead>>
    BY <1>10 DEF Listed, WaitFree, At, Goto, childVars
  <2>2. /\ arg[t] \in PROCS \ freed /\ parent[arg[t]] # None /\ Over(arg[t]) /\ ~Listed(arg[t])
        /\ \A u \in THREADS : pc[u] = "wait_free" /\ arg[u] = arg[t] => u = t
    BY <2>1 DEF Listed, PIInv, TakenInv
  <2> QED
    BY <1>1, <1>2, <1>3, <2>1, <2>2 DEF Listed, LiveInv
<1>11. CASE OrphanMove(t)
  <2>1. /\ pc'[t] = "die_last"
        /\ \A u \in THREADS \ {t} :
             \/ pc'[u] = pc[u]
             \/ pc[u] = "asleep" /\ proc[u] = init /\ pc'[u] = "wait_lock"
    BY <1>11, OrphanMoveWakes
  <2>2. /\ proc[t] \in PROCS \ {init} /\ pc[t] = "orphan_move"
        /\ parent' = [q \in PROCS |-> IF q \in live[proc[t]] \cup Range(dead[proc[t]])
                                      THEN init ELSE parent[q]]
        /\ UNCHANGED <<proc, arg, freed>>
    BY <1>11, OrphanMoveEffect
  <2>3. /\ \A v \in THREADS : proc[v] = proc[t] /\ v # t => pc[v] \in {"die", "dead"}
        /\ live' = [live EXCEPT ![init] = @ \cup live[proc[t]], ![proc[t]] = {}]
        /\ dead'[proc[t]] = <<>>
        /\ Range(dead'[init]) = Range(dead[init]) \cup Range(dead[proc[t]])
        /\ \A i, j \in DOMAIN dead'[init] : dead'[init][i] = dead'[init][j] => i = j
        /\ \A q \in PROCS \ {proc[t], init} : dead'[q] = dead[q]
    BY <1>11, OrphanMoveEffect
  <2>4. PICK p \in PROCS \ {init} : p = proc[t]
    BY <2>2
  <2>5. /\ live'[init] = live[init] \cup live[p] /\ live'[p] = {} /\ Range(dead'[p]) = {}
        /\ \A r \in PROCS \ {p, init} : live'[r] = live[r] /\ Range(dead'[r]) = Range(dead[r])
        /\ Range(dead'[init]) = Range(dead[init]) \cup Range(dead[p])
        /\ \A q \in PROCS : parent'[q] = IF q \in live[p] \cup Range(dead[p]) THEN init
                                           ELSE parent[q]
    BY <1>1, <1>3, <2>2, <2>3, <2>4
  <2>6. ASSUME NEW a \in PROCS, NEW r \in PROCS, a \in live'[r]
        PROVE  /\ parent'[a] = r /\ a \notin freed'
               /\ \A x \in PROCS : a \notin Range(dead'[x])
    <3>1. PICK s \in PROCS : a \in live[s] /\ ((s = r /\ r # p) \/ (s = p /\ r = init))
      BY <1>1, <2>4, <2>5, <2>6
    <3>2. parent[a] = s /\ a \notin freed /\ \A x \in PROCS : a \notin Range(dead[x])
      BY <1>2, <3>1 DEF LiveInv
    <3>3. s # p => a \notin live[p]
      BY <1>2, <2>4, <3>1, <3>2 DEF LiveInv
    <3> QED
      BY <1>1, <2>2, <2>4, <2>5, <2>6, <3>1, <3>2, <3>3
  <2> QED
    BY <2>6 DEF LiveInv
<1>12. CASE DieLock(t)
  <2>1. /\ proc[t] \in PROCS \ {init} /\ UNCHANGED <<proc, parent, live, dead>>
        /\ \/ /\ pc[t] = "die" /\ pc' = [pc EXCEPT ![t] = "dead"] /\ UNCHANGED <<arg, freed>>
           \/ /\ pc[t] = "die_last" /\ parent[proc[t]] = None
              /\ pc' = [pc EXCEPT ![t] = "dead"] /\ UNCHANGED arg
              /\ freed' = freed \cup {proc[t]}
           \/ /\ pc[t] = "die_last" /\ pc' = [pc EXCEPT ![t] = "report"]
              /\ parent[proc[t]] \in PROCS
              /\ arg' = [arg EXCEPT ![t] = parent[proc[t]]] /\ UNCHANGED freed
    BY <1>12, DieLockEffect DEF childVars
  <2> QED
    BY <1>1, <1>2, <1>3, <2>1 DEF LiveInv
<1>13. CASE Report(t)
  <2>1. /\ pc'[t] = "dead"
        /\ \A u \in THREADS \ {t} :
             \/ pc'[u] = pc[u]
             \/ pc[u] = "asleep" /\ proc[u] = parent[proc[t]] /\ pc'[u] = "wait_lock"
    BY <1>13, ReportWakes
  <2>2. /\ proc[t] \in PROCS \ {init} /\ pc[t] = "report"
        /\ parent[proc[t]] \in PROCS \ {proc[t]}
        /\ arg' = [arg EXCEPT ![t] = None]
        /\ UNCHANGED <<proc, parent, freed>>
    BY <1>13, ReportEffect
  <2>3. /\ \A v \in THREADS : proc[v] = proc[t] /\ v # t => pc[v] \in {"die", "dead"}
        /\ live' = [live EXCEPT ![parent[proc[t]]] = @ \ {proc[t]}]
        /\ Range(dead'[parent[proc[t]]]) = Range(dead[parent[proc[t]]]) \cup {proc[t]}
        /\ \A i, j \in DOMAIN dead'[parent[proc[t]]] :
             dead'[parent[proc[t]]][i] = dead'[parent[proc[t]]][j] => i = j
        /\ \A q \in PROCS \ {parent[proc[t]]} : dead'[q] = dead[q]
        /\ proc[t] \in live[parent[proc[t]]] /\ proc[t] \notin freed
        /\ \A r \in PROCS : /\ proc[t] \notin Range(dead[r])
                            /\ r # parent[proc[t]] => proc[t] \notin live[r]
    BY <1>13, ReportEffect
  <2>4. PICK to \in PROCS, p \in PROCS : p = proc[t] /\ to = parent[p] /\ to # p
    BY <2>2
  <2>5. /\ live'[to] = live[to] \ {p} /\ Range(dead'[to]) = Range(dead[to]) \cup {p}
        /\ \A r \in PROCS \ {to} : live'[r] = live[r] /\ Range(dead'[r]) = Range(dead[r])
        /\ p \in live[to] /\ p \notin freed
        /\ \A r \in PROCS : p \notin Range(dead[r]) /\ (r # to => p \notin live[r])
    BY <1>3, <2>3, <2>4
  <2>6. ASSUME NEW a \in PROCS, NEW r \in PROCS, a \in live'[r]
        PROVE  /\ parent'[a] = r /\ a \notin freed'
               /\ \A x \in PROCS : a \notin Range(dead'[x])
    <3>1. PICK s \in PROCS : a \in live[s] /\ s = r /\ a # p
      BY <1>1, <2>4, <2>5, <2>6
    <3>2. parent[a] = s /\ a \notin freed /\ \A x \in PROCS : a \notin Range(dead[x])
      BY <1>2, <3>1 DEF LiveInv
    <3>3. s # p => a \notin live[p]
      BY <1>2, <2>4, <3>1, <3>2 DEF LiveInv
    <3> QED
      BY <1>1, <2>2, <2>4, <2>5, <2>6, <3>1, <3>2, <3>3
  <2> QED
    BY <2>6 DEF LiveInv
<1> QED
  BY <1>4, <1>5, <1>6, <1>7, <1>8, <1>9, <1>10, <1>11, <1>12, <1>13 DEF Quiet,
     Call, Step


\* What is in dead_childs is a child of that process, over, and listed once.
LEMMA DeadStep ==
  ASSUME PIInv, Careful, NEW t \in THREADS, Call(t) \/ Step(t)
  PROVE  DeadInv'
<1>1. /\ proc \in [THREADS -> PROCS \cup {None}] /\ pc \in [THREADS -> Labels]
      /\ arg \in [THREADS -> PROCS \cup THREADS \cup {None}]
      /\ parent \in [PROCS -> PROCS \cup {None}] /\ init \in PROCS
      /\ None \notin PROCS \cup THREADS
      /\ \A u \in THREADS : pc[u] \notin {"unused", "gone"} => proc[u] \in PROCS
  BY ProcAssumption DEF PIInv, PTypeOK, ThreadInv
<1>2. DeadInv /\ LiveInv
  BY DEF PIInv

<1>3. /\ live \in [PROCS -> SUBSET PROCS] /\ dead \in [PROCS -> Seq(PROCS)]
      /\ \A r \in PROCS : Range(dead[r]) \subseteq PROCS
      /\ Range(<<>>) = {}
  BY DEF PIInv, PTypeOK, Range
<1>4. \A a, b \in PROCS : a \in Range(dead[b]) => Over(a)'
  <2> SUFFICES ASSUME NEW a \in PROCS, NEW b \in PROCS, a \in Range(dead[b])
               PROVE  Over(a)'
    OBVIOUS
  <2>1. a \notin FreshProcs /\ Over(a)
    BY <1>2 DEF FreshProcs, DeadInv
  <2> QED
    BY <2>1, OverKept
<1>5. CASE Quiet(t)
  BY <1>2, <1>4, <1>5, QuietEffect DEF DeadInv
<1>6. CASE Fork(t)
  <2>1. PICK q \in FreshProcs, u \in FreshThreads :
          LET p == proc[t] IN
          /\ p \in PROCS /\ pc[t] = "user" /\ t # u /\ p # q
          /\ proc' = [proc EXCEPT ![u] = q] /\ parent' = [parent EXCEPT ![q] = p]
          /\ arg' = [arg EXCEPT ![t] = u]
          /\ pc' = [pc EXCEPT ![t] = "fork_add", ![u] = "new"]
          /\ UNCHANGED <<live, dead, freed>>
    BY <1>6, ForkEffect DEF childVars, waitVars, lockVars
  <2>2. /\ q \in PROCS \ {init} /\ u \in THREADS /\ pc[u] = "unused" /\ proc[u] = None
        /\ arg[u] = None /\ parent[q] = None /\ q \notin freed /\ ~Listed(q)
        /\ \A v \in THREADS : proc[v] # q /\ arg[v] # q
        /\ \A v \in THREADS : pc[v] = "fork_add" => arg[v] # u
    BY FreshFacts
  <2> QED
    BY <1>1, <1>2, <1>3, <1>4, <2>1, <2>2 DEF DeadInv, Listed
<1>7. CASE ForkAdd(t)
  <2>1. /\ arg[t] \in THREADS /\ t # arg[t] /\ pc[t] = "fork_add" /\ pc[arg[t]] = "new"
        /\ parent[proc[arg[t]]] = proc[t] /\ ~Listed(proc[arg[t]]) /\ proc[arg[t]] \notin freed
        /\ \A v \in THREADS : proc[v] = proc[arg[t]] => v = arg[t]
        /\ proc[t] \in PROCS /\ proc[arg[t]] \in PROCS
        /\ live' = [live EXCEPT ![proc[t]] = @ \cup {proc[arg[t]]}]
        /\ pc' = [pc EXCEPT ![t] = "user", ![arg[t]] = "user"]
        /\ arg' = [arg EXCEPT ![t] = None]
        /\ UNCHANGED <<proc, parent, dead, freed>>
    BY <1>7, ForkAddEffect
  <2>2. PICK p \in PROCS, q \in PROCS, u \in THREADS : p = proc[t] /\ u = arg[t] /\ q = proc[u]
    BY <2>1
  <2> QED
    BY <1>1, <1>2, <1>3, <1>4, <2>1, <2>2 DEF DeadInv
<1>8. CASE ThreadFork(t)
  <2>1. PICK u \in FreshThreads :
          LET p == proc[t] IN
          /\ p \in PROCS \ {init} /\ pc[t] = "user" /\ t # u
          /\ "thread_fork" \in Calls[p] /\ parent[p] # None
          /\ proc' = [proc EXCEPT ![u] = p] /\ pc' = [pc EXCEPT ![u] = "user"]
          /\ UNCHANGED <<arg, parent, live, dead, freed>>
    BY <1>8, ThreadForkEffect DEF childVars, waitVars, lockVars
  <2>2. u \in THREADS /\ pc[u] = "unused"
    BY DEF FreshThreads
  <2>3. proc[u] = None /\ arg[u] = None
    BY <2>2 DEF PIInv, ThreadInv
  <2> QED
    BY <1>1, <1>2, <1>3, <1>4, <2>1, <2>2, <2>3 DEF DeadInv
<1>9. CASE Exec(t) \/ Respawn(t)
  <2>1. PICK q \in FreshProcs, u \in FreshThreads :
          LET p == proc[t] IN
          /\ p \in PROCS /\ pc[t] = "user" /\ t # u /\ p # q
          /\ \A v \in THREADS : proc[v] = p => v = t
          /\ proc' = [proc EXCEPT ![t] = q, ![u] = p]
          /\ pc' = [pc EXCEPT ![t] = "exit", ![u] = "user"]
          /\ UNCHANGED <<arg, parent, live>>
    BY <1>9, SwapEffect DEF childVars, waitVars, lockVars
  <2>2. /\ q \in PROCS \ {init} /\ u \in THREADS /\ pc[u] = "unused" /\ proc[u] = None
        /\ arg[u] = None /\ parent[q] = None /\ q \notin freed /\ ~Listed(q)
        /\ \A v \in THREADS : proc[v] # q /\ arg[v] # q
        /\ \A v \in THREADS : pc[v] = "fork_add" => arg[v] # u
    BY FreshFacts
  <2>3. \/ UNCHANGED <<dead, freed>>
        \/ dead' = [dead EXCEPT ![init] = <<>>] /\ freed' = freed \cup Range(dead[init])
    BY <1>9, SwapEffect DEF childVars
  <2>4. \A x \in PROCS : dead'[x] = dead[x] \/ dead'[x] = <<>>
    BY <1>1, <1>3, <2>3
  <2>5. ASSUME NEW r \in PROCS, NEW a \in PROCS, a \in Range(dead'[r])
        PROVE  a \in Range(dead[r]) /\ a \notin freed'
    <3>1. a \in Range(dead[r]) /\ dead'[r] = dead[r]
      BY <1>3, <2>4, <2>5
    <3>2. CASE r = init
      BY <1>1, <1>2, <1>3, <2>3, <2>5, <3>1, <3>2 DEF DeadInv
    <3>3. CASE r # init
      <4>1. parent[a] = r /\ a \notin freed
        BY <1>2, <3>1 DEF DeadInv
      <4>2. a \notin Range(dead[init])
        BY <1>1, <1>2, <3>3, <4>1 DEF DeadInv
      <4> QED
        BY <2>3, <3>1, <4>1, <4>2
    <3> QED
      BY <3>2, <3>3
  <2> QED
    BY <1>2, <1>4, <2>1, <2>4, <2>5 DEF DeadInv
<1>10. CASE WaitReap(t)
  <2>1. /\ pc[t] = "wait_test" /\ proc[t] \in PROCS /\ pc' = [pc EXCEPT ![t] = "wait_free"]
        /\ Head(dead[proc[t]]) \in PROCS
        /\ arg' = [arg EXCEPT ![t] = Head(dead[proc[t]])]
        /\ UNCHANGED <<proc, parent, live, freed>>
        /\ Range(dead[proc[t]]) = {Head(dead[proc[t]])} \cup Range(Tail(dead[proc[t]]))
        /\ dead' = [dead EXCEPT ![proc[t]] = Tail(@)]
    BY <1>10, WaitReapEffect
  <2>2. PICK p \in PROCS, q \in PROCS : p = proc[t] /\ q = Head(dead[p])
    BY <2>1
  <2>3. /\ Range(dead'[p]) \subseteq Range(dead[p])
        /\ \A x \in PROCS \ {p} : dead'[x] = dead[x]
    BY <1>3, <2>1, <2>2
  <2>4. \A i, j \in DOMAIN dead'[p] : dead'[p][i] = dead'[p][j] => i = j
    <3>1. dead[p] # <<>> /\ dead'[p] = Tail(dead[p]) /\ dead[p] \in Seq(PROCS)
      BY <1>10, <1>3, <2>1, <2>2 DEF WaitReap
    <3>2. \A i \in DOMAIN dead'[p] : /\ i \in Nat /\ i + 1 \in DOMAIN dead[p]
                                    /\ dead'[p][i] = dead[p][i + 1]
      BY <3>1
    <3>3. \A i, j \in DOMAIN dead[p] : dead[p][i] = dead[p][j] => i = j
      BY <1>2 DEF DeadInv
    <3>4. ASSUME NEW i \in DOMAIN dead'[p], NEW j \in DOMAIN dead'[p], dead'[p][i] = dead'[p][j]
          PROVE  i = j
      <4>1. i + 1 = j + 1 /\ i \in Nat /\ j \in Nat
        BY <3>2, <3>3, <3>4
      <4> QED
        BY <4>1
    <3> QED
      BY <3>4
  <2>5. \A a, r \in PROCS : a \in Range(dead'[r]) => a \in Range(dead[r])
    BY <2>3
  <2>6. \A r \in PROCS : \A i, j \in DOMAIN dead'[r] : dead'[r][i] = dead'[r][j] => i = j
    BY <1>2, <2>3, <2>4 DEF DeadInv
  <2> QED
    BY <1>2, <1>4, <2>1, <2>5, <2>6 DEF DeadInv
<1>11. CASE WaitFree(t)
  <2>1. /\ pc[t] = "wait_free" /\ pc' = [pc EXCEPT ![t] = "user"] /\ heapOwner = None
        /\ arg' = [arg EXCEPT ![t] = None] /\ freed' = freed \cup {arg[t]}
        /\ UNCHANGED <<proc, parent, live, dead>>
    BY <1>11 DEF WaitFree, At, Goto, childVars
  <2>2. /\ arg[t] \in PROCS \ freed /\ parent[arg[t]] # None /\ Over(arg[t]) /\ ~Listed(arg[t])
        /\ \A u \in THREADS : pc[u] = "wait_free" /\ arg[u] = arg[t] => u = t
    BY <2>1 DEF PIInv, TakenInv
  <2> QED
    BY <1>1, <1>2, <1>3, <1>4, <2>1, <2>2 DEF DeadInv, Listed
<1>12. CASE OrphanMove(t)
  <2>1. /\ pc'[t] = "die_last"
        /\ \A u \in THREADS \ {t} :
             \/ pc'[u] = pc[u]
             \/ pc[u] = "asleep" /\ proc[u] = init /\ pc'[u] = "wait_lock"
    BY <1>12, OrphanMoveWakes
  <2>2. /\ proc[t] \in PROCS \ {init} /\ pc[t] = "orphan_move"
        /\ parent' = [q \in PROCS |-> IF q \in live[proc[t]] \cup Range(dead[proc[t]])
                                      THEN init ELSE parent[q]]
        /\ UNCHANGED <<proc, arg, freed>>
    BY <1>12, OrphanMoveEffect
  <2>3. /\ \A v \in THREADS : proc[v] = proc[t] /\ v # t => pc[v] \in {"die", "dead"}
        /\ live' = [live EXCEPT ![init] = @ \cup live[proc[t]], ![proc[t]] = {}]
        /\ dead'[proc[t]] = <<>>
        /\ Range(dead'[init]) = Range(dead[init]) \cup Range(dead[proc[t]])
        /\ \A i, j \in DOMAIN dead'[init] : dead'[init][i] = dead'[init][j] => i = j
        /\ \A q \in PROCS \ {proc[t], init} : dead'[q] = dead[q]
    BY <1>12, OrphanMoveEffect
  <2>4. PICK p \in PROCS \ {init} : p = proc[t]
    BY <2>2
  <2>5. /\ live'[init] = live[init] \cup live[p] /\ live'[p] = {} /\ Range(dead'[p]) = {}
        /\ \A r \in PROCS \ {p, init} : live'[r] = live[r] /\ Range(dead'[r]) = Range(dead[r])
        /\ Range(dead'[init]) = Range(dead[init]) \cup Range(dead[p])
        /\ \A q \in PROCS : parent'[q] = IF q \in live[p] \cup Range(dead[p]) THEN init
                                           ELSE parent[q]
    BY <1>1, <1>3, <2>2, <2>3, <2>4
  <2>6. ASSUME NEW a \in PROCS, NEW r \in PROCS, a \in Range(dead'[r])
        PROVE  parent'[a] = r /\ a \notin freed' /\ Over(a)'
    <3>1. PICK s \in PROCS : a \in Range(dead[s]) /\ ((s = r /\ r # p) \/ (s = p /\ r = init))
      BY <1>1, <2>4, <2>5, <2>6
    <3>2. parent[a] = s /\ a \notin freed /\ Over(a)' /\ \A x \in PROCS : a \notin live[x]
      BY <1>2, <1>4, <3>1 DEF DeadInv, LiveInv
    <3>3. s # p => a \notin Range(dead[p])
      BY <1>2, <2>4, <3>1, <3>2 DEF DeadInv
    <3> QED
      BY <1>1, <2>2, <2>4, <2>5, <2>6, <3>1, <3>2, <3>3
  <2>7. \A r \in PROCS : \A i, j \in DOMAIN dead'[r] : dead'[r][i] = dead'[r][j] => i = j
    <3>1. /\ dead'[p] = <<>> /\ \A x \in PROCS \ {p, init} : dead'[x] = dead[x]
          /\ \A i, j \in DOMAIN dead'[init] : dead'[init][i] = dead'[init][j] => i = j
      BY <2>3, <2>4
    <3>2. \A x \in PROCS \ {p, init} : \A i, j \in DOMAIN dead'[x] : dead'[x][i] = dead'[x][j] => i = j
      BY <1>2, <3>1 DEF DeadInv
    <3> QED
      BY <3>1, <3>2
  <2> QED
    BY <2>6, <2>7 DEF DeadInv
<1>13. CASE DieLock(t)
  <2>1. /\ proc[t] \in PROCS \ {init} /\ UNCHANGED <<proc, parent, live, dead>>
        /\ \/ /\ pc[t] = "die" /\ pc' = [pc EXCEPT ![t] = "dead"] /\ UNCHANGED <<arg, freed>>
           \/ /\ pc[t] = "die_last" /\ parent[proc[t]] = None
              /\ pc' = [pc EXCEPT ![t] = "dead"] /\ UNCHANGED arg
              /\ freed' = freed \cup {proc[t]}
           \/ /\ pc[t] = "die_last" /\ pc' = [pc EXCEPT ![t] = "report"]
              /\ parent[proc[t]] \in PROCS
              /\ arg' = [arg EXCEPT ![t] = parent[proc[t]]] /\ UNCHANGED freed
    BY <1>13, DieLockEffect DEF childVars
  <2> QED
    BY <1>1, <1>2, <1>3, <1>4, <2>1 DEF DeadInv
<1>14. CASE Report(t)
  <2>1. /\ pc'[t] = "dead"
        /\ \A u \in THREADS \ {t} :
             \/ pc'[u] = pc[u]
             \/ pc[u] = "asleep" /\ proc[u] = parent[proc[t]] /\ pc'[u] = "wait_lock"
    BY <1>14, ReportWakes
  <2>2. /\ proc[t] \in PROCS \ {init} /\ pc[t] = "report"
        /\ parent[proc[t]] \in PROCS \ {proc[t]}
        /\ arg' = [arg EXCEPT ![t] = None]
        /\ UNCHANGED <<proc, parent, freed>>
    BY <1>14, ReportEffect
  <2>3. /\ \A v \in THREADS : proc[v] = proc[t] /\ v # t => pc[v] \in {"die", "dead"}
        /\ live' = [live EXCEPT ![parent[proc[t]]] = @ \ {proc[t]}]
        /\ Range(dead'[parent[proc[t]]]) = Range(dead[parent[proc[t]]]) \cup {proc[t]}
        /\ \A i, j \in DOMAIN dead'[parent[proc[t]]] :
             dead'[parent[proc[t]]][i] = dead'[parent[proc[t]]][j] => i = j
        /\ \A q \in PROCS \ {parent[proc[t]]} : dead'[q] = dead[q]
        /\ proc[t] \in live[parent[proc[t]]] /\ proc[t] \notin freed
        /\ \A r \in PROCS : /\ proc[t] \notin Range(dead[r])
                            /\ r # parent[proc[t]] => proc[t] \notin live[r]
    BY <1>14, ReportEffect
  <2>4. PICK to \in PROCS, p \in PROCS : p = proc[t] /\ to = parent[p] /\ to # p
    BY <2>2
  <2>5. /\ live'[to] = live[to] \ {p} /\ Range(dead'[to]) = Range(dead[to]) \cup {p}
        /\ \A r \in PROCS \ {to} : live'[r] = live[r] /\ Range(dead'[r]) = Range(dead[r])
        /\ p \in live[to] /\ p \notin freed
        /\ \A r \in PROCS : p \notin Range(dead[r]) /\ (r # to => p \notin live[r])
    BY <1>3, <2>3, <2>4
  <2>6. ASSUME NEW a \in PROCS, NEW r \in PROCS, a \in Range(dead'[r])
        PROVE  parent'[a] = r /\ a \notin freed' /\ Over(a)'
    <3>1. CASE a = p
      <4>1. r = to
        BY <2>5, <2>6, <3>1
      <4>2. Over(p)'
        BY <1>1, <2>1, <2>2, <2>3, <2>4 DEF Over
      <4> QED
        BY <2>2, <2>4, <2>5, <3>1, <4>1, <4>2
    <3>2. CASE a # p
      <4>1. a \in Range(dead[r])
        BY <2>5, <2>6, <3>2
      <4> QED
        BY <1>2, <1>4, <2>2, <4>1 DEF DeadInv
    <3> QED
      BY <3>1, <3>2
  <2>7. \A r \in PROCS : \A i, j \in DOMAIN dead'[r] : dead'[r][i] = dead'[r][j] => i = j
    BY <1>2, <2>3, <2>4 DEF DeadInv
  <2> QED
    BY <2>6, <2>7 DEF DeadInv
<1> QED
  BY <1>5, <1>6, <1>7, <1>8, <1>9, <1>10, <1>11, <1>12, <1>13, <1>14 DEF
     Quiet, Call, Step


\* A child taken out of the list is over, listed nowhere, and with one waiter.
LEMMA TakenStep ==
  ASSUME PIInv, Careful, NEW t \in THREADS, Call(t) \/ Step(t)
  PROVE  TakenInv'
<1>1. /\ proc \in [THREADS -> PROCS \cup {None}] /\ pc \in [THREADS -> Labels]
      /\ arg \in [THREADS -> PROCS \cup THREADS \cup {None}]
      /\ parent \in [PROCS -> PROCS \cup {None}] /\ init \in PROCS
      /\ None \notin PROCS \cup THREADS
      /\ \A u \in THREADS : pc[u] \notin {"unused", "gone"} => proc[u] \in PROCS
  BY ProcAssumption DEF PIInv, PTypeOK, ThreadInv
<1>2. TakenInv /\ DeadInv /\ LiveInv
  BY DEF PIInv

<1>3. /\ live \in [PROCS -> SUBSET PROCS] /\ dead \in [PROCS -> Seq(PROCS)]
      /\ \A r \in PROCS : Range(dead[r]) \subseteq PROCS
      /\ Range(<<>>) = {}
  BY DEF PIInv, PTypeOK, Range
<1>4. \A u \in THREADS, a \in PROCS : pc[u] = "wait_free" /\ arg[u] = a =>
        /\ Over(a)' /\ a \notin freed /\ parent[a] # None /\ ~Listed(a)
        /\ \A v \in THREADS : pc[v] = "wait_free" /\ arg[v] = a => v = u
  <2> SUFFICES ASSUME NEW u \in THREADS, NEW a \in PROCS, pc[u] = "wait_free", arg[u] = a
               PROVE  /\ Over(a)' /\ a \notin freed /\ parent[a] # None /\ ~Listed(a)
                      /\ \A v \in THREADS : pc[v] = "wait_free" /\ arg[v] = a => v = u
    OBVIOUS
  <2>1. /\ a \notin FreshProcs /\ Over(a) /\ a \notin freed /\ parent[a] # None /\ ~Listed(a)
        /\ \A v \in THREADS : pc[v] = "wait_free" /\ arg[v] = a => v = u
    BY <1>2 DEF FreshProcs, TakenInv
  <2> QED
    BY <2>1, OverKept
<1>5. \A u \in THREADS : pc[u] = "wait_free" => arg[u] \in PROCS
  BY <1>2 DEF TakenInv
<1>6. ASSUME \A u \in THREADS : pc'[u] = "wait_free" =>
               u # t /\ pc[u] = "wait_free" /\ arg'[u] = arg[u],
             \A u \in THREADS \ {t}, a \in PROCS : pc[u] = "wait_free" /\ arg[u] = a =>
               a \notin freed' /\ parent'[a] # None /\ ~Listed(a)'
      PROVE  TakenInv'
  BY <1>4, <1>5, <1>6 DEF TakenInv, Over, Listed
<1>7. CASE Quiet(t)
  <2>1. /\ UNCHANGED <<arg, parent, live, dead, freed>> /\ pc'[t] # "wait_free"
        /\ \A u \in THREADS \ {t} : pc'[u] = pc[u]
    BY <1>7, QuietEffect
  <2>7. \A u \in THREADS : pc'[u] = "wait_free" =>
          u # t /\ pc[u] = "wait_free" /\ arg'[u] = arg[u]
    BY <1>1, <2>1
  <2>8. ASSUME NEW u \in THREADS \ {t}, NEW a \in PROCS, pc[u] = "wait_free", arg[u] = a
        PROVE  a \notin freed' /\ parent'[a] # None /\ ~Listed(a)'
    BY <1>1, <1>3, <1>4, <2>1, <2>8 DEF Listed
  <2> QED
    BY <1>6, <2>7, <2>8
<1>8. CASE Fork(t)
  <2>1. PICK q \in FreshProcs, u \in FreshThreads :
          LET p == proc[t] IN
          /\ p \in PROCS /\ pc[t] = "user" /\ t # u /\ p # q
          /\ proc' = [proc EXCEPT ![u] = q] /\ parent' = [parent EXCEPT ![q] = p]
          /\ arg' = [arg EXCEPT ![t] = u]
          /\ pc' = [pc EXCEPT ![t] = "fork_add", ![u] = "new"]
          /\ UNCHANGED <<live, dead, freed>>
    BY <1>8, ForkEffect DEF childVars, waitVars, lockVars
  <2>2. /\ q \in PROCS \ {init} /\ u \in THREADS /\ pc[u] = "unused" /\ proc[u] = None
        /\ arg[u] = None /\ parent[q] = None /\ q \notin freed /\ ~Listed(q)
        /\ \A v \in THREADS : proc[v] # q /\ arg[v] # q
        /\ \A v \in THREADS : pc[v] = "fork_add" => arg[v] # u
    BY FreshFacts
  <2>7. \A w \in THREADS : pc'[w] = "wait_free" =>
          w # t /\ pc[w] = "wait_free" /\ arg'[w] = arg[w]
    BY <1>1, <2>1, <2>2
  <2>8. ASSUME NEW w \in THREADS \ {t}, NEW a \in PROCS, pc[w] = "wait_free", arg[w] = a
        PROVE  a \notin freed' /\ parent'[a] # None /\ ~Listed(a)'
    BY <1>1, <1>3, <1>4, <2>1, <2>2, <2>8 DEF Listed
  <2> QED
    BY <1>6, <2>7, <2>8
<1>9. CASE ForkAdd(t)
  <2>1. /\ arg[t] \in THREADS /\ t # arg[t] /\ pc[t] = "fork_add" /\ pc[arg[t]] = "new"
        /\ parent[proc[arg[t]]] = proc[t] /\ ~Listed(proc[arg[t]]) /\ proc[arg[t]] \notin freed
        /\ \A v \in THREADS : proc[v] = proc[arg[t]] => v = arg[t]
        /\ proc[t] \in PROCS /\ proc[arg[t]] \in PROCS
        /\ live' = [live EXCEPT ![proc[t]] = @ \cup {proc[arg[t]]}]
        /\ pc' = [pc EXCEPT ![t] = "user", ![arg[t]] = "user"]
        /\ arg' = [arg EXCEPT ![t] = None]
        /\ UNCHANGED <<proc, parent, dead, freed>>
    BY <1>9, ForkAddEffect
  <2>2. PICK p \in PROCS, q \in PROCS, u \in THREADS : p = proc[t] /\ u = arg[t] /\ q = proc[u]
    BY <2>1
  <2>7. \A w \in THREADS : pc'[w] = "wait_free" =>
          w # t /\ pc[w] = "wait_free" /\ arg'[w] = arg[w]
    BY <1>1, <2>1, <2>2
  <2>8. ASSUME NEW w \in THREADS \ {t}, NEW a \in PROCS, pc[w] = "wait_free", arg[w] = a
        PROVE  a \notin freed' /\ parent'[a] # None /\ ~Listed(a)'
    <3>1. a # q
      BY <2>1, <2>2, <2>8 DEF PIInv, TakenInv, Over
    <3> QED
      BY <1>1, <1>3, <1>4, <2>1, <2>2, <2>8, <3>1 DEF Listed
  <2> QED
    BY <1>6, <2>7, <2>8
<1>10. CASE ThreadFork(t)
  <2>1. PICK u \in FreshThreads :
          LET p == proc[t] IN
          /\ p \in PROCS \ {init} /\ pc[t] = "user" /\ t # u
          /\ "thread_fork" \in Calls[p] /\ parent[p] # None
          /\ proc' = [proc EXCEPT ![u] = p] /\ pc' = [pc EXCEPT ![u] = "user"]
          /\ UNCHANGED <<arg, parent, live, dead, freed>>
    BY <1>10, ThreadForkEffect DEF childVars, waitVars, lockVars
  <2>2. u \in THREADS /\ pc[u] = "unused"
    BY DEF FreshThreads
  <2>3. proc[u] = None /\ arg[u] = None
    BY <2>2 DEF PIInv, ThreadInv
  <2>7. \A w \in THREADS : pc'[w] = "wait_free" =>
          w # t /\ pc[w] = "wait_free" /\ arg'[w] = arg[w]
    BY <1>1, <2>1, <2>2, <2>3
  <2>8. ASSUME NEW w \in THREADS \ {t}, NEW a \in PROCS, pc[w] = "wait_free", arg[w] = a
        PROVE  a \notin freed' /\ parent'[a] # None /\ ~Listed(a)'
    BY <1>1, <1>3, <1>4, <2>1, <2>8 DEF Listed
  <2> QED
    BY <1>6, <2>7, <2>8
<1>11. CASE Exec(t) \/ Respawn(t)
  <2>1. PICK q \in FreshProcs, u \in FreshThreads :
          LET p == proc[t] IN
          /\ p \in PROCS /\ pc[t] = "user" /\ t # u /\ p # q
          /\ \A v \in THREADS : proc[v] = p => v = t
          /\ proc' = [proc EXCEPT ![t] = q, ![u] = p]
          /\ pc' = [pc EXCEPT ![t] = "exit", ![u] = "user"]
          /\ UNCHANGED <<arg, parent, live>>
    BY <1>11, SwapEffect DEF childVars, waitVars, lockVars
  <2>2. /\ q \in PROCS \ {init} /\ u \in THREADS /\ pc[u] = "unused" /\ proc[u] = None
        /\ arg[u] = None /\ parent[q] = None /\ q \notin freed /\ ~Listed(q)
        /\ \A v \in THREADS : proc[v] # q /\ arg[v] # q
        /\ \A v \in THREADS : pc[v] = "fork_add" => arg[v] # u
    BY FreshFacts
  <2>3. \/ UNCHANGED <<dead, freed>>
        \/ dead' = [dead EXCEPT ![init] = <<>>] /\ freed' = freed \cup Range(dead[init])
    BY <1>11, SwapEffect DEF childVars
  <2>7. \A w \in THREADS : pc'[w] = "wait_free" =>
          w # t /\ pc[w] = "wait_free" /\ arg'[w] = arg[w]
    BY <1>1, <2>1, <2>2
  <2>8. ASSUME NEW w \in THREADS \ {t}, NEW a \in PROCS, pc[w] = "wait_free", arg[w] = a
        PROVE  a \notin freed' /\ parent'[a] # None /\ ~Listed(a)'
    <3>1. \A x \in PROCS : Range(dead'[x]) \subseteq Range(dead[x])
      BY <1>1, <1>3, <2>3
    <3>2. a \notin freed /\ parent[a] # None /\ ~Listed(a)
      BY <1>4, <2>8
    <3>3. \A x \in PROCS : a \notin live[x] /\ a \notin Range(dead[x])
      BY <3>2 DEF Listed
    <3>4. a \notin freed'
      BY <1>1, <2>3, <3>2, <3>3
    <3> QED
      BY <2>1, <3>1, <3>2, <3>3, <3>4 DEF Listed
  <2> QED
    BY <1>6, <2>7, <2>8
<1>12. CASE WaitReap(t)
  <2>1. /\ pc[t] = "wait_test" /\ proc[t] \in PROCS /\ pc' = [pc EXCEPT ![t] = "wait_free"]
        /\ Head(dead[proc[t]]) \in PROCS
        /\ arg' = [arg EXCEPT ![t] = Head(dead[proc[t]])]
        /\ UNCHANGED <<proc, parent, live, freed>>
        /\ Range(dead[proc[t]]) = {Head(dead[proc[t]])} \cup Range(Tail(dead[proc[t]]))
        /\ dead' = [dead EXCEPT ![proc[t]] = Tail(@)]
    BY <1>12, WaitReapEffect
  <2>2. PICK p \in PROCS, q \in PROCS : p = proc[t] /\ q = Head(dead[p])
    BY <2>1
  <2>3. /\ Range(dead'[p]) = Range(Tail(dead[p])) /\ \A x \in PROCS \ {p} : dead'[x] = dead[x]
        /\ Range(dead[p]) = {q} \cup Range(dead'[p])
    BY <1>3, <2>1, <2>2
  <2>4. /\ q \notin freed /\ parent[q] # None /\ Over(q) /\ p # None /\ q \notin FreshProcs
        /\ \A x \in PROCS : q \notin live[x] /\ q \notin Range(dead'[x])
        /\ \A v \in THREADS : pc[v] = "wait_free" => arg[v] # q
    <3>1. /\ q \notin freed /\ parent[q] = p /\ Over(q)
          /\ \A r \in PROCS : q \notin live[r] /\ (r # p => q \notin Range(dead[r]))
          /\ q \notin Range(Tail(dead[p]))
          /\ \A v \in THREADS : pc[v] = "wait_free" => arg[v] # q
      <4>1. LET pp == proc[t]
                qq == Head(dead[proc[t]]) IN
            /\ qq \notin freed /\ parent[qq] = pp /\ Over(qq)
            /\ \A r \in PROCS : qq \notin live[r] /\ (r # pp => qq \notin Range(dead[r]))
            /\ qq \notin Range(Tail(dead[pp]))
            /\ \A v \in THREADS : pc[v] = "wait_free" => arg[v] # qq
        BY <1>12, WaitReapEffect
      <4> QED
        BY <2>2, <4>1 DEF Over
    <3> QED
      BY <1>1, <2>2, <2>3, <3>1 DEF FreshProcs
  <2>5. Over(q)'
    BY <2>4, OverKept
  <2>6. \A u \in THREADS : pc'[u] = "wait_free" /\ u # t =>
          /\ pc[u] = "wait_free" /\ arg'[u] = arg[u] /\ arg[u] # q /\ arg[u] \in PROCS
    BY <1>1, <1>5, <2>1, <2>4
  <2>7. arg'[t] = q /\ pc'[t] = "wait_free"
    BY <1>1, <2>1, <2>2
  <2>8. ASSUME NEW w \in THREADS \ {t}, NEW a \in PROCS, pc[w] = "wait_free", arg[w] = a
        PROVE  /\ a \notin freed' /\ parent'[a] # None /\ ~Listed(a)' /\ Over(a)'
               /\ \A v \in THREADS : pc[v] = "wait_free" /\ arg[v] = a => v = w
    BY <1>4, <2>1, <2>3, <2>8 DEF Listed
  <2>9. ~Listed(q)' /\ q \notin freed' /\ parent'[q] # None
    BY <2>1, <2>4 DEF Listed
  <2>10. ASSUME NEW u \in THREADS, pc'[u] = "wait_free"
         PROVE  /\ arg'[u] \in PROCS \ freed' /\ parent'[arg'[u]] # None
                /\ Over(arg[u])' /\ ~Listed(arg[u])'
                /\ \A v \in THREADS : pc'[v] = "wait_free" /\ arg'[v] = arg'[u] => v = u
    <3>1. CASE u = t
      BY <2>2, <2>5, <2>6, <2>7, <2>9, <3>1 DEF Over, Listed
    <3>2. CASE u # t
      <4>1. PICK a \in PROCS : a = arg[u]
        BY <2>6, <2>10, <3>2
      <4> QED
        BY <2>6, <2>7, <2>8, <2>10, <3>2, <4>1 DEF Over, Listed
    <3> QED
      BY <3>1, <3>2
  <2> QED
    BY <2>10 DEF TakenInv
<1>13. CASE WaitFree(t)
  <2>1. /\ pc[t] = "wait_free" /\ pc' = [pc EXCEPT ![t] = "user"] /\ heapOwner = None
        /\ arg' = [arg EXCEPT ![t] = None] /\ freed' = freed \cup {arg[t]}
        /\ UNCHANGED <<proc, parent, live, dead>>
    BY <1>13 DEF WaitFree, At, Goto, childVars
  <2>2. /\ arg[t] \in PROCS \ freed /\ parent[arg[t]] # None /\ Over(arg[t]) /\ ~Listed(arg[t])
        /\ \A u \in THREADS : pc[u] = "wait_free" /\ arg[u] = arg[t] => u = t
    BY <2>1 DEF PIInv, TakenInv
  <2>7. \A u \in THREADS : pc'[u] = "wait_free" =>
          u # t /\ pc[u] = "wait_free" /\ arg'[u] = arg[u]
    BY <1>1, <2>1
  <2>8. ASSUME NEW u \in THREADS \ {t}, NEW a \in PROCS, pc[u] = "wait_free", arg[u] = a
        PROVE  a \notin freed' /\ parent'[a] # None /\ ~Listed(a)'
    <3>1. a # arg[t]
      BY <2>2, <2>8
    <3> QED
      BY <1>4, <2>1, <2>8, <3>1 DEF Listed
  <2> QED
    BY <1>6, <2>7, <2>8
<1>14. CASE OrphanMove(t)
  <2>1. /\ pc'[t] = "die_last"
        /\ \A u \in THREADS \ {t} :
             \/ pc'[u] = pc[u]
             \/ pc[u] = "asleep" /\ proc[u] = init /\ pc'[u] = "wait_lock"
    BY <1>14, OrphanMoveWakes
  <2>2. /\ proc[t] \in PROCS \ {init} /\ pc[t] = "orphan_move"
        /\ parent' = [q \in PROCS |-> IF q \in live[proc[t]] \cup Range(dead[proc[t]])
                                      THEN init ELSE parent[q]]
        /\ UNCHANGED <<proc, arg, freed>>
    BY <1>14, OrphanMoveEffect
  <2>3. /\ \A v \in THREADS : proc[v] = proc[t] /\ v # t => pc[v] \in {"die", "dead"}
        /\ live' = [live EXCEPT ![init] = @ \cup live[proc[t]], ![proc[t]] = {}]
        /\ dead'[proc[t]] = <<>>
        /\ Range(dead'[init]) = Range(dead[init]) \cup Range(dead[proc[t]])
        /\ \A i, j \in DOMAIN dead'[init] : dead'[init][i] = dead'[init][j] => i = j
        /\ \A q \in PROCS \ {proc[t], init} : dead'[q] = dead[q]
    BY <1>14, OrphanMoveEffect
  <2>4. PICK p \in PROCS \ {init} : p = proc[t]
    BY <2>2
  <2>5. /\ live'[init] = live[init] \cup live[p] /\ live'[p] = {} /\ Range(dead'[p]) = {}
        /\ \A r \in PROCS \ {p, init} : live'[r] = live[r] /\ Range(dead'[r]) = Range(dead[r])
        /\ Range(dead'[init]) = Range(dead[init]) \cup Range(dead[p])
        /\ \A q \in PROCS : parent'[q] = IF q \in live[p] \cup Range(dead[p]) THEN init
                                           ELSE parent[q]
    BY <1>1, <1>3, <2>2, <2>3, <2>4
  <2>7. \A u \in THREADS : pc'[u] = "wait_free" =>
          u # t /\ pc[u] = "wait_free" /\ arg'[u] = arg[u]
    BY <1>1, <2>1, <2>2
  <2>8. ASSUME NEW u \in THREADS \ {t}, NEW a \in PROCS, pc[u] = "wait_free", arg[u] = a
        PROVE  a \notin freed' /\ parent'[a] # None /\ ~Listed(a)'
    <3>1. a \notin freed /\ parent[a] # None /\ \A x \in PROCS : a \notin live[x] /\ a \notin Range(dead[x])
      BY <1>4, <2>8 DEF Listed
    <3> QED
      BY <1>1, <2>2, <2>4, <2>5, <3>1 DEF Listed
  <2> QED
    BY <1>6, <2>7, <2>8
<1>15. CASE DieLock(t)
  <2>1. /\ proc[t] \in PROCS \ {init} /\ UNCHANGED <<proc, parent, live, dead>>
        /\ \/ /\ pc[t] = "die" /\ pc' = [pc EXCEPT ![t] = "dead"] /\ UNCHANGED <<arg, freed>>
           \/ /\ pc[t] = "die_last" /\ parent[proc[t]] = None
              /\ pc' = [pc EXCEPT ![t] = "dead"] /\ UNCHANGED arg
              /\ freed' = freed \cup {proc[t]}
           \/ /\ pc[t] = "die_last" /\ pc' = [pc EXCEPT ![t] = "report"]
              /\ parent[proc[t]] \in PROCS
              /\ arg' = [arg EXCEPT ![t] = parent[proc[t]]] /\ UNCHANGED freed
    BY <1>15, DieLockEffect DEF childVars
  <2>7. \A u \in THREADS : pc'[u] = "wait_free" =>
          u # t /\ pc[u] = "wait_free" /\ arg'[u] = arg[u]
    BY <1>1, <2>1
  <2>8. ASSUME NEW u \in THREADS \ {t}, NEW a \in PROCS, pc[u] = "wait_free", arg[u] = a
        PROVE  a \notin freed' /\ parent'[a] # None /\ ~Listed(a)'
    BY <1>1, <1>4, <2>1, <2>8 DEF Listed
  <2> QED
    BY <1>6, <2>7, <2>8
<1>16. CASE Report(t)
  <2>1. /\ pc'[t] = "dead"
        /\ \A u \in THREADS \ {t} :
             \/ pc'[u] = pc[u]
             \/ pc[u] = "asleep" /\ proc[u] = parent[proc[t]] /\ pc'[u] = "wait_lock"
    BY <1>16, ReportWakes
  <2>2. /\ proc[t] \in PROCS \ {init} /\ pc[t] = "report"
        /\ parent[proc[t]] \in PROCS \ {proc[t]}
        /\ arg' = [arg EXCEPT ![t] = None]
        /\ UNCHANGED <<proc, parent, freed>>
    BY <1>16, ReportEffect
  <2>3. /\ \A v \in THREADS : proc[v] = proc[t] /\ v # t => pc[v] \in {"die", "dead"}
        /\ live' = [live EXCEPT ![parent[proc[t]]] = @ \ {proc[t]}]
        /\ Range(dead'[parent[proc[t]]]) = Range(dead[parent[proc[t]]]) \cup {proc[t]}
        /\ \A i, j \in DOMAIN dead'[parent[proc[t]]] :
             dead'[parent[proc[t]]][i] = dead'[parent[proc[t]]][j] => i = j
        /\ \A q \in PROCS \ {parent[proc[t]]} : dead'[q] = dead[q]
        /\ proc[t] \in live[parent[proc[t]]] /\ proc[t] \notin freed
        /\ \A r \in PROCS : /\ proc[t] \notin Range(dead[r])
                            /\ r # parent[proc[t]] => proc[t] \notin live[r]
    BY <1>16, ReportEffect
  <2>4. PICK to \in PROCS, p \in PROCS : p = proc[t] /\ to = parent[p] /\ to # p
    BY <2>2
  <2>5. /\ live'[to] = live[to] \ {p} /\ Range(dead'[to]) = Range(dead[to]) \cup {p}
        /\ \A r \in PROCS \ {to} : live'[r] = live[r] /\ Range(dead'[r]) = Range(dead[r])
        /\ p \in live[to] /\ p \notin freed
        /\ \A r \in PROCS : p \notin Range(dead[r]) /\ (r # to => p \notin live[r])
    BY <1>3, <2>3, <2>4
  <2>7. \A u \in THREADS : pc'[u] = "wait_free" =>
          u # t /\ pc[u] = "wait_free" /\ arg'[u] = arg[u]
    BY <1>1, <2>1, <2>2
  <2>8. ASSUME NEW u \in THREADS \ {t}, NEW a \in PROCS, pc[u] = "wait_free", arg[u] = a
        PROVE  a \notin freed' /\ parent'[a] # None /\ ~Listed(a)'
    <3>1. a \notin freed /\ parent[a] # None /\ \A x \in PROCS : a \notin live[x] /\ a \notin Range(dead[x])
      BY <1>4, <2>8 DEF Listed
    <3> QED
      BY <1>1, <2>2, <2>4, <2>5, <3>1 DEF Listed
  <2> QED
    BY <1>6, <2>7, <2>8
<1> QED
  BY <1>7, <1>8, <1>9, <1>10, <1>11, <1>12, <1>13, <1>14, <1>15, <1>16 DEF
     Quiet, Call, Step


\* A process with a thread that runs is in its parent's live_childs.
LEMMA ActiveStep ==
  ASSUME PIInv, Careful, NEW t \in THREADS, Call(t) \/ Step(t)
  PROVE  ActiveInv'
<1>1. /\ proc \in [THREADS -> PROCS \cup {None}] /\ pc \in [THREADS -> Labels]
      /\ arg \in [THREADS -> PROCS \cup THREADS \cup {None}]
      /\ parent \in [PROCS -> PROCS \cup {None}] /\ init \in PROCS
      /\ None \notin PROCS \cup THREADS
      /\ \A u \in THREADS : pc[u] \notin {"unused", "gone"} => proc[u] \in PROCS
  BY ProcAssumption DEF PIInv, PTypeOK, ThreadInv
<1>2. ActiveInv /\ DeadInv /\ LiveInv
  BY DEF PIInv

<1>3. /\ live \in [PROCS -> SUBSET PROCS] /\ dead \in [PROCS -> Seq(PROCS)]
      /\ \A r \in PROCS : Range(dead[r]) \subseteq PROCS
      /\ Range(<<>>) = {}
  BY DEF PIInv, PTypeOK, Range
<1>4. CASE Quiet(t)
  <2>1. /\ UNCHANGED <<parent, live>>
        /\ \/ UNCHANGED proc
           \/ pc'[t] = "gone" /\ proc' = [proc EXCEPT ![t] = None]
        /\ \A u \in THREADS \ {t} : pc'[u] = pc[u]
        /\ pc[t] \notin {"unused", "new", "die", "gone"}
        /\ pc[t] = "dead" => pc'[t] = "gone"
    BY <1>4, QuietEffect
  <2> QED
    BY <1>1, <1>2, <2>1 DEF ActiveInv
<1>5. CASE Fork(t)
  <2>1. PICK q \in FreshProcs, u \in FreshThreads :
          LET p == proc[t] IN
          /\ p \in PROCS /\ pc[t] = "user" /\ t # u /\ p # q
          /\ proc' = [proc EXCEPT ![u] = q] /\ parent' = [parent EXCEPT ![q] = p]
          /\ arg' = [arg EXCEPT ![t] = u]
          /\ pc' = [pc EXCEPT ![t] = "fork_add", ![u] = "new"]
          /\ UNCHANGED <<live, dead, freed>>
    BY <1>5, ForkEffect DEF childVars, waitVars, lockVars
  <2>2. /\ q \in PROCS \ {init} /\ u \in THREADS /\ pc[u] = "unused" /\ proc[u] = None
        /\ arg[u] = None /\ parent[q] = None /\ q \notin freed /\ ~Listed(q)
        /\ \A v \in THREADS : proc[v] # q /\ arg[v] # q
        /\ \A v \in THREADS : pc[v] = "fork_add" => arg[v] # u
    BY FreshFacts
  <2> QED
    BY <1>1, <1>2, <1>3, <2>1, <2>2 DEF ActiveInv
<1>6. CASE ForkAdd(t)
  <2>1. /\ arg[t] \in THREADS /\ t # arg[t] /\ pc[t] = "fork_add" /\ pc[arg[t]] = "new"
        /\ parent[proc[arg[t]]] = proc[t] /\ ~Listed(proc[arg[t]]) /\ proc[arg[t]] \notin freed
        /\ \A v \in THREADS : proc[v] = proc[arg[t]] => v = arg[t]
        /\ proc[t] \in PROCS /\ proc[arg[t]] \in PROCS
        /\ live' = [live EXCEPT ![proc[t]] = @ \cup {proc[arg[t]]}]
        /\ pc' = [pc EXCEPT ![t] = "user", ![arg[t]] = "user"]
        /\ arg' = [arg EXCEPT ![t] = None]
        /\ UNCHANGED <<proc, parent, dead, freed>>
    BY <1>6, ForkAddEffect
  <2>2. PICK p \in PROCS, q \in PROCS, u \in THREADS : p = proc[t] /\ u = arg[t] /\ q = proc[u]
    BY <2>1
  <2> QED
    BY <1>1, <1>2, <1>3, <2>1, <2>2 DEF ActiveInv
<1>7. CASE ThreadFork(t)
  <2>1. PICK u \in FreshThreads :
          LET p == proc[t] IN
          /\ p \in PROCS \ {init} /\ pc[t] = "user" /\ t # u
          /\ "thread_fork" \in Calls[p] /\ parent[p] # None
          /\ proc' = [proc EXCEPT ![u] = p] /\ pc' = [pc EXCEPT ![u] = "user"]
          /\ UNCHANGED <<arg, parent, live, dead, freed>>
    BY <1>7, ThreadForkEffect DEF childVars, waitVars, lockVars
  <2>2. u \in THREADS /\ pc[u] = "unused"
    BY DEF FreshThreads
  <2>3. proc[u] = None /\ arg[u] = None
    BY <2>2 DEF PIInv, ThreadInv
  <2> QED
    BY <1>1, <1>2, <1>3, <2>1, <2>2, <2>3 DEF ActiveInv
<1>8. CASE Exec(t) \/ Respawn(t)
  <2>1. PICK q \in FreshProcs, u \in FreshThreads :
          LET p == proc[t] IN
          /\ p \in PROCS /\ pc[t] = "user" /\ t # u /\ p # q
          /\ \A v \in THREADS : proc[v] = p => v = t
          /\ proc' = [proc EXCEPT ![t] = q, ![u] = p]
          /\ pc' = [pc EXCEPT ![t] = "exit", ![u] = "user"]
          /\ UNCHANGED <<arg, parent, live>>
    BY <1>8, SwapEffect DEF childVars, waitVars, lockVars
  <2>2. /\ q \in PROCS \ {init} /\ u \in THREADS /\ pc[u] = "unused" /\ proc[u] = None
        /\ arg[u] = None /\ parent[q] = None /\ q \notin freed /\ ~Listed(q)
        /\ \A v \in THREADS : proc[v] # q /\ arg[v] # q
        /\ \A v \in THREADS : pc[v] = "fork_add" => arg[v] # u
    BY FreshFacts
  <2>3. \/ UNCHANGED <<dead, freed>>
        \/ dead' = [dead EXCEPT ![init] = <<>>] /\ freed' = freed \cup Range(dead[init])
    BY <1>8, SwapEffect DEF childVars
  <2> QED
    BY <1>1, <1>2, <1>3, <2>1, <2>2, <2>3 DEF ActiveInv
<1>9. CASE WaitReap(t)
  <2>1. /\ pc[t] = "wait_test" /\ proc[t] \in PROCS /\ pc' = [pc EXCEPT ![t] = "wait_free"]
        /\ Head(dead[proc[t]]) \in PROCS
        /\ arg' = [arg EXCEPT ![t] = Head(dead[proc[t]])]
        /\ UNCHANGED <<proc, parent, live, freed>>
        /\ Range(dead[proc[t]]) = {Head(dead[proc[t]])} \cup Range(Tail(dead[proc[t]]))
        /\ dead' = [dead EXCEPT ![proc[t]] = Tail(@)]
    BY <1>9, WaitReapEffect
  <2>2. PICK p \in PROCS, q \in PROCS : p = proc[t] /\ q = Head(dead[p])
    BY <2>1
  <2> QED
    BY <1>1, <1>2, <1>3, <2>1, <2>2 DEF ActiveInv
<1>10. CASE WaitFree(t)
  <2>1. /\ pc[t] = "wait_free" /\ pc' = [pc EXCEPT ![t] = "user"] /\ heapOwner = None
        /\ arg' = [arg EXCEPT ![t] = None] /\ freed' = freed \cup {arg[t]}
        /\ UNCHANGED <<proc, parent, live, dead>>
    BY <1>10 DEF WaitFree, At, Goto, childVars
  <2>2. /\ arg[t] \in PROCS \ freed /\ parent[arg[t]] # None /\ Over(arg[t]) /\ ~Listed(arg[t])
        /\ \A u \in THREADS : pc[u] = "wait_free" /\ arg[u] = arg[t] => u = t
    BY <2>1 DEF PIInv, TakenInv
  <2> QED
    BY <1>1, <1>2, <1>3, <2>1, <2>2 DEF ActiveInv
<1>11. CASE OrphanMove(t)
  <2>1. /\ pc'[t] = "die_last"
        /\ \A u \in THREADS \ {t} :
             \/ pc'[u] = pc[u]
             \/ pc[u] = "asleep" /\ proc[u] = init /\ pc'[u] = "wait_lock"
    BY <1>11, OrphanMoveWakes
  <2>2. /\ proc[t] \in PROCS \ {init} /\ pc[t] = "orphan_move"
        /\ parent' = [q \in PROCS |-> IF q \in live[proc[t]] \cup Range(dead[proc[t]])
                                      THEN init ELSE parent[q]]
        /\ UNCHANGED <<proc, arg, freed>>
    BY <1>11, OrphanMoveEffect
  <2>3. /\ \A v \in THREADS : proc[v] = proc[t] /\ v # t => pc[v] \in {"die", "dead"}
        /\ live' = [live EXCEPT ![init] = @ \cup live[proc[t]], ![proc[t]] = {}]
        /\ dead'[proc[t]] = <<>>
        /\ Range(dead'[init]) = Range(dead[init]) \cup Range(dead[proc[t]])
        /\ \A i, j \in DOMAIN dead'[init] : dead'[init][i] = dead'[init][j] => i = j
        /\ \A q \in PROCS \ {proc[t], init} : dead'[q] = dead[q]
    BY <1>11, OrphanMoveEffect
  <2>4. PICK p \in PROCS \ {init} : p = proc[t]
    BY <2>2
  <2>5. /\ live'[init] = live[init] \cup live[p] /\ live'[p] = {} /\ Range(dead'[p]) = {}
        /\ \A r \in PROCS \ {p, init} : live'[r] = live[r] /\ Range(dead'[r]) = Range(dead[r])
        /\ Range(dead'[init]) = Range(dead[init]) \cup Range(dead[p])
        /\ \A q \in PROCS : parent'[q] = IF q \in live[p] \cup Range(dead[p]) THEN init
                                           ELSE parent[q]
    BY <1>1, <1>3, <2>2, <2>3, <2>4
  <2>6. ASSUME NEW r \in PROCS, NEW s \in PROCS, r \in live[s], parent[r] = s
        PROVE  parent'[r] # None => r \in live'[parent'[r]]
    <3>1. s # p => r \notin live[p] /\ r \notin Range(dead[p])
      BY <1>2, <2>4, <2>6 DEF DeadInv, LiveInv
    <3> QED
      BY <1>1, <2>4, <2>5, <2>6, <3>1
  <2>7. ASSUME NEW r \in PROCS, parent[r] = None
        PROVE  parent'[r] = None
    <3>1. r \notin live[p] /\ r \notin Range(dead[p])
      BY <1>1, <1>2, <2>4, <2>7 DEF DeadInv, LiveInv
    <3> QED
      BY <2>5, <2>7, <3>1
  <2>8. ASSUME NEW v \in THREADS, pc'[v] \notin {"unused", "new", "die", "dead", "gone"},
               parent'[proc[v]] # None
        PROVE  proc[v] \in live'[parent'[proc[v]]]
    <3>1. pc[v] \notin {"unused", "new", "die", "dead", "gone"} /\ proc[v] \in PROCS
      BY <1>1, <2>1, <2>2, <2>8
    <3>2. parent[proc[v]] # None /\ parent[proc[v]] \in PROCS
      BY <1>1, <2>7, <2>8, <3>1
    <3>3. proc[v] \in live[parent[proc[v]]]
      BY <1>2, <3>1, <3>2 DEF ActiveInv
    <3> QED
      BY <2>6, <2>8, <3>1, <3>2, <3>3
  <2> QED
    BY <2>2, <2>8 DEF ActiveInv
<1>12. CASE DieLock(t)
  <2>1. /\ proc[t] \in PROCS \ {init} /\ UNCHANGED <<proc, parent, live, dead>>
        /\ \/ /\ pc[t] = "die" /\ pc' = [pc EXCEPT ![t] = "dead"] /\ UNCHANGED <<arg, freed>>
           \/ /\ pc[t] = "die_last" /\ parent[proc[t]] = None
              /\ pc' = [pc EXCEPT ![t] = "dead"] /\ UNCHANGED arg
              /\ freed' = freed \cup {proc[t]}
           \/ /\ pc[t] = "die_last" /\ pc' = [pc EXCEPT ![t] = "report"]
              /\ parent[proc[t]] \in PROCS
              /\ arg' = [arg EXCEPT ![t] = parent[proc[t]]] /\ UNCHANGED freed
    BY <1>12, DieLockEffect DEF childVars
  <2> QED
    BY <1>1, <1>2, <1>3, <2>1 DEF ActiveInv
<1>13. CASE Report(t)
  <2>1. /\ pc'[t] = "dead"
        /\ \A u \in THREADS \ {t} :
             \/ pc'[u] = pc[u]
             \/ pc[u] = "asleep" /\ proc[u] = parent[proc[t]] /\ pc'[u] = "wait_lock"
    BY <1>13, ReportWakes
  <2>2. /\ proc[t] \in PROCS \ {init} /\ pc[t] = "report"
        /\ parent[proc[t]] \in PROCS \ {proc[t]}
        /\ arg' = [arg EXCEPT ![t] = None]
        /\ UNCHANGED <<proc, parent, freed>>
    BY <1>13, ReportEffect
  <2>3. /\ \A v \in THREADS : proc[v] = proc[t] /\ v # t => pc[v] \in {"die", "dead"}
        /\ live' = [live EXCEPT ![parent[proc[t]]] = @ \ {proc[t]}]
        /\ Range(dead'[parent[proc[t]]]) = Range(dead[parent[proc[t]]]) \cup {proc[t]}
        /\ \A i, j \in DOMAIN dead'[parent[proc[t]]] :
             dead'[parent[proc[t]]][i] = dead'[parent[proc[t]]][j] => i = j
        /\ \A q \in PROCS \ {parent[proc[t]]} : dead'[q] = dead[q]
        /\ proc[t] \in live[parent[proc[t]]] /\ proc[t] \notin freed
        /\ \A r \in PROCS : /\ proc[t] \notin Range(dead[r])
                            /\ r # parent[proc[t]] => proc[t] \notin live[r]
    BY <1>13, ReportEffect
  <2>4. PICK to \in PROCS, p \in PROCS : p = proc[t] /\ to = parent[p] /\ to # p
    BY <2>2
  <2>5. /\ live'[to] = live[to] \ {p} /\ Range(dead'[to]) = Range(dead[to]) \cup {p}
        /\ \A r \in PROCS \ {to} : live'[r] = live[r] /\ Range(dead'[r]) = Range(dead[r])
        /\ p \in live[to] /\ p \notin freed
        /\ \A r \in PROCS : p \notin Range(dead[r]) /\ (r # to => p \notin live[r])
    BY <1>3, <2>3, <2>4
  <2>6. ASSUME NEW v \in THREADS, pc'[v] \notin {"unused", "new", "die", "dead", "gone"},
               parent[proc[v]] # None
        PROVE  proc[v] \in live'[parent[proc[v]]]
    <3>1. pc[v] \notin {"unused", "new", "die", "dead", "gone"} /\ proc[v] \in PROCS
      BY <1>1, <2>1, <2>2, <2>6
    <3>2. proc[v] # p
      BY <2>1, <2>3, <2>4, <2>6, <3>1
    <3>3. proc[v] \in live[parent[proc[v]]] /\ parent[proc[v]] \in PROCS
      BY <1>1, <1>2, <2>6, <3>1 DEF ActiveInv
    <3> QED
      BY <2>5, <3>2, <3>3
  <2> QED
    BY <2>2, <2>6 DEF ActiveInv
<1> QED
  BY <1>4, <1>5, <1>6, <1>7, <1>8, <1>9, <1>10, <1>11, <1>12, <1>13 DEF Quiet,
     Call, Step


\* A child that is not freed can be found: in a list, or with a thread.
LEMMA FoundStep ==
  ASSUME PIInv, Careful, NEW t \in THREADS, Call(t) \/ Step(t)
  PROVE  FoundInv'
<1>1. /\ proc \in [THREADS -> PROCS \cup {None}] /\ pc \in [THREADS -> Labels]
      /\ arg \in [THREADS -> PROCS \cup THREADS \cup {None}]
      /\ parent \in [PROCS -> PROCS \cup {None}] /\ init \in PROCS
      /\ None \notin PROCS \cup THREADS
      /\ \A u \in THREADS : pc[u] \notin {"unused", "gone"} => proc[u] \in PROCS
  BY ProcAssumption DEF PIInv, PTypeOK, ThreadInv
<1>2. FoundInv /\ DeadInv /\ LiveInv
  BY DEF PIInv

<1>3. /\ live \in [PROCS -> SUBSET PROCS] /\ dead \in [PROCS -> Seq(PROCS)]
      /\ \A r \in PROCS : Range(dead[r]) \subseteq PROCS
      /\ Range(<<>>) = {}
  BY DEF PIInv, PTypeOK, Range
<1>4. \A v \in THREADS : pc[v] = "fork_add" => arg[v] \in THREADS /\
       pc[arg[v]] = "new"
  BY DEF PIInv, NewInv
<1>5. CASE Quiet(t)
  <2>1. /\ UNCHANGED <<arg, parent, live, dead, freed>>
        /\ \A u \in THREADS \ {t} : pc'[u] = pc[u] /\ proc'[u] = proc[u]
        /\ pc[t] \notin {"wait_free", "fork_add", "new"}
    BY <1>1, <1>5, QuietEffect
  <2> QED
    BY <1>2, <1>4, <2>1 DEF FoundInv
<1>6. CASE Fork(t)
  <2>1. PICK q \in FreshProcs, u \in FreshThreads :
          LET p == proc[t] IN
          /\ p \in PROCS /\ pc[t] = "user" /\ t # u /\ p # q
          /\ proc' = [proc EXCEPT ![u] = q] /\ parent' = [parent EXCEPT ![q] = p]
          /\ arg' = [arg EXCEPT ![t] = u]
          /\ pc' = [pc EXCEPT ![t] = "fork_add", ![u] = "new"]
          /\ UNCHANGED <<live, dead, freed>>
    BY <1>6, ForkEffect DEF childVars, waitVars, lockVars
  <2>2. /\ q \in PROCS \ {init} /\ u \in THREADS /\ pc[u] = "unused" /\ proc[u] = None
        /\ arg[u] = None /\ parent[q] = None /\ q \notin freed /\ ~Listed(q)
        /\ \A v \in THREADS : proc[v] # q /\ arg[v] # q
        /\ \A v \in THREADS : pc[v] = "fork_add" => arg[v] # u
    BY FreshFacts
  <2>9. ASSUME NEW a \in PROCS, a \notin freed', parent'[a] # None
        PROVE  \/ a \in live'[parent'[a]] \/ a \in Range(dead'[parent'[a]])
               \/ \E v \in THREADS : \/ pc'[v] = "wait_free" /\ arg'[v] = a
                                     \/ pc'[v] = "fork_add" /\ proc'[arg'[v]] = a
    <3>1. CASE a = q
      BY <1>1, <2>1, <2>2, <3>1
    <3>2. CASE a # q
      <4>1. a \notin freed /\ parent[a] # None /\ parent[a] \in PROCS
        BY <1>1, <2>1, <3>2, <2>9
      <4>2. \/ a \in live[parent[a]] \/ a \in Range(dead[parent[a]])
            \/ \E v \in THREADS : \/ pc[v] = "wait_free" /\ arg[v] = a
                                  \/ pc[v] = "fork_add" /\ proc[arg[v]] = a
        BY <1>2, <4>1 DEF FoundInv
      <4> QED
        BY <1>1, <1>4, <2>1, <2>2, <3>2, <4>1, <4>2
    <3> QED
      BY <3>1, <3>2
  <2> QED
    BY <2>9 DEF FoundInv
<1>7. CASE ForkAdd(t)
  <2>1. /\ arg[t] \in THREADS /\ t # arg[t] /\ pc[t] = "fork_add" /\ pc[arg[t]] = "new"
        /\ parent[proc[arg[t]]] = proc[t] /\ ~Listed(proc[arg[t]]) /\ proc[arg[t]] \notin freed
        /\ \A v \in THREADS : proc[v] = proc[arg[t]] => v = arg[t]
        /\ proc[t] \in PROCS /\ proc[arg[t]] \in PROCS
        /\ live' = [live EXCEPT ![proc[t]] = @ \cup {proc[arg[t]]}]
        /\ pc' = [pc EXCEPT ![t] = "user", ![arg[t]] = "user"]
        /\ arg' = [arg EXCEPT ![t] = None]
        /\ UNCHANGED <<proc, parent, dead, freed>>
    BY <1>7, ForkAddEffect
  <2>2. PICK p \in PROCS, q \in PROCS, u \in THREADS : p = proc[t] /\ u = arg[t] /\ q = proc[u]
    BY <2>1
  <2>9. ASSUME NEW a \in PROCS, a \notin freed', parent'[a] # None
        PROVE  \/ a \in live'[parent'[a]] \/ a \in Range(dead'[parent'[a]])
               \/ \E v \in THREADS : \/ pc'[v] = "wait_free" /\ arg'[v] = a
                                     \/ pc'[v] = "fork_add" /\ proc'[arg'[v]] = a
    <3>1. a \notin freed /\ parent[a] # None /\ parent[a] \in PROCS
      BY <1>1, <2>1, <2>9
    <3>2. \/ a \in live[parent[a]] \/ a \in Range(dead[parent[a]])
          \/ \E v \in THREADS : \/ pc[v] = "wait_free" /\ arg[v] = a
                                \/ pc[v] = "fork_add" /\ proc[arg[v]] = a
      BY <1>2, <3>1 DEF FoundInv
    <3>3. CASE a = q
      BY <1>1, <1>3, <2>1, <2>2, <3>3
    <3>4. CASE a # q
      BY <1>1, <1>3, <1>4, <2>1, <2>2, <3>1, <3>2, <3>4
    <3> QED
      BY <3>3, <3>4
  <2> QED
    BY <2>9 DEF FoundInv
<1>8. CASE ThreadFork(t)
  <2>1. PICK u \in FreshThreads :
          LET p == proc[t] IN
          /\ p \in PROCS \ {init} /\ pc[t] = "user" /\ t # u
          /\ "thread_fork" \in Calls[p] /\ parent[p] # None
          /\ proc' = [proc EXCEPT ![u] = p] /\ pc' = [pc EXCEPT ![u] = "user"]
          /\ UNCHANGED <<arg, parent, live, dead, freed>>
    BY <1>8, ThreadForkEffect DEF childVars, waitVars, lockVars
  <2>2. u \in THREADS /\ pc[u] = "unused"
    BY DEF FreshThreads
  <2>3. proc[u] = None /\ arg[u] = None
    BY <2>2 DEF PIInv, ThreadInv
  <2> QED
    BY <1>1, <1>2, <1>3, <1>4, <2>1, <2>2, <2>3 DEF FoundInv
<1>9. CASE Exec(t) \/ Respawn(t)
  <2>1. PICK q \in FreshProcs, u \in FreshThreads :
          LET p == proc[t] IN
          /\ p \in PROCS /\ pc[t] = "user" /\ t # u /\ p # q
          /\ \A v \in THREADS : proc[v] = p => v = t
          /\ proc' = [proc EXCEPT ![t] = q, ![u] = p]
          /\ pc' = [pc EXCEPT ![t] = "exit", ![u] = "user"]
          /\ UNCHANGED <<arg, parent, live>>
    BY <1>9, SwapEffect DEF childVars, waitVars, lockVars
  <2>2. /\ q \in PROCS \ {init} /\ u \in THREADS /\ pc[u] = "unused" /\ proc[u] = None
        /\ arg[u] = None /\ parent[q] = None /\ q \notin freed /\ ~Listed(q)
        /\ \A v \in THREADS : proc[v] # q /\ arg[v] # q
        /\ \A v \in THREADS : pc[v] = "fork_add" => arg[v] # u
    BY FreshFacts
  <2>3. \/ UNCHANGED <<dead, freed>>
        \/ dead' = [dead EXCEPT ![init] = <<>>] /\ freed' = freed \cup Range(dead[init])
    BY <1>9, SwapEffect DEF childVars
  <2>9. ASSUME NEW a \in PROCS, a \notin freed', parent'[a] # None
        PROVE  \/ a \in live'[parent'[a]] \/ a \in Range(dead'[parent'[a]])
               \/ \E v \in THREADS : \/ pc'[v] = "wait_free" /\ arg'[v] = a
                                     \/ pc'[v] = "fork_add" /\ proc'[arg'[v]] = a
    <3>1. a \notin freed /\ parent[a] # None /\ parent[a] \in PROCS
      BY <1>1, <2>1, <2>3, <2>9
    <3>2. \/ a \in live[parent[a]] \/ a \in Range(dead[parent[a]])
          \/ \E v \in THREADS : \/ pc[v] = "wait_free" /\ arg[v] = a
                                \/ pc[v] = "fork_add" /\ proc[arg[v]] = a
      BY <1>2, <3>1 DEF FoundInv
    <3>3. a \in Range(dead[parent[a]]) => a \in Range(dead'[parent[a]])
      BY <1>1, <1>3, <2>3, <2>9, <3>1
    <3> QED
      BY <1>1, <1>4, <2>1, <2>2, <3>1, <3>2, <3>3
  <2> QED
    BY <2>9 DEF FoundInv
<1>10. CASE WaitReap(t)
  <2>1. /\ pc[t] = "wait_test" /\ proc[t] \in PROCS /\ pc' = [pc EXCEPT ![t] = "wait_free"]
        /\ Head(dead[proc[t]]) \in PROCS
        /\ arg' = [arg EXCEPT ![t] = Head(dead[proc[t]])]
        /\ UNCHANGED <<proc, parent, live, freed>>
        /\ Range(dead[proc[t]]) = {Head(dead[proc[t]])} \cup Range(Tail(dead[proc[t]]))
        /\ dead' = [dead EXCEPT ![proc[t]] = Tail(@)]
    BY <1>10, WaitReapEffect
  <2>2. PICK p \in PROCS, q \in PROCS : p = proc[t] /\ q = Head(dead[p])
    BY <2>1
  <2>9. ASSUME NEW a \in PROCS, a \notin freed', parent'[a] # None
        PROVE  \/ a \in live'[parent'[a]] \/ a \in Range(dead'[parent'[a]])
               \/ \E v \in THREADS : \/ pc'[v] = "wait_free" /\ arg'[v] = a
                                     \/ pc'[v] = "fork_add" /\ proc'[arg'[v]] = a
    <3>1. a \notin freed /\ parent[a] # None /\ parent[a] \in PROCS
      BY <1>1, <2>1, <2>9
    <3>2. \/ a \in live[parent[a]] \/ a \in Range(dead[parent[a]])
          \/ \E v \in THREADS : \/ pc[v] = "wait_free" /\ arg[v] = a
                                \/ pc[v] = "fork_add" /\ proc[arg[v]] = a
      BY <1>2, <3>1 DEF FoundInv
    <3>3. /\ Range(dead[p]) = {q} \cup Range(dead'[p]) /\ \A x \in PROCS \ {p} : dead'[x] = dead[x]
      BY <1>3, <2>1, <2>2
    <3>4. arg'[t] = q /\ pc'[t] = "wait_free"
      BY <1>1, <2>1, <2>2
    <3>5. \A v \in THREADS \ {t} : pc'[v] = pc[v] /\ arg'[v] = arg[v]
      BY <1>1, <2>1
    <3> QED
      BY <2>1, <2>2, <3>1, <3>2, <3>3, <3>4, <3>5
  <2> QED
    BY <2>9 DEF FoundInv
<1>11. CASE WaitFree(t)
  <2>1. /\ pc[t] = "wait_free" /\ pc' = [pc EXCEPT ![t] = "user"] /\ heapOwner = None
        /\ arg' = [arg EXCEPT ![t] = None] /\ freed' = freed \cup {arg[t]}
        /\ UNCHANGED <<proc, parent, live, dead>>
    BY <1>11 DEF WaitFree, At, Goto, childVars
  <2>2. /\ arg[t] \in PROCS \ freed /\ parent[arg[t]] # None /\ Over(arg[t]) /\ ~Listed(arg[t])
        /\ \A u \in THREADS : pc[u] = "wait_free" /\ arg[u] = arg[t] => u = t
    BY <2>1 DEF PIInv, TakenInv
  <2>9. ASSUME NEW a \in PROCS, a \notin freed', parent'[a] # None
        PROVE  \/ a \in live'[parent'[a]] \/ a \in Range(dead'[parent'[a]])
               \/ \E v \in THREADS : \/ pc'[v] = "wait_free" /\ arg'[v] = a
                                     \/ pc'[v] = "fork_add" /\ proc'[arg'[v]] = a
    <3>1. a \notin freed /\ parent[a] # None /\ parent[a] \in PROCS
      BY <1>1, <2>1, <2>9
    <3>2. \/ a \in live[parent[a]] \/ a \in Range(dead[parent[a]])
          \/ \E v \in THREADS : \/ pc[v] = "wait_free" /\ arg[v] = a
                                \/ pc[v] = "fork_add" /\ proc[arg[v]] = a
      BY <1>2, <3>1 DEF FoundInv
    <3>3. a # arg[t]
      BY <2>1, <2>9
    <3>4. \A v \in THREADS \ {t} : pc'[v] = pc[v] /\ arg'[v] = arg[v]
      BY <1>1, <2>1
    <3> QED
      BY <2>1, <3>1, <3>2, <3>3, <3>4
  <2> QED
    BY <2>9 DEF FoundInv
<1>12. CASE OrphanMove(t)
  <2>1. /\ pc'[t] = "die_last"
        /\ \A u \in THREADS \ {t} :
             \/ pc'[u] = pc[u]
             \/ pc[u] = "asleep" /\ proc[u] = init /\ pc'[u] = "wait_lock"
    BY <1>12, OrphanMoveWakes
  <2>2. /\ proc[t] \in PROCS \ {init} /\ pc[t] = "orphan_move"
        /\ parent' = [q \in PROCS |-> IF q \in live[proc[t]] \cup Range(dead[proc[t]])
                                      THEN init ELSE parent[q]]
        /\ UNCHANGED <<proc, arg, freed>>
    BY <1>12, OrphanMoveEffect
  <2>3. /\ \A v \in THREADS : proc[v] = proc[t] /\ v # t => pc[v] \in {"die", "dead"}
        /\ live' = [live EXCEPT ![init] = @ \cup live[proc[t]], ![proc[t]] = {}]
        /\ dead'[proc[t]] = <<>>
        /\ Range(dead'[init]) = Range(dead[init]) \cup Range(dead[proc[t]])
        /\ \A i, j \in DOMAIN dead'[init] : dead'[init][i] = dead'[init][j] => i = j
        /\ \A q \in PROCS \ {proc[t], init} : dead'[q] = dead[q]
    BY <1>12, OrphanMoveEffect
  <2>4. PICK p \in PROCS \ {init} : p = proc[t]
    BY <2>2
  <2>5. /\ live'[init] = live[init] \cup live[p] /\ live'[p] = {} /\ Range(dead'[p]) = {}
        /\ \A r \in PROCS \ {p, init} : live'[r] = live[r] /\ Range(dead'[r]) = Range(dead[r])
        /\ Range(dead'[init]) = Range(dead[init]) \cup Range(dead[p])
        /\ \A q \in PROCS : parent'[q] = IF q \in live[p] \cup Range(dead[p]) THEN init
                                           ELSE parent[q]
    BY <1>1, <1>3, <2>2, <2>3, <2>4
  <2>9. ASSUME NEW a \in PROCS, a \notin freed', parent'[a] # None
        PROVE  \/ a \in live'[parent'[a]] \/ a \in Range(dead'[parent'[a]])
               \/ \E v \in THREADS : \/ pc'[v] = "wait_free" /\ arg'[v] = a
                                     \/ pc'[v] = "fork_add" /\ proc'[arg'[v]] = a
    <3>1. CASE a \in live[p] \cup Range(dead[p])
      BY <1>1, <2>5, <3>1
    <3>2. CASE a \notin live[p] \cup Range(dead[p])
      <4>1. a \notin freed /\ parent'[a] = parent[a] /\ parent[a] \in PROCS
        BY <1>1, <2>2, <2>5, <2>9, <3>2
      <4>2. \/ a \in live[parent[a]] \/ a \in Range(dead[parent[a]])
            \/ \E v \in THREADS : \/ pc[v] = "wait_free" /\ arg[v] = a
                                  \/ pc[v] = "fork_add" /\ proc[arg[v]] = a
        BY <1>1, <1>2, <4>1 DEF FoundInv
      <4>3. a \in live[parent[a]] => a \in live'[parent[a]]
        BY <2>4, <2>5, <3>2, <4>1
      <4>4. a \in Range(dead[parent[a]]) => a \in Range(dead'[parent[a]])
        BY <2>4, <2>5, <3>2, <4>1
      <4> QED
        BY <2>1, <2>2, <4>1, <4>2, <4>3, <4>4
    <3> QED
      BY <3>1, <3>2
  <2> QED
    BY <2>9 DEF FoundInv
<1>13. CASE DieLock(t)
  <2>1. /\ proc[t] \in PROCS \ {init} /\ UNCHANGED <<proc, parent, live, dead>>
        /\ \/ /\ pc[t] = "die" /\ pc' = [pc EXCEPT ![t] = "dead"] /\ UNCHANGED <<arg, freed>>
           \/ /\ pc[t] = "die_last" /\ parent[proc[t]] = None
              /\ pc' = [pc EXCEPT ![t] = "dead"] /\ UNCHANGED arg
              /\ freed' = freed \cup {proc[t]}
           \/ /\ pc[t] = "die_last" /\ pc' = [pc EXCEPT ![t] = "report"]
              /\ parent[proc[t]] \in PROCS
              /\ arg' = [arg EXCEPT ![t] = parent[proc[t]]] /\ UNCHANGED freed
    BY <1>13, DieLockEffect DEF childVars
  <2>9. ASSUME NEW a \in PROCS, a \notin freed', parent'[a] # None
        PROVE  \/ a \in live'[parent'[a]] \/ a \in Range(dead'[parent'[a]])
               \/ \E v \in THREADS : \/ pc'[v] = "wait_free" /\ arg'[v] = a
                                     \/ pc'[v] = "fork_add" /\ proc'[arg'[v]] = a
    <3>1. a \notin freed /\ parent[a] # None /\ parent[a] \in PROCS
      BY <1>1, <2>1, <2>9
    <3>2. \/ a \in live[parent[a]] \/ a \in Range(dead[parent[a]])
          \/ \E v \in THREADS : \/ pc[v] = "wait_free" /\ arg[v] = a
                                \/ pc[v] = "fork_add" /\ proc[arg[v]] = a
      BY <1>2, <3>1 DEF FoundInv
    <3>3. \A v \in THREADS \ {t} : pc'[v] = pc[v] /\ arg'[v] = arg[v]
      BY <1>1, <2>1
    <3>4. pc[t] \notin {"wait_free", "fork_add"}
      BY <2>1
    <3> QED
      BY <2>1, <3>1, <3>2, <3>3, <3>4
  <2> QED
    BY <2>9 DEF FoundInv
<1>14. CASE Report(t)
  <2>1. /\ pc'[t] = "dead"
        /\ \A u \in THREADS \ {t} :
             \/ pc'[u] = pc[u]
             \/ pc[u] = "asleep" /\ proc[u] = parent[proc[t]] /\ pc'[u] = "wait_lock"
    BY <1>14, ReportWakes
  <2>2. /\ proc[t] \in PROCS \ {init} /\ pc[t] = "report"
        /\ parent[proc[t]] \in PROCS \ {proc[t]}
        /\ arg' = [arg EXCEPT ![t] = None]
        /\ UNCHANGED <<proc, parent, freed>>
    BY <1>14, ReportEffect
  <2>3. /\ \A v \in THREADS : proc[v] = proc[t] /\ v # t => pc[v] \in {"die", "dead"}
        /\ live' = [live EXCEPT ![parent[proc[t]]] = @ \ {proc[t]}]
        /\ Range(dead'[parent[proc[t]]]) = Range(dead[parent[proc[t]]]) \cup {proc[t]}
        /\ \A i, j \in DOMAIN dead'[parent[proc[t]]] :
             dead'[parent[proc[t]]][i] = dead'[parent[proc[t]]][j] => i = j
        /\ \A q \in PROCS \ {parent[proc[t]]} : dead'[q] = dead[q]
        /\ proc[t] \in live[parent[proc[t]]] /\ proc[t] \notin freed
        /\ \A r \in PROCS : /\ proc[t] \notin Range(dead[r])
                            /\ r # parent[proc[t]] => proc[t] \notin live[r]
    BY <1>14, ReportEffect
  <2>4. PICK to \in PROCS, p \in PROCS : p = proc[t] /\ to = parent[p] /\ to # p
    BY <2>2
  <2>5. /\ live'[to] = live[to] \ {p} /\ Range(dead'[to]) = Range(dead[to]) \cup {p}
        /\ \A r \in PROCS \ {to} : live'[r] = live[r] /\ Range(dead'[r]) = Range(dead[r])
        /\ p \in live[to] /\ p \notin freed
        /\ \A r \in PROCS : p \notin Range(dead[r]) /\ (r # to => p \notin live[r])
    BY <1>3, <2>3, <2>4
  <2>9. ASSUME NEW a \in PROCS, a \notin freed', parent'[a] # None
        PROVE  \/ a \in live'[parent'[a]] \/ a \in Range(dead'[parent'[a]])
               \/ \E v \in THREADS : \/ pc'[v] = "wait_free" /\ arg'[v] = a
                                     \/ pc'[v] = "fork_add" /\ proc'[arg'[v]] = a
    <3>1. CASE a = p
      BY <2>2, <2>4, <2>5, <3>1
    <3>2. CASE a # p
      <4>1. a \notin freed /\ parent'[a] = parent[a] /\ parent[a] \in PROCS
        BY <1>1, <2>2, <2>9
      <4>2. \/ a \in live[parent[a]] \/ a \in Range(dead[parent[a]])
            \/ \E v \in THREADS : \/ pc[v] = "wait_free" /\ arg[v] = a
                                  \/ pc[v] = "fork_add" /\ proc[arg[v]] = a
        BY <1>1, <1>2, <4>1 DEF FoundInv
      <4>3. a \in live[parent[a]] => a \in live'[parent[a]]
        BY <2>5, <3>2, <4>1
      <4>4. a \in Range(dead[parent[a]]) => a \in Range(dead'[parent[a]])
        BY <2>5, <4>1
      <4>5. \A v \in THREADS \ {t} : arg'[v] = arg[v]
        BY <1>1, <2>2
      <4> QED
        BY <2>1, <2>2, <4>1, <4>2, <4>3, <4>4, <4>5
    <3> QED
      BY <3>1, <3>2
  <2> QED
    BY <2>9 DEF FoundInv
<1> QED
  BY <1>5, <1>6, <1>7, <1>8, <1>9, <1>10, <1>11, <1>12, <1>13, <1>14 DEF
     Quiet, Call, Step


\* A process whose children have moved to init gets no more.
LEMMA ChildlessStep ==
  ASSUME PIInv, Careful, NEW t \in THREADS, Call(t) \/ Step(t)
  PROVE  ChildlessInv'
<1>1. /\ proc \in [THREADS -> PROCS \cup {None}] /\ pc \in [THREADS -> Labels]
      /\ arg \in [THREADS -> PROCS \cup THREADS \cup {None}]
      /\ parent \in [PROCS -> PROCS \cup {None}] /\ init \in PROCS
      /\ None \notin PROCS \cup THREADS
      /\ \A u \in THREADS : pc[u] \notin {"unused", "gone"} => proc[u] \in PROCS
  BY ProcAssumption DEF PIInv, PTypeOK, ThreadInv
<1>2. ChildlessInv
  BY DEF PIInv

<1>3. /\ live \in [PROCS -> SUBSET PROCS] /\ dead \in [PROCS -> Seq(PROCS)]
      /\ \A r \in PROCS : Range(dead[r]) \subseteq PROCS
      /\ Range(<<>>) = {}
  BY DEF PIInv, PTypeOK, Range
<1>4. /\ refcount \in [PROCS -> Nat]
      /\ \A u \in THREADS : pc[u] \in Counted => refcount[proc[u]] > 0
      /\ refcount[init] = 1
  BY <1>1, CountedThread DEF PIInv, PTypeOK, Counted, Waiting, LoneInv,
       InitInv
<1>5. ASSUME \A r \in PROCS : refcount'[r] = 0 /\ (\A v \in THREADS : proc'[v]
       = r => pc'[v] \notin Leaving)
               => \/ /\ refcount[r] = 0 /\ \A v \in THREADS : proc[v] = r => pc[v] \notin Leaving
                     /\ live'[r] = live[r] /\ dead'[r] = dead[r]
                  \/ live'[r] = {} /\ dead'[r] = <<>>
      PROVE  ChildlessInv'
  BY <1>2, <1>5 DEF ChildlessInv
<1>6. CASE Quiet(t)
  <2>1. /\ UNCHANGED <<live, dead>> /\ pc[t] \notin {"unused", "gone"}
        /\ \/ pc[t] # "dead" /\ UNCHANGED proc
           \/ pc[t] = "dead" /\ pc'[t] = "gone" /\ proc' = [proc EXCEPT ![t] = None]
        /\ \A u \in THREADS \ {t} : pc'[u] = pc[u]
        /\ pc[t] \in Leaving /\ pc'[t] \notin Leaving => refcount[proc[t]] # 0
        /\ \/ UNCHANGED refcount
           \/ /\ pc[t] = "exit" /\ pc'[t] = "exit_left"
              /\ refcount' = [refcount EXCEPT ![proc[t]] = @ - 1]
    BY <1>6, QuietEffect
  <2>9. ASSUME NEW r \in PROCS, refcount'[r] = 0,
               \A v \in THREADS : proc'[v] = r => pc'[v] \notin Leaving
        PROVE  \/ /\ refcount[r] = 0 /\ \A v \in THREADS : proc[v] = r => pc[v] \notin Leaving
                  /\ live'[r] = live[r] /\ dead'[r] = dead[r]
               \/ live'[r] = {} /\ dead'[r] = <<>>
    <3>1. CASE proc[t] = r
      BY <1>1, <1>4, <2>1, <2>9, <3>1 DEF Leaving
    <3>2. CASE proc[t] # r
      BY <1>1, <1>4, <2>1, <2>9, <3>2
    <3> QED
      BY <3>1, <3>2
  <2> QED
    BY <1>5, <2>9
<1>7. CASE Fork(t)
  <2>1. PICK q \in FreshProcs, u \in FreshThreads :
          LET p == proc[t] IN
          /\ p \in PROCS /\ pc[t] = "user" /\ t # u /\ p # q
          /\ proc' = [proc EXCEPT ![u] = q] /\ parent' = [parent EXCEPT ![q] = p]
          /\ arg' = [arg EXCEPT ![t] = u]
          /\ pc' = [pc EXCEPT ![t] = "fork_add", ![u] = "new"]
          /\ refcount' = [refcount EXCEPT ![q] = 1]
          /\ UNCHANGED <<live, dead>>
    BY <1>7, ForkEffect DEF childVars, waitVars, lockVars
  <2>2. /\ q \in PROCS \ {init} /\ u \in THREADS /\ pc[u] = "unused" /\ proc[u] = None
        /\ arg[u] = None /\ parent[q] = None /\ q \notin freed /\ ~Listed(q)
        /\ \A v \in THREADS : proc[v] # q /\ arg[v] # q
        /\ \A v \in THREADS : pc[v] = "fork_add" => arg[v] # u
    BY FreshFacts
  <2>9. ASSUME NEW r \in PROCS, refcount'[r] = 0,
               \A v \in THREADS : proc'[v] = r => pc'[v] \notin Leaving
        PROVE  \/ /\ refcount[r] = 0 /\ \A v \in THREADS : proc[v] = r => pc[v] \notin Leaving
                  /\ live'[r] = live[r] /\ dead'[r] = dead[r]
               \/ live'[r] = {} /\ dead'[r] = <<>>
    BY SMTT(30), <1>1, <1>4, <2>1, <2>2, <2>9 DEF Leaving
  <2> QED
    BY <1>5, <2>9
<1>8. CASE ForkAdd(t)
  <2>1. /\ arg[t] \in THREADS /\ t # arg[t] /\ pc[t] = "fork_add" /\ pc[arg[t]] = "new"
        /\ parent[proc[arg[t]]] = proc[t] /\ ~Listed(proc[arg[t]]) /\ proc[arg[t]] \notin freed
        /\ \A v \in THREADS : proc[v] = proc[arg[t]] => v = arg[t]
        /\ proc[t] \in PROCS /\ proc[arg[t]] \in PROCS
        /\ live' = [live EXCEPT ![proc[t]] = @ \cup {proc[arg[t]]}]
        /\ pc' = [pc EXCEPT ![t] = "user", ![arg[t]] = "user"]
        /\ arg' = [arg EXCEPT ![t] = None]
        /\ UNCHANGED <<refcount, proc, parent, dead, freed>>
    BY <1>8, ForkAddEffect
  <2>2. PICK p \in PROCS, q \in PROCS, u \in THREADS : p = proc[t] /\ u = arg[t] /\ q = proc[u]
    BY <2>1
  <2>9. ASSUME NEW r \in PROCS, refcount'[r] = 0,
               \A v \in THREADS : proc'[v] = r => pc'[v] \notin Leaving
        PROVE  \/ /\ refcount[r] = 0 /\ \A v \in THREADS : proc[v] = r => pc[v] \notin Leaving
                  /\ live'[r] = live[r] /\ dead'[r] = dead[r]
               \/ live'[r] = {} /\ dead'[r] = <<>>
    <3>1. r # p
      BY <1>4, <2>1, <2>2, <2>9 DEF Counted
    <3> QED
      BY <1>1, <1>3, <2>1, <2>2, <2>9, <3>1 DEF Leaving
  <2> QED
    BY <1>5, <2>9
<1>9. CASE ThreadFork(t)
  <2>1. PICK u \in FreshThreads :
          LET p == proc[t] IN
          /\ p \in PROCS \ {init} /\ pc[t] = "user" /\ t # u
          /\ "thread_fork" \in Calls[p] /\ parent[p] # None
          /\ proc' = [proc EXCEPT ![u] = p] /\ pc' = [pc EXCEPT ![u] = "user"]
          /\ refcount' = [refcount EXCEPT ![p] = @ + 1]
          /\ UNCHANGED <<live, dead>>
    BY <1>9, ThreadForkEffect DEF childVars, waitVars, lockVars
  <2>2. u \in THREADS /\ pc[u] = "unused"
    BY DEF FreshThreads
  <2>3. proc[u] = None /\ arg[u] = None
    BY <2>2 DEF PIInv, ThreadInv
  <2>9. ASSUME NEW r \in PROCS, refcount'[r] = 0,
               \A v \in THREADS : proc'[v] = r => pc'[v] \notin Leaving
        PROVE  \/ /\ refcount[r] = 0 /\ \A v \in THREADS : proc[v] = r => pc[v] \notin Leaving
                  /\ live'[r] = live[r] /\ dead'[r] = dead[r]
               \/ live'[r] = {} /\ dead'[r] = <<>>
    BY <1>1, <1>4, <2>1, <2>2, <2>3, <2>9 DEF Leaving
  <2> QED
    BY <1>5, <2>9
<1>10. CASE Exec(t) \/ Respawn(t)
  <2>1. PICK q \in FreshProcs, u \in FreshThreads :
          LET p == proc[t] IN
          /\ p \in PROCS /\ pc[t] = "user" /\ t # u /\ p # q
          /\ \A v \in THREADS : proc[v] = p => v = t
          /\ proc' = [proc EXCEPT ![t] = q, ![u] = p]
          /\ pc' = [pc EXCEPT ![t] = "exit", ![u] = "user"]
          /\ refcount[p] = 1 /\ refcount' = [refcount EXCEPT ![q] = 1]
          /\ UNCHANGED live
    BY <1>10, SwapEffect DEF childVars, waitVars, lockVars
  <2>2. /\ q \in PROCS \ {init} /\ u \in THREADS /\ pc[u] = "unused" /\ proc[u] = None
        /\ arg[u] = None /\ parent[q] = None /\ q \notin freed /\ ~Listed(q)
        /\ \A v \in THREADS : proc[v] # q /\ arg[v] # q
        /\ \A v \in THREADS : pc[v] = "fork_add" => arg[v] # u
    BY FreshFacts
  <2>3. UNCHANGED dead \/ (proc[t] = init /\ dead' = [dead EXCEPT ![init] = <<>>])
    BY <1>10, SwapEffect DEF childVars
  <2>9. ASSUME NEW r \in PROCS, refcount'[r] = 0,
               \A v \in THREADS : proc'[v] = r => pc'[v] \notin Leaving
        PROVE  \/ /\ refcount[r] = 0 /\ \A v \in THREADS : proc[v] = r => pc[v] \notin Leaving
                  /\ live'[r] = live[r] /\ dead'[r] = dead[r]
               \/ live'[r] = {} /\ dead'[r] = <<>>
    <3>1. r # q /\ r # proc[t]
      BY <1>4, <2>1, <2>2, <2>9
    <3> QED
      BY <1>1, <1>3, <1>4, <2>1, <2>2, <2>3, <2>9, <3>1 DEF Leaving
  <2> QED
    BY <1>5, <2>9
<1>11. CASE WaitReap(t)
  <2>1. /\ pc[t] = "wait_test" /\ proc[t] \in PROCS /\ pc' = [pc EXCEPT ![t] = "wait_free"]
        /\ Head(dead[proc[t]]) \in PROCS
        /\ arg' = [arg EXCEPT ![t] = Head(dead[proc[t]])]
        /\ UNCHANGED <<refcount, proc, parent, live, freed>>
        /\ Range(dead[proc[t]]) = {Head(dead[proc[t]])} \cup Range(Tail(dead[proc[t]]))
        /\ dead' = [dead EXCEPT ![proc[t]] = Tail(@)]
    BY <1>11, WaitReapEffect
  <2>2. PICK p \in PROCS, q \in PROCS : p = proc[t] /\ q = Head(dead[p])
    BY <2>1
  <2>9. ASSUME NEW r \in PROCS, refcount'[r] = 0,
               \A v \in THREADS : proc'[v] = r => pc'[v] \notin Leaving
        PROVE  \/ /\ refcount[r] = 0 /\ \A v \in THREADS : proc[v] = r => pc[v] \notin Leaving
                  /\ live'[r] = live[r] /\ dead'[r] = dead[r]
               \/ live'[r] = {} /\ dead'[r] = <<>>
    <3>1. r # p
      BY <1>4, <2>1, <2>2, <2>9 DEF Counted, Waiting
    <3> QED
      BY <1>1, <1>3, <2>1, <2>2, <2>9, <3>1 DEF Leaving
  <2> QED
    BY <1>5, <2>9
<1>12. CASE WaitFree(t)
  <2>1. /\ pc[t] = "wait_free" /\ pc' = [pc EXCEPT ![t] = "user"]
        /\ UNCHANGED <<proc, refcount, live, dead>>
    BY <1>12 DEF WaitFree, At, Goto, childVars
  <2>9. ASSUME NEW r \in PROCS, refcount'[r] = 0,
               \A v \in THREADS : proc'[v] = r => pc'[v] \notin Leaving
        PROVE  \/ /\ refcount[r] = 0 /\ \A v \in THREADS : proc[v] = r => pc[v] \notin Leaving
                  /\ live'[r] = live[r] /\ dead'[r] = dead[r]
               \/ live'[r] = {} /\ dead'[r] = <<>>
    BY <1>1, <2>1, <2>9 DEF Leaving
  <2> QED
    BY <1>5, <2>9
<1>13. CASE OrphanMove(t)
  <2>1. /\ pc'[t] = "die_last"
        /\ \A u \in THREADS \ {t} :
             \/ pc'[u] = pc[u]
             \/ pc[u] = "asleep" /\ proc[u] = init /\ pc'[u] = "wait_lock"
    BY <1>13, OrphanMoveWakes
  <2>2. /\ proc[t] \in PROCS \ {init} /\ pc[t] = "orphan_move"
        /\ parent' = [q \in PROCS |-> IF q \in live[proc[t]] \cup Range(dead[proc[t]])
                                      THEN init ELSE parent[q]]
        /\ UNCHANGED <<proc, arg, refcount, freed>>
    BY <1>13, OrphanMoveEffect
  <2>3. /\ \A v \in THREADS : proc[v] = proc[t] /\ v # t => pc[v] \in {"die", "dead"}
        /\ live' = [live EXCEPT ![init] = @ \cup live[proc[t]], ![proc[t]] = {}]
        /\ dead'[proc[t]] = <<>>
        /\ Range(dead'[init]) = Range(dead[init]) \cup Range(dead[proc[t]])
        /\ \A i, j \in DOMAIN dead'[init] : dead'[init][i] = dead'[init][j] => i = j
        /\ \A q \in PROCS \ {proc[t], init} : dead'[q] = dead[q]
    BY <1>13, OrphanMoveEffect
  <2>4. PICK p \in PROCS \ {init} : p = proc[t]
    BY <2>2
  <2>5. /\ live'[init] = live[init] \cup live[p] /\ live'[p] = {} /\ Range(dead'[p]) = {}
        /\ \A r \in PROCS \ {p, init} : live'[r] = live[r] /\ Range(dead'[r]) = Range(dead[r])
        /\ Range(dead'[init]) = Range(dead[init]) \cup Range(dead[p])
        /\ \A q \in PROCS : parent'[q] = IF q \in live[p] \cup Range(dead[p]) THEN init
                                           ELSE parent[q]
    BY <1>1, <1>3, <2>2, <2>3, <2>4
  <2>9. ASSUME NEW r \in PROCS, refcount'[r] = 0,
               \A v \in THREADS : proc'[v] = r => pc'[v] \notin Leaving
        PROVE  \/ /\ refcount[r] = 0 /\ \A v \in THREADS : proc[v] = r => pc[v] \notin Leaving
                  /\ live'[r] = live[r] /\ dead'[r] = dead[r]
               \/ live'[r] = {} /\ dead'[r] = <<>>
    <3>1. r # init
      BY <1>4, <2>2, <2>9
    <3>2. CASE r = p
      BY <2>3, <2>4, <2>5, <3>2
    <3>3. CASE r # p
      BY <2>1, <2>2, <2>3, <2>4, <2>5, <2>9, <3>1, <3>3 DEF Leaving
    <3> QED
      BY <3>2, <3>3
  <2> QED
    BY <1>5, <2>9
<1>14. CASE DieLock(t)
  <2>1. /\ pc[t] \in {"die", "die_last"} /\ UNCHANGED <<proc, refcount, live, dead>>
        /\ \E l \in {"dead", "report"} : pc' = [pc EXCEPT ![t] = l]
    BY <1>14, DieLockEffect DEF childVars
  <2>9. ASSUME NEW r \in PROCS, refcount'[r] = 0,
               \A v \in THREADS : proc'[v] = r => pc'[v] \notin Leaving
        PROVE  \/ /\ refcount[r] = 0 /\ \A v \in THREADS : proc[v] = r => pc[v] \notin Leaving
                  /\ live'[r] = live[r] /\ dead'[r] = dead[r]
               \/ live'[r] = {} /\ dead'[r] = <<>>
    BY <1>1, <2>1, <2>9 DEF Leaving
  <2> QED
    BY <1>5, <2>9
<1>15. CASE Report(t)
  <2>1. /\ pc'[t] = "dead"
        /\ \A u \in THREADS \ {t} :
             \/ pc'[u] = pc[u]
             \/ pc[u] = "asleep" /\ proc[u] = parent[proc[t]] /\ pc'[u] = "wait_lock"
    BY <1>15, ReportWakes
  <2>2. /\ proc[t] \in PROCS \ {init} /\ pc[t] = "report"
        /\ parent[proc[t]] \in PROCS \ {proc[t]}
        /\ arg' = [arg EXCEPT ![t] = None]
        /\ UNCHANGED <<proc, parent, refcount, freed>>
    BY <1>15, ReportEffect
  <2>3. /\ \A v \in THREADS : proc[v] = proc[t] /\ v # t => pc[v] \in {"die", "dead"}
        /\ live' = [live EXCEPT ![parent[proc[t]]] = @ \ {proc[t]}]
        /\ Range(dead'[parent[proc[t]]]) = Range(dead[parent[proc[t]]]) \cup {proc[t]}
        /\ \A i, j \in DOMAIN dead'[parent[proc[t]]] :
             dead'[parent[proc[t]]][i] = dead'[parent[proc[t]]][j] => i = j
        /\ \A q \in PROCS \ {parent[proc[t]]} : dead'[q] = dead[q]
        /\ proc[t] \in live[parent[proc[t]]] /\ proc[t] \notin freed
        /\ \A r \in PROCS : /\ proc[t] \notin Range(dead[r])
                            /\ r # parent[proc[t]] => proc[t] \notin live[r]
    BY <1>15, ReportEffect
  <2>4. PICK to \in PROCS, p \in PROCS : p = proc[t] /\ to = parent[p] /\ to # p
    BY <2>2
  <2>5. /\ live'[to] = live[to] \ {p} /\ Range(dead'[to]) = Range(dead[to]) \cup {p}
        /\ \A r \in PROCS \ {to} : live'[r] = live[r] /\ Range(dead'[r]) = Range(dead[r])
        /\ p \in live[to] /\ p \notin freed
        /\ \A r \in PROCS : p \notin Range(dead[r]) /\ (r # to => p \notin live[r])
    BY <1>3, <2>3, <2>4
  <2>9. ASSUME NEW r \in PROCS, refcount'[r] = 0,
               \A v \in THREADS : proc'[v] = r => pc'[v] \notin Leaving
        PROVE  \/ /\ refcount[r] = 0 /\ \A v \in THREADS : proc[v] = r => pc[v] \notin Leaving
                  /\ live'[r] = live[r] /\ dead'[r] = dead[r]
               \/ live'[r] = {} /\ dead'[r] = <<>>
    <3>1. refcount[r] = 0 /\ \A v \in THREADS : proc[v] = r => pc[v] \notin Leaving
      BY <2>1, <2>2, <2>9 DEF Leaving
    <3>2. r # to
      BY <1>2, <2>5, <3>1 DEF ChildlessInv
    <3> QED
      BY <2>3, <2>4, <2>5, <3>1, <3>2
  <2> QED
    BY <1>5, <2>9
<1> QED
  BY <1>6, <1>7, <1>8, <1>9, <1>10, <1>11, <1>12, <1>13, <1>14, <1>15 DEF
     Quiet, Call, Step


\* What is freed is over and stays over, and is never reported to.
LEMMA FreedStep ==
  ASSUME PIInv, Careful, NEW t \in THREADS, Call(t) \/ Step(t)
  PROVE  FreedInv'
<1>1. /\ proc \in [THREADS -> PROCS \cup {None}] /\ pc \in [THREADS -> Labels]
      /\ arg \in [THREADS -> PROCS \cup THREADS \cup {None}]
      /\ parent \in [PROCS -> PROCS \cup {None}] /\ init \in PROCS
      /\ None \notin PROCS \cup THREADS
      /\ \A u \in THREADS : pc[u] \notin {"unused", "gone"} => proc[u] \in PROCS
  BY ProcAssumption DEF PIInv, PTypeOK, ThreadInv
<1>2. FreedInv /\ RefLockInv
  BY DEF PIInv

<1>3. /\ live \in [PROCS -> SUBSET PROCS] /\ dead \in [PROCS -> Seq(PROCS)]
      /\ \A r \in PROCS : Range(dead[r]) \subseteq PROCS
      /\ Range(<<>>) = {}
  BY DEF PIInv, PTypeOK, Range
<1>4. \A a \in PROCS : a \in freed => Over(a)' /\ a # init
  <2> SUFFICES ASSUME NEW a \in PROCS, a \in freed
               PROVE  Over(a)' /\ a # init
    OBVIOUS
  <2>1. a \notin FreshProcs /\ Over(a) /\ a # init
    BY <1>2 DEF FreshProcs, FreedInv
  <2> QED
    BY <2>1, OverKept
<1>5. freed \in SUBSET PROCS /\ parent[init] = None
  BY DEF PIInv, PTypeOK, LoneInv, InitInv
<1>6. \A v \in THREADS : pc[v] = "report" => arg[v] \notin freed /\ heapOwner
       = v
  BY <1>2 DEF FreedInv, RefLockInv
<1>7. ASSUME \A a \in freed' : a \in freed \/ (a # init /\ Over(a)'),
             \A v \in THREADS : pc'[v] = "report" => arg'[v] \notin freed'
      PROVE  FreedInv'
  BY <1>4, <1>5, <1>7 DEF FreedInv
<1>8. CASE Quiet(t)
  <2>1. /\ UNCHANGED <<arg, freed>> /\ pc'[t] # "report"
        /\ \A u \in THREADS \ {t} : pc'[u] = pc[u]
    BY <1>8, QuietEffect
  <2> QED
    BY <1>6, <1>7, <2>1
<1>9. CASE Fork(t)
  <2>1. PICK q \in FreshProcs, u \in FreshThreads :
          LET p == proc[t] IN
          /\ p \in PROCS /\ pc[t] = "user" /\ t # u /\ p # q
          /\ proc' = [proc EXCEPT ![u] = q] /\ parent' = [parent EXCEPT ![q] = p]
          /\ arg' = [arg EXCEPT ![t] = u]
          /\ pc' = [pc EXCEPT ![t] = "fork_add", ![u] = "new"]
          /\ UNCHANGED <<freed>>
    BY <1>9, ForkEffect DEF childVars, waitVars, lockVars
  <2>2. /\ q \in PROCS \ {init} /\ u \in THREADS /\ pc[u] = "unused" /\ proc[u] = None
        /\ arg[u] = None /\ parent[q] = None /\ q \notin freed /\ ~Listed(q)
        /\ \A v \in THREADS : proc[v] # q /\ arg[v] # q
        /\ \A v \in THREADS : pc[v] = "fork_add" => arg[v] # u
    BY FreshFacts
  <2> QED
    BY <1>1, <1>6, <1>7, <2>1, <2>2
<1>10. CASE ForkAdd(t)
  <2>1. /\ arg[t] \in THREADS /\ t # arg[t] /\ pc[t] = "fork_add" /\ pc[arg[t]] = "new"
        /\ parent[proc[arg[t]]] = proc[t] /\ ~Listed(proc[arg[t]]) /\ proc[arg[t]] \notin freed
        /\ \A v \in THREADS : proc[v] = proc[arg[t]] => v = arg[t]
        /\ proc[t] \in PROCS /\ proc[arg[t]] \in PROCS
        /\ live' = [live EXCEPT ![proc[t]] = @ \cup {proc[arg[t]]}]
        /\ pc' = [pc EXCEPT ![t] = "user", ![arg[t]] = "user"]
        /\ arg' = [arg EXCEPT ![t] = None]
        /\ UNCHANGED <<proc, parent, dead, freed>>
    BY <1>10, ForkAddEffect
  <2>2. PICK p \in PROCS, q \in PROCS, u \in THREADS : p = proc[t] /\ u = arg[t] /\ q = proc[u]
    BY <2>1
  <2> QED
    BY <1>1, <1>6, <1>7, <2>1, <2>2
<1>11. CASE ThreadFork(t)
  <2>1. PICK u \in FreshThreads :
          LET p == proc[t] IN
          /\ p \in PROCS \ {init} /\ pc[t] = "user" /\ t # u
          /\ "thread_fork" \in Calls[p] /\ parent[p] # None
          /\ proc' = [proc EXCEPT ![u] = p] /\ pc' = [pc EXCEPT ![u] = "user"]
          /\ UNCHANGED <<arg, freed>>
    BY <1>11, ThreadForkEffect DEF childVars, waitVars, lockVars
  <2>2. u \in THREADS /\ pc[u] = "unused"
    BY DEF FreshThreads
  <2>3. proc[u] = None /\ arg[u] = None
    BY <2>2 DEF PIInv, ThreadInv
  <2> QED
    BY <1>1, <1>6, <1>7, <2>1, <2>2
<1>12. CASE Exec(t) \/ Respawn(t)
  <2>1. PICK q \in FreshProcs, u \in FreshThreads :
          LET p == proc[t] IN
          /\ p \in PROCS /\ pc[t] = "user" /\ t # u /\ p # q
          /\ \A v \in THREADS : proc[v] = p => v = t
          /\ proc' = [proc EXCEPT ![t] = q, ![u] = p]
          /\ pc' = [pc EXCEPT ![t] = "exit", ![u] = "user"]
          /\ UNCHANGED <<arg>>
    BY <1>12, SwapEffect DEF childVars, waitVars, lockVars
  <2>2. /\ q \in PROCS \ {init} /\ u \in THREADS /\ pc[u] = "unused" /\ proc[u] = None
        /\ arg[u] = None /\ parent[q] = None /\ q \notin freed /\ ~Listed(q)
        /\ \A v \in THREADS : proc[v] # q /\ arg[v] # q
        /\ \A v \in THREADS : pc[v] = "fork_add" => arg[v] # u
    BY FreshFacts
  <2>3. \/ UNCHANGED freed
        \/ freed' = freed \cup Range(dead[init]) /\ heapOwner = None
    BY <1>12, SwapEffect DEF childVars, Exec, Respawn
  <2>4. \A a \in Range(dead[init]) : a # init /\ Over(a)'
    <3> SUFFICES ASSUME NEW a \in Range(dead[init])
                 PROVE  a # init /\ Over(a)'
      OBVIOUS
    <3>1. a \in PROCS /\ a \notin FreshProcs /\ Over(a) /\ parent[a] = init
      BY <1>1, <1>3 DEF PIInv, DeadInv, FreshProcs
    <3> QED
      BY <1>1, <1>5, <3>1, OverKept
  <2>5. \A v \in THREADS : pc'[v] = "report" => pc[v] = "report"
    BY <1>1, <2>1, <2>2
  <2> QED
    BY <1>1, <1>6, <1>7, <2>1, <2>3, <2>4, <2>5
<1>13. CASE WaitReap(t)
  <2>1. /\ pc[t] = "wait_test" /\ proc[t] \in PROCS /\ pc' = [pc EXCEPT ![t] = "wait_free"]
        /\ Head(dead[proc[t]]) \in PROCS
        /\ arg' = [arg EXCEPT ![t] = Head(dead[proc[t]])]
        /\ UNCHANGED <<proc, parent, live, freed>>
        /\ Range(dead[proc[t]]) = {Head(dead[proc[t]])} \cup Range(Tail(dead[proc[t]]))
        /\ dead' = [dead EXCEPT ![proc[t]] = Tail(@)]
    BY <1>13, WaitReapEffect
  <2>2. PICK p \in PROCS, q \in PROCS : p = proc[t] /\ q = Head(dead[p])
    BY <2>1
  <2> QED
    BY <1>1, <1>6, <1>7, <2>1, <2>2
<1>14. CASE WaitFree(t)
  <2>1. /\ pc[t] = "wait_free" /\ pc' = [pc EXCEPT ![t] = "user"] /\ heapOwner = None
        /\ arg' = [arg EXCEPT ![t] = None] /\ freed' = freed \cup {arg[t]}
        /\ UNCHANGED <<proc, parent, live, dead>>
    BY <1>14 DEF WaitFree, At, Goto, childVars
  <2>2. /\ arg[t] \in PROCS \ freed /\ parent[arg[t]] # None /\ Over(arg[t]) /\ ~Listed(arg[t])
        /\ \A u \in THREADS : pc[u] = "wait_free" /\ arg[u] = arg[t] => u = t
    BY <2>1 DEF PIInv, TakenInv
  <2>3. PICK a \in PROCS : a = arg[t]
    BY <2>2
  <2>4. a # init /\ a \notin FreshProcs /\ Over(a)
    BY <1>5, <2>1, <2>2, <2>3 DEF FreshProcs, Over
  <2>5. Over(a)'
    BY <2>4, OverKept
  <2>6. \A v \in THREADS : pc'[v] # "report"
    BY <1>1, <1>6, <2>1
  <2> QED
    BY <1>7, <2>1, <2>3, <2>4, <2>5, <2>6
<1>15. CASE OrphanMove(t)
  <2>1. /\ pc'[t] = "die_last"
        /\ \A u \in THREADS \ {t} :
             \/ pc'[u] = pc[u]
             \/ pc[u] = "asleep" /\ proc[u] = init /\ pc'[u] = "wait_lock"
    BY <1>15, OrphanMoveWakes
  <2>2. /\ proc[t] \in PROCS \ {init} /\ pc[t] = "orphan_move"
        /\ parent' = [q \in PROCS |-> IF q \in live[proc[t]] \cup Range(dead[proc[t]])
                                      THEN init ELSE parent[q]]
        /\ UNCHANGED <<proc, arg, freed>>
    BY <1>15, OrphanMoveEffect
  <2> QED
    BY <1>6, <1>7, <2>1, <2>2
<1>16. CASE DieLock(t)
  <2>1. /\ proc[t] \in PROCS \ {init} /\ UNCHANGED <<proc, parent, live, dead>>
        /\ \/ /\ pc[t] = "die" /\ pc' = [pc EXCEPT ![t] = "dead"] /\ UNCHANGED <<arg, freed>>
           \/ /\ pc[t] = "die_last" /\ parent[proc[t]] = None
              /\ pc' = [pc EXCEPT ![t] = "dead"] /\ UNCHANGED arg
              /\ freed' = freed \cup {proc[t]}
           \/ /\ pc[t] = "die_last" /\ pc' = [pc EXCEPT ![t] = "report"]
              /\ parent[proc[t]] \in PROCS
              /\ arg' = [arg EXCEPT ![t] = parent[proc[t]]] /\ UNCHANGED freed
    BY <1>16, DieLockEffect DEF childVars
  <2>2. heapOwner = None
    BY <1>16, DieLockEffect
  <2>3. \A v \in THREADS : pc[v] # "report"
    BY <1>1, <1>6, <2>2
  <2>4. CASE pc'[t] # "report"
    <3>1. \A a \in freed' : a \in freed \/ (a = proc[t] /\ pc[t] = "die_last")
      BY <1>1, <2>1, <2>4
    <3>2. PICK p \in PROCS \ {init} : p = proc[t]
      BY <2>1
    <3>3. pc[t] = "die_last" => \A v \in THREADS : proc[v] = p /\ v # t => pc[v] \in {"die", "dead"}
      BY <1>16, <3>2, DieLockEffect
    <3>4. pc[t] = "die_last" => Over(p)'
      BY <1>1, <2>1, <2>4, <3>2, <3>3 DEF Over
    <3>5. \A v \in THREADS : pc'[v] # "report"
      BY <1>1, <2>1, <2>3, <2>4
    <3> QED
      BY <1>7, <3>1, <3>2, <3>4, <3>5
  <2>5. CASE pc'[t] = "report"
    <3>1. /\ UNCHANGED freed /\ pc[t] = "die_last" /\ arg' = [arg EXCEPT ![t] = parent[proc[t]]]
          /\ parent[proc[t]] \in PROCS /\ \A v \in THREADS \ {t} : pc'[v] = pc[v]
      BY <1>1, <2>1, <2>5
    <3>2. PICK a \in PROCS : a = parent[proc[t]]
      BY <3>1
    <3>3. proc[t] \in live[a]
      BY <1>1, <3>1, <3>2 DEF PIInv, ActiveInv
    <3>4. a \notin freed
      <4> SUFFICES ASSUME a \in freed
                   PROVE  FALSE
        OBVIOUS
      <4>1. Over(a)
        BY <1>2 DEF FreedInv
      <4>2. ThreadsAt(a, Counted) = {}
        BY <4>1 DEF Over, ThreadsAt, Counted, Waiting
      <4>3. refcount[a] = 0
        BY <4>2, CountFacts DEF PIInv, CountInv
      <4>4. \A v \in THREADS : proc[v] = a => pc[v] \notin Leaving
        BY <4>1 DEF Over, Leaving
      <4> QED
        BY <3>3, <4>3, <4>4 DEF PIInv, ChildlessInv
    <3> QED
      BY <1>1, <1>7, <2>3, <3>1, <3>2, <3>4
  <2> QED
    BY <2>4, <2>5
<1>17. CASE Report(t)
  <2>1. /\ pc'[t] = "dead"
        /\ \A u \in THREADS \ {t} :
             \/ pc'[u] = pc[u]
             \/ pc[u] = "asleep" /\ proc[u] = parent[proc[t]] /\ pc'[u] = "wait_lock"
    BY <1>17, ReportWakes
  <2>2. /\ proc[t] \in PROCS \ {init} /\ pc[t] = "report"
        /\ parent[proc[t]] \in PROCS \ {proc[t]}
        /\ arg' = [arg EXCEPT ![t] = None]
        /\ UNCHANGED <<freed>>
    BY <1>17, ReportEffect
  <2> QED
    BY <1>1, <1>6, <1>7, <2>1, <2>2
<1> QED
  BY <1>8, <1>9, <1>10, <1>11, <1>12, <1>13, <1>14, <1>15, <1>16, <1>17 DEF
     Quiet, Call, Step


\* nchilds is the number of children and bounds the waiters.
LEMMA WaitersStep ==
  ASSUME PIInv, Careful, NEW t \in THREADS, Call(t) \/ Step(t)
  PROVE  WaitersHaveChildren'
<1>1. /\ proc \in [THREADS -> PROCS \cup {None}] /\ pc \in [THREADS -> Labels]
      /\ arg \in [THREADS -> PROCS \cup THREADS \cup {None}]
      /\ parent \in [PROCS -> PROCS \cup {None}] /\ init \in PROCS
      /\ None \notin PROCS \cup THREADS
      /\ \A u \in THREADS : pc[u] \notin {"unused", "gone"} => proc[u] \in PROCS
  BY ProcAssumption DEF PIInv, PTypeOK, ThreadInv
<1>2. refcount \in [PROCS -> Nat]
  BY DEF PIInv, PTypeOK
<1>3. \A r \in PROCS : Cardinality(live[r]) \in Nat /\ Len(dead[r]) \in Nat
  BY LiveFacts
<1>4. \A r \in PROCS : refcount[r] > 0 =>
        nchilds[r] = Cardinality(live[r]) + Len(dead[r]) /\ nwaiters[r] <= nchilds[r]
  BY DEF PIInv, WaitersHaveChildren
<1>5. Cardinality({}) = 0 /\ Len(<<>>) = 0
  BY FS_EmptySet
<1>6. ASSUME \A r \in PROCS : refcount'[r] > 0 =>
               nchilds'[r] = Cardinality(live'[r]) + Len(dead'[r]) /\ nwaiters'[r] <= nchilds'[r]
      PROVE  WaitersHaveChildren'
  BY <1>6 DEF WaitersHaveChildren
<1>7. \A u \in THREADS : pc[u] \in Counted => refcount[proc[u]] > 0
  BY <1>1, CountedThread DEF Counted, Waiting
<1>8. nchilds \in [PROCS -> Nat]
  BY DEF PIInv, PTypeOK
<1>9. nwaiters \in [PROCS -> Nat]
  BY DEF PIInv, PTypeOK
<1>10. live \in [PROCS -> SUBSET PROCS] /\ dead \in [PROCS -> Seq(PROCS)]
  BY DEF PIInv, PTypeOK
<1>11. \A r \in PROCS : refcount[r] \in Nat /\ nchilds[r] \in Nat /\
       nwaiters[r] \in Nat
  BY <1>2, <1>8, <1>9
<1>12. CASE Quiet(t)
  <2>1. /\ UNCHANGED <<nchilds, live, dead>> /\ pc[t] \notin {"unused", "gone"}
        /\ \/ UNCHANGED refcount
           \/ refcount' = [refcount EXCEPT ![proc[t]] = @ - 1]
        /\ \/ UNCHANGED nwaiters
           \/ nwaiters' = [nwaiters EXCEPT ![proc[t]] = @ - 1]
           \/ /\ nchilds[proc[t]] > nwaiters[proc[t]]
              /\ nwaiters' = [nwaiters EXCEPT ![proc[t]] = @ + 1]
    BY <1>12, QuietEffect
  <2>2. PICK p \in PROCS : p = proc[t]
    BY <1>1, <2>1
  <2>3. /\ \A r \in PROCS \ {p} : refcount'[r] = refcount[r]
        /\ refcount'[p] = refcount[p] \/ refcount'[p] = refcount[p] - 1
    BY <1>2, <2>1, <2>2
  <2>4. \A r \in PROCS : refcount'[r] > 0 => refcount[r] > 0
    BY <1>11, <2>3
  <2>5. /\ \A r \in PROCS \ {p} : nwaiters'[r] = nwaiters[r]
        /\ \/ nwaiters'[p] = nwaiters[p] \/ nwaiters'[p] = nwaiters[p] - 1
           \/ nwaiters'[p] = nwaiters[p] + 1 /\ nchilds[p] > nwaiters[p]
    BY <1>9, <2>1, <2>2
  <2>6. \A r \in PROCS : nwaiters[r] <= nchilds[r] => nwaiters'[r] <= nchilds[r]
    BY <1>11, <2>5
  <2> QED
    BY <1>4, <1>6, <2>1, <2>4, <2>6
<1>13. CASE Fork(t)
  <2>1. PICK q \in FreshProcs, u \in FreshThreads :
          /\ refcount' = [refcount EXCEPT ![q] = 1]
          /\ UNCHANGED <<nchilds, nwaiters, live, dead>>
    BY <1>13, ForkEffect DEF childVars, waitVars
  <2>2. q \in PROCS /\ nchilds[q] = 0 /\ live[q] = {} /\ dead[q] = <<>> /\ nwaiters[q] = 0
    BY FreshFacts
  <2>3. \A r \in PROCS \ {q} : refcount'[r] = refcount[r]
    BY <1>2, <2>1
  <2>4. Cardinality(live[q]) = 0 /\ Len(dead[q]) = 0
    BY <1>5, <2>2
  <2>5. ASSUME NEW r \in PROCS, refcount'[r] > 0
        PROVE  nchilds[r] = Cardinality(live[r]) + Len(dead[r]) /\ nwaiters[r] <= nchilds[r]
    <3>1. CASE r = q
      <4>1. nchilds[q] = 0 /\ nwaiters[q] = 0
        BY <2>2
      <4>2. nchilds[q] = Cardinality(live[q]) + Len(dead[q]) /\ nwaiters[q] <= nchilds[q]
        BY <2>4, <4>1
      <4> QED
        BY <3>1, <4>2
    <3>2. CASE r # q
      BY <1>4, <2>3, <2>5, <3>2
    <3> QED
      BY <3>1, <3>2
  <2> QED
    BY <1>6, <2>1, <2>5
<1>14. CASE ForkAdd(t)
  <2>1. /\ proc[t] \in PROCS /\ proc[arg[t]] \in PROCS /\ ~Listed(proc[arg[t]])
        /\ live' = [live EXCEPT ![proc[t]] = @ \cup {proc[arg[t]]}]
        /\ nchilds' = [nchilds EXCEPT ![proc[t]] = @ + 1]
        /\ UNCHANGED <<refcount, dead, nwaiters>>
    BY <1>14, ForkAddEffect DEF waitVars
  <2>2. PICK p \in PROCS, q \in PROCS : p = proc[t] /\ q = proc[arg[t]]
    BY <2>1
  <2>3. q \notin live[p]
    BY <2>1, <2>2 DEF Listed
  <2>4. Cardinality(live[p] \cup {q}) = Cardinality(live[p]) + 1
    BY <2>3, LiveFacts, FS_AddElement
  <2>5. /\ live'[p] = live[p] \cup {q} /\ nchilds'[p] = nchilds[p] + 1
        /\ \A r \in PROCS \ {p} : live'[r] = live[r] /\ nchilds'[r] = nchilds[r]
    BY <1>8, <1>10, <2>1, <2>2
  <2>6. refcount[p] > 0 => /\ nchilds'[p] = Cardinality(live'[p]) + Len(dead[p])
                           /\ nwaiters[p] <= nchilds'[p]
    <3>1. Cardinality(live'[p]) = Cardinality(live[p]) + 1 /\ nchilds'[p] = nchilds[p] + 1
      BY <2>4, <2>5
    <3>2. /\ Cardinality(live[p]) \in Nat /\ Len(dead[p]) \in Nat
          /\ nchilds[p] \in Nat /\ nwaiters[p] \in Nat
      BY <1>3, <1>11
    <3>3. refcount[p] > 0 => /\ nchilds[p] = Cardinality(live[p]) + Len(dead[p])
                             /\ nwaiters[p] <= nchilds[p]
      BY <1>4
    <3> QED
      BY <3>1, <3>2, <3>3
  <2> QED
    BY <1>4, <1>6, <2>1, <2>5, <2>6
<1>15. CASE ThreadFork(t)
  <2>1. PICK u \in FreshThreads :
          /\ proc[t] \in PROCS /\ pc[t] = "user"
          /\ refcount' = [refcount EXCEPT ![proc[t]] = @ + 1]
          /\ UNCHANGED <<nchilds, nwaiters, live, dead>>
    BY <1>15, ThreadForkEffect DEF childVars, waitVars
  <2>2. PICK p \in PROCS : p = proc[t] /\ refcount[p] > 0
    BY <1>7, <2>1 DEF Counted
  <2> QED
    BY <1>2, <1>4, <1>6, <2>1, <2>2
<1>16. CASE Exec(t) \/ Respawn(t)
  <2>1. PICK q \in FreshProcs, u \in FreshThreads :
          /\ proc[t] \in PROCS /\ proc[t] # q /\ refcount[proc[t]] = 1 /\ nwaiters[proc[t]] = 0
          /\ refcount' = [refcount EXCEPT ![q] = 1]
          /\ UNCHANGED <<live, nwaiters>>
          /\ \/ UNCHANGED <<nchilds, dead>>
             \/ /\ proc[t] = init
                /\ dead' = [dead EXCEPT ![init] = <<>>]
                /\ nchilds' = [nchilds EXCEPT ![init] = @ - Len(dead[init])]
    BY <1>16, SwapEffect DEF childVars, waitVars
  <2>2. q \in PROCS /\ nchilds[q] = 0 /\ live[q] = {} /\ dead[q] = <<>> /\ nwaiters[q] = 0
    BY FreshFacts
  <2>5. \A r \in PROCS \ {q} : refcount'[r] = refcount[r]
    BY <1>2, <2>1
  <2>6. Cardinality(live[q]) = 0 /\ Len(dead[q]) = 0
    BY <1>5, <2>2
  <2>7. ASSUME NEW r \in PROCS, refcount'[r] > 0
        PROVE  nchilds[r] = Cardinality(live[r]) + Len(dead[r]) /\ nwaiters[r] <= nchilds[r]
    <3>1. CASE r = q
      <4>1. nchilds[q] = 0 /\ nwaiters[q] = 0
        BY <2>2
      <4>2. nchilds[q] = Cardinality(live[q]) + Len(dead[q]) /\ nwaiters[q] <= nchilds[q]
        BY <2>6, <4>1
      <4> QED
        BY <3>1, <4>2
    <3>2. CASE r # q
      BY <1>4, <2>5, <2>7, <3>2
    <3> QED
      BY <3>1, <3>2
  <2>3. CASE UNCHANGED <<nchilds, dead>>
    BY <1>6, <2>1, <2>3, <2>7
  <2>4. CASE /\ proc[t] = init
             /\ dead' = [dead EXCEPT ![init] = <<>>]
             /\ nchilds' = [nchilds EXCEPT ![init] = @ - Len(dead[init])]
    <3>1. /\ dead'[init] = <<>> /\ nchilds'[init] = nchilds[init] - Len(dead[init])
          /\ \A r \in PROCS \ {init} : nchilds'[r] = nchilds[r] /\ dead'[r] = dead[r]
      BY <1>1, <1>8, <1>10, <2>1, <2>4
    <3>2. nchilds[init] = Cardinality(live[init]) + Len(dead[init])
      BY <1>1, <1>4, <2>1, <2>4
    <3>3. nchilds'[init] = Cardinality(live[init]) + 0 /\ Cardinality(live[init]) >= 0
      BY <1>1, <1>3, <3>1, <3>2
    <3>4. nwaiters[init] = 0 /\ init # q
      BY <2>1, <2>4
    <3>5. nchilds'[init] = Cardinality(live'[init]) + Len(dead'[init]) /\ nwaiters'[init] <= nchilds'[init]
      <4>1. live'[init] = live[init] /\ nwaiters'[init] = 0 /\ Len(dead'[init]) = 0
        BY <1>5, <2>1, <3>1, <3>4
      <4>2. Cardinality(live[init]) \in Nat
        BY <1>1, <1>3
      <4> QED
        BY <3>3, <4>1, <4>2
    <3>6. \A r \in PROCS \ {init} : refcount'[r] > 0 =>
            nchilds'[r] = Cardinality(live'[r]) + Len(dead'[r]) /\ nwaiters'[r] <= nchilds'[r]
      BY <2>1, <2>7, <3>1
    <3> QED
      BY <1>6, <3>5, <3>6
  <2> QED
    BY <2>1, <2>3, <2>4
<1>17. CASE WaitReap(t)
  <2>1. LET pp == proc[t] IN
        /\ pp \in PROCS /\ Len(Tail(dead[pp])) = Len(dead[pp]) - 1
        /\ dead' = [dead EXCEPT ![pp] = Tail(@)]
        /\ nchilds' = [nchilds EXCEPT ![pp] = @ - 1]
        /\ nwaiters' = [nwaiters EXCEPT ![pp] = @ - 1]
        /\ UNCHANGED <<refcount, live>>
    BY <1>17, WaitReapEffect
  <2>2. PICK p \in PROCS : p = proc[t]
    BY <2>1
  <2>3. /\ Len(dead'[p]) = Len(dead[p]) - 1 /\ nchilds'[p] = nchilds[p] - 1
        /\ nwaiters'[p] = nwaiters[p] - 1
        /\ \A r \in PROCS \ {p} : /\ dead'[r] = dead[r] /\ nchilds'[r] = nchilds[r]
                                  /\ nwaiters'[r] = nwaiters[r]
    BY <1>8, <1>9, <1>10, <2>1, <2>2
  <2>4. refcount[p] > 0 => /\ nchilds'[p] = Cardinality(live[p]) + Len(dead'[p])
                           /\ nwaiters'[p] <= nchilds'[p]
    BY <1>3, <1>4, <1>11, <2>3
  <2> QED
    BY <1>4, <1>6, <2>1, <2>3, <2>4
<1>18. CASE WaitFree(t)
  BY <1>4, <1>6, <1>18 DEF WaitFree, childVars, waitVars
<1>19. CASE OrphanMove(t)
  <2>1. LET pp == proc[t] IN
        /\ pp \in PROCS \ {init} /\ refcount[pp] = 0
        /\ live' = [live EXCEPT ![init] = @ \cup live[pp], ![pp] = {}]
        /\ Len(dead'[init]) = Len(dead[init]) + Len(dead[pp])
        /\ \A q \in PROCS \ {pp, init} : dead'[q] = dead[q]
        /\ nchilds' = [nchilds EXCEPT ![init] = @ + Cardinality(live[pp]) + Len(dead[pp])]
        /\ Cardinality(live[init] \cup live[pp])
             = Cardinality(live[init]) + Cardinality(live[pp])
        /\ UNCHANGED <<refcount, nwaiters>>
    BY <1>19, OrphanMoveEffect
  <2>2. PICK p \in PROCS \ {init} : p = proc[t]
    BY <2>1
  <2>3. /\ live'[init] = live[init] \cup live[p]
        /\ nchilds'[init] = nchilds[init] + Cardinality(live[p]) + Len(dead[p])
        /\ \A r \in PROCS \ {p, init} : live'[r] = live[r] /\ nchilds'[r] = nchilds[r]
    BY <1>1, <1>8, <1>10, <2>1, <2>2
  <2>4. refcount[init] > 0 => /\ nchilds'[init] = Cardinality(live'[init]) + Len(dead'[init])
                              /\ nwaiters[init] <= nchilds'[init]
    <3>1. /\ Cardinality(live[init]) \in Nat /\ Cardinality(live[p]) \in Nat
          /\ Len(dead[init]) \in Nat /\ Len(dead[p]) \in Nat
          /\ nchilds[init] \in Nat /\ nwaiters[init] \in Nat
      BY <1>1, <1>3, <1>11, <2>2
    <3>2. refcount[init] > 0 => /\ nchilds[init] = Cardinality(live[init]) + Len(dead[init])
                                /\ nwaiters[init] <= nchilds[init]
      BY <1>1, <1>4
    <3>3. /\ Cardinality(live'[init]) = Cardinality(live[init]) + Cardinality(live[p])
          /\ Len(dead'[init]) = Len(dead[init]) + Len(dead[p])
      BY <2>1, <2>2, <2>3
    <3>4. nchilds'[init] = nchilds[init] + Cardinality(live[p]) + Len(dead[p])
      BY <2>3
    <3>5. \A n, w, a, b, c, d \in Nat :
            n = a + b /\ w <= n => n + c + d = (a + c) + (b + d) /\ w <= n + c + d
      OBVIOUS
    <3>6. PICK n, w, a, b, c, d \in Nat :
            /\ n = nchilds[init] /\ w = nwaiters[init] /\ a = Cardinality(live[init])
            /\ b = Len(dead[init]) /\ c = Cardinality(live[p]) /\ d = Len(dead[p])
      BY <3>1
    <3>7. refcount[init] > 0 =>
            /\ nchilds[init] + Cardinality(live[p]) + Len(dead[p])
                 = (Cardinality(live[init]) + Cardinality(live[p])) + (Len(dead[init]) + Len(dead[p]))
            /\ nwaiters[init] <= nchilds[init] + Cardinality(live[p]) + Len(dead[p])
      <4>1. refcount[init] > 0 => n = a + b /\ w <= n
        BY <3>2, <3>6
      <4>2. refcount[init] > 0 => n + c + d = (a + c) + (b + d) /\ w <= n + c + d
        BY <3>5, <4>1
      <4> QED
        BY <3>6, <4>2
    <3> QED
      BY <3>3, <3>4, <3>7
  <2>5. refcount[p] = 0
    BY <2>1, <2>2
  <2>6. ASSUME NEW r \in PROCS, refcount'[r] > 0
        PROVE  nchilds'[r] = Cardinality(live'[r]) + Len(dead'[r]) /\ nwaiters'[r] <= nchilds'[r]
    <3>1. refcount[r] > 0 /\ r # p /\ nwaiters'[r] = nwaiters[r]
      BY <2>1, <2>5, <2>6
    <3>2. CASE r = init
      BY <2>4, <3>1, <3>2
    <3>3. CASE r # init
      <4>1. live'[r] = live[r] /\ nchilds'[r] = nchilds[r] /\ dead'[r] = dead[r]
        BY <2>1, <2>2, <2>3, <3>1, <3>3
      <4> QED
        BY <1>4, <3>1, <4>1
    <3> QED
      BY <3>2, <3>3
  <2> QED
    BY <1>6, <2>6
<1>20. CASE DieLock(t)
  <2>1. UNCHANGED <<refcount, nchilds, nwaiters, live, dead>>
    BY <1>20, DieLockEffect DEF childVars, waitVars
  <2> QED
    BY <1>4, <1>6, <2>1
<1>21. CASE Report(t)
  <2>1. LET pp == proc[t]
            qq == parent[proc[t]] IN
        /\ pp \in PROCS /\ qq \in PROCS
        /\ live' = [live EXCEPT ![qq] = @ \ {pp}]
        /\ Cardinality(live[qq] \ {pp}) = Cardinality(live[qq]) - 1
        /\ Len(dead'[qq]) = Len(dead[qq]) + 1
        /\ \A q \in PROCS \ {qq} : dead'[q] = dead[q]
        /\ UNCHANGED <<refcount, nchilds, nwaiters>>
    BY <1>21, ReportEffect
  <2>2. PICK p \in PROCS, to \in PROCS : p = proc[t] /\ to = parent[p]
    BY <2>1
  <2>3. /\ live'[to] = live[to] \ {p} /\ Cardinality(live'[to]) = Cardinality(live[to]) - 1
        /\ \A r \in PROCS \ {to} : live'[r] = live[r]
    BY <1>10, <2>1, <2>2
  <2>4. Cardinality(live'[to]) + Len(dead'[to]) = Cardinality(live[to]) + Len(dead[to])
    BY <1>3, <2>1, <2>2, <2>3
  <2> QED
    BY <1>4, <1>6, <2>1, <2>2, <2>3, <2>4
<1> QED
  BY <1>12, <1>13, <1>14, <1>15, <1>16, <1>17, <1>18, <1>19, <1>20, <1>21 DEF
     Quiet, Call, Step

\* The sleepers of a process are among its waiters, each is queued once: there
\* are no more of them than nwaiters says.
SleepersCounted == \A p \in PROCS : Len(asleep[p]) <= nwaiters[p]

\* Sleepers are waiters, and a waiter sleeps once.
LEMMA AsleepBound == PTypeOK /\ CountInv /\ AsleepInv => SleepersCounted
<1> SUFFICES ASSUME PTypeOK, CountInv, AsleepInv, NEW p \in PROCS
             PROVE  Len(asleep[p]) <= nwaiters[p]
  BY DEF SleepersCounted
<1> DEFINE n == Len(asleep[p])
           W == ThreadsAt(p, Waiting)
<1>1. asleep[p] \in Seq(THREADS) /\ n \in Nat /\ DOMAIN asleep[p] = 1 .. n
  BY DEF PTypeOK
<1>2. \A i \in 1 .. n : asleep[p][i] \in W
  <2>1. \A i \in 1 .. n : asleep[p][i] \in THREADS
    BY <1>1
  <2>2. \A i \in 1 .. n : pc[asleep[p][i]] = "asleep" /\ proc[asleep[p][i]] = p
    BY <1>1 DEF AsleepInv
  <2> QED
    BY <2>1, <2>2 DEF ThreadsAt, Waiting
<1>3. asleep[p] \in [1 .. n -> W]
  BY <1>1, <1>2
<1>4. IsFiniteSet(W) /\ Cardinality(W) \in Nat /\ nwaiters[p] = Cardinality(W)
  BY CountFacts DEF CountInv
<1>5. IsFiniteSet(1 .. n) /\ Cardinality(1 .. n) = n
  BY <1>1, FS_Interval
<1>6. \A i, j \in 1 .. n : asleep[p][i] = asleep[p][j] => i = j
  BY <1>1 DEF AsleepInv
<1> HIDE DEF n, W
<1>7. ~(Cardinality(W) < Cardinality(1 .. n))
  <2> SUFFICES ASSUME Cardinality(W) < Cardinality(1 .. n)
               PROVE  FALSE
    OBVIOUS
  <2> DEFINE S == 1 .. n
             f == asleep[p]
  <2>1. /\ IsFiniteSet(S) /\ IsFiniteSet(W) /\ Cardinality(W) < Cardinality(S)
        /\ f \in [S -> W]
    BY <1>3, <1>4, <1>5
  <2>2. \A i, j \in S : f[i] = f[j] => i = j
    BY <1>6
  <2> HIDE DEF S, f
  <2>3. \E i, j \in S : i # j /\ f[i] = f[j]
    BY <2>1, FS_PigeonHole
  <2> QED
    BY <2>2, <2>3
<1>8. n <= nwaiters[p]
  BY <1>1, <1>4, <1>5, <1>7
<1> QED
  BY <1>8 DEF n

\* The same of the next state.
LEMMA AsleepBoundPrime == PTypeOK' /\ CountInv' /\ AsleepInv' => SleepersCounted'
  BY AsleepBound, PTL


\* No thread sleeps beside a child that nobody is about to take.
LEMMA MissStep ==
  ASSUME PIInv, Careful, SleepersCounted', NEW t \in THREADS, Call(t) \/ Step(t)
  PROVE  MissInv'
<1>1. /\ proc \in [THREADS -> PROCS \cup {None}] /\ pc \in [THREADS -> Labels]
      /\ arg \in [THREADS -> PROCS \cup THREADS \cup {None}]
      /\ parent \in [PROCS -> PROCS \cup {None}] /\ init \in PROCS
      /\ None \notin PROCS \cup THREADS
      /\ \A u \in THREADS : pc[u] \notin {"unused", "gone"} => proc[u] \in PROCS
  BY ProcAssumption DEF PIInv, PTypeOK, ThreadInv
<1>2. asleep \in [PROCS -> Seq(THREADS)] /\ dead \in [PROCS -> Seq(PROCS)]
  BY DEF PIInv, PTypeOK
<1>3. nwaiters \in [PROCS -> Nat]
  BY DEF PIInv, PTypeOK
<1>4. \A r \in PROCS :
        /\ Len(asleep[r]) \in Nat /\ Len(dead[r]) \in Nat /\ nwaiters[r] \in Nat
        /\ Len(asleep[r]) = 0 <=> asleep[r] = <<>>
  BY <1>2, <1>3
<1>5. \A r \in PROCS \ strays : asleep[r] # <<>> => Len(dead[r]) <=
       nwaiters[r] - Len(asleep[r])
  BY DEF PIInv, MissInv, NoMissedChild
<1>6. \A v \in THREADS : pc[v] = "wait_sleep" /\ proc[v] \notin strays =>
       dead[proc[v]] = <<>>
  BY DEF PIInv, MissInv
<1>7. ASSUME \A r \in PROCS \ strays' : asleep'[r] # <<>> =>
               Len(dead'[r]) <= nwaiters'[r] - Len(asleep'[r]),
             \A v \in THREADS : pc'[v] = "wait_sleep" /\ proc'[v] \notin strays' =>
               dead'[proc'[v]] = <<>>
      PROVE  MissInv'
  BY <1>7 DEF MissInv, NoMissedChild
<1>8. \A r \in PROCS : Len(asleep'[r]) <= nwaiters'[r]
  BY DEF SleepersCounted
<1>9. Len(<<>>) = 0
  OBVIOUS
<1>10. CASE Exec(t) \/ Respawn(t)
  <2>1. PICK q \in FreshProcs, u \in FreshThreads :
          /\ proc' = [proc EXCEPT ![t] = q, ![u] = proc[t]]
          /\ pc' = [pc EXCEPT ![t] = "exit", ![u] = "user"]
          /\ UNCHANGED <<asleep, nwaiters, strays>>
          /\ \/ UNCHANGED dead
             \/ dead' = [dead EXCEPT ![init] = <<>>]
    BY <1>10, SwapEffect DEF childVars, waitVars
  <2>2. \A v \in THREADS : pc'[v] = "wait_sleep" =>
          pc[v] = "wait_sleep" /\ proc'[v] = proc[v] /\ proc[v] \in PROCS
    BY <1>1, <2>1
  <2>3. \A r \in PROCS : dead'[r] = dead[r] \/ dead'[r] = <<>>
    BY <1>2, <2>1
  <2>4. ASSUME NEW r \in PROCS \ strays, asleep[r] # <<>>
        PROVE  Len(dead'[r]) <= nwaiters[r] - Len(asleep[r])
    <3>1. CASE dead'[r] = dead[r]
      BY <1>5, <2>4, <3>1
    <3>2. CASE dead'[r] = <<>>
      <4>1. Len(dead'[r]) = 0 /\ Len(asleep[r]) <= nwaiters[r]
        BY <1>8, <1>9, <2>1, <3>2
      <4> QED
        BY <1>4, <4>1
    <3> QED
      BY <2>3, <3>1, <3>2
  <2>5. ASSUME NEW v \in THREADS, pc'[v] = "wait_sleep", proc'[v] \notin strays
        PROVE  dead'[proc'[v]] = <<>>
    BY <1>6, <2>2, <2>3, <2>5
  <2> QED
    BY <1>7, <2>1, <2>4, <2>5
<1>11. CASE Fork(t)
  <2>1. PICK q \in FreshProcs, u \in FreshThreads :
          /\ pc[t] = "user" /\ proc' = [proc EXCEPT ![u] = q]
          /\ pc' = [pc EXCEPT ![t] = "fork_add", ![u] = "new"]
          /\ UNCHANGED <<asleep, dead, nwaiters, strays>>
    BY <1>11, ForkEffect DEF childVars, waitVars
  <2>2. \A v \in THREADS : pc'[v] = "wait_sleep" => pc[v] = "wait_sleep" /\ proc'[v] = proc[v]
    BY <1>1, <2>1
  <2>3. ASSUME NEW v \in THREADS, pc'[v] = "wait_sleep", proc'[v] \notin strays
        PROVE  dead[proc'[v]] = <<>>
    BY <1>6, <2>2, <2>3
  <2> QED
    BY <1>5, <1>7, <2>1, <2>3
<1>12. CASE ForkAdd(t)
  <2>1. PICK u \in THREADS :
          /\ pc' = [pc EXCEPT ![t] = "user", ![u] = "user"]
          /\ UNCHANGED <<proc, asleep, dead, nwaiters, strays>>
    BY <1>12, ForkAddEffect DEF waitVars
  <2>2. \A v \in THREADS : pc'[v] = "wait_sleep" => pc[v] = "wait_sleep"
    BY <1>1, <2>1
  <2> QED
    BY <1>5, <1>6, <1>7, <2>1, <2>2
<1>13. CASE ThreadFork(t)
  <2>1. PICK u \in FreshThreads :
          /\ proc' = [proc EXCEPT ![u] = proc[t]] /\ pc' = [pc EXCEPT ![u] = "user"]
          /\ UNCHANGED <<asleep, dead, nwaiters, strays>>
    BY <1>13, ThreadForkEffect DEF childVars, waitVars
  <2>2. \A v \in THREADS : pc'[v] = "wait_sleep" => pc[v] = "wait_sleep" /\ proc'[v] = proc[v]
    BY <1>1, <2>1
  <2> QED
    BY <1>5, <1>6, <1>7, <2>1, <2>2
<1>14. CASE WaitNoChild(t)
  <2>1. /\ UNCHANGED <<proc, asleep, dead, nwaiters, strays>>
        /\ \A v \in THREADS : pc'[v] = "wait_sleep" => pc[v] = "wait_sleep"
    BY <1>1, <1>14 DEF WaitNoChild, At, User, Goto, vars, threadVars,
       childVars, waitVars, lockVars
  <2> QED
    BY <1>5, <1>6, <1>7, <2>1
<1>15. CASE Wait(t)
  <2>1. /\ UNCHANGED <<proc, asleep, dead, strays>>
        /\ nwaiters' = [nwaiters EXCEPT ![proc[t]] = @ + 1]
        /\ \A v \in THREADS : pc'[v] = "wait_sleep" => pc[v] = "wait_sleep"
    BY <1>1, <1>15 DEF Wait, At, User, Goto, childVars
  <2>2. \A r \in PROCS : nwaiters'[r] = nwaiters[r] \/ nwaiters'[r] = nwaiters[r] + 1
    BY <1>3, <2>1
  <2>3. ASSUME NEW r \in PROCS \ strays, asleep[r] # <<>>
        PROVE  Len(dead[r]) <= nwaiters'[r] - Len(asleep[r])
    BY <1>4, <1>5, <2>2, <2>3
  <2> QED
    BY <1>6, <1>7, <2>1, <2>3
<1>16. CASE WaitEmpty(t)
  <2>1. /\ UNCHANGED <<proc, asleep, dead, nwaiters, strays>> /\ dead[proc[t]] = <<>>
        /\ \A v \in THREADS \ {t} : pc'[v] = pc[v]
    BY <1>1, <1>16 DEF WaitEmpty, At, Goto, childVars, waitVars
  <2> QED
    BY <1>5, <1>6, <1>7, <2>1
<1>17. CASE WaitSleep(t)
  <2>1. /\ UNCHANGED <<proc, dead, nwaiters, strays>> /\ pc[t] = "wait_sleep" /\ proc[t] \in PROCS
        /\ asleep' = [asleep EXCEPT ![proc[t]] = Append(@, t)]
        /\ \A v \in THREADS : pc'[v] = "wait_sleep" => pc[v] = "wait_sleep"
    BY <1>1, <1>17 DEF WaitSleep, At, Goto, childVars
  <2>2. PICK p \in PROCS : p = proc[t]
    BY <2>1
  <2>3. \A r \in PROCS \ {p} : asleep'[r] = asleep[r]
    BY <1>2, <2>1, <2>2
  <2>4. p \notin strays => Len(dead[p]) = 0
    BY <1>6, <1>9, <2>1, <2>2
  <2>5. Len(asleep'[p]) \in Nat
    <3>1. asleep'[p] = Append(asleep[p], t)
      BY <1>2, <2>1, <2>2
    <3> QED
      BY <1>2, <3>1
  <2>6. p \notin strays => Len(dead[p]) <= nwaiters[p] - Len(asleep'[p])
    BY <1>4, <1>8, <2>1, <2>4, <2>5
  <2> QED
    BY <1>5, <1>6, <1>7, <2>1, <2>3, <2>6
<1>18. CASE WaitRelock(t)
  <2>1. /\ UNCHANGED <<proc, asleep, dead, nwaiters, strays>>
        /\ \A v \in THREADS : pc'[v] = "wait_sleep" => pc[v] = "wait_sleep"
    BY <1>1, <1>18 DEF WaitRelock, At, User, Goto, vars, threadVars,
       childVars, waitVars, lockVars
  <2> QED
    BY <1>5, <1>6, <1>7, <2>1
<1>19. CASE WaitReap(t)
  <2>1. /\ pc[t] = "wait_test" /\ proc[t] \in PROCS /\ dead[proc[t]] # <<>>
        /\ Len(Tail(dead[proc[t]])) = Len(dead[proc[t]]) - 1
        /\ dead' = [dead EXCEPT ![proc[t]] = Tail(@)]
        /\ nwaiters' = [nwaiters EXCEPT ![proc[t]] = @ - 1]
        /\ pc' = [pc EXCEPT ![t] = "wait_free"]
        /\ UNCHANGED <<proc, asleep, strays>>
    BY <1>19, WaitReapEffect
  <2>2. PICK p \in PROCS : p = proc[t]
    BY <2>1
  <2>3. /\ dead'[p] = Tail(dead[p]) /\ nwaiters'[p] = nwaiters[p] - 1
        /\ Len(dead'[p]) = Len(dead[p]) - 1
        /\ \A r \in PROCS \ {p} : dead'[r] = dead[r] /\ nwaiters'[r] = nwaiters[r]
    <3>1. dead'[p] = Tail(dead[p]) /\ \A r \in PROCS \ {p} : dead'[r] = dead[r]
      BY <1>2, <2>1, <2>2
    <3>2. nwaiters'[p] = nwaiters[p] - 1 /\ \A r \in PROCS \ {p} : nwaiters'[r] = nwaiters[r]
      BY <1>3, <2>1, <2>2
    <3> QED
      BY <2>1, <2>2, <3>1, <3>2
  <2>4. p \notin strays /\ asleep[p] # <<>> => Len(dead'[p]) <= nwaiters'[p] - Len(asleep[p])
    <3>1. Len(dead'[p]) = Len(dead[p]) - 1 /\ nwaiters'[p] = nwaiters[p] - 1
      BY <2>3
    <3> QED
      BY <1>4, <1>5, <3>1
  <2>5. \A v \in THREADS : pc'[v] = "wait_sleep" => pc[v] = "wait_sleep"
    BY <1>1, <2>1
  <2>6. \A v \in THREADS : pc'[v] = "wait_sleep" /\ proc[v] \notin strays => proc[v] # p
    BY <1>6, <2>1, <2>2, <2>5
  <2>7. \A v \in THREADS : pc'[v] = "wait_sleep" => proc[v] \in PROCS
    BY <1>1, <2>5
  <2> QED
    BY <1>5, <1>6, <1>7, <2>1, <2>3, <2>4, <2>5, <2>6, <2>7
<1>20. CASE WaitBadStatus(t)
  <2>1. /\ pc[t] = "wait_test" /\ proc[t] \in PROCS /\ "bad_status" \in Calls[proc[t]]
        /\ nwaiters' = [nwaiters EXCEPT ![proc[t]] = @ - 1]
        /\ UNCHANGED <<proc, asleep, dead, strays>>
        /\ \A v \in THREADS : pc'[v] = "wait_sleep" => pc[v] = "wait_sleep"
    BY <1>1, <1>20 DEF WaitBadStatus, At, Goto, childVars
  <2>2. PICK p \in PROCS : p = proc[t]
    BY <2>1
  <2>3. \A v \in THREADS : proc[v] = p => v = t
    BY <2>1, <2>2 DEF PIInv, LoneInv, SoleInv, Careful
  <2>4. asleep[p] = <<>>
    <3> SUFFICES ASSUME asleep[p] # <<>>
                 PROVE  FALSE
      OBVIOUS
    <3>1. 1 \in DOMAIN asleep[p] /\ asleep[p][1] \in THREADS
      BY <1>2
    <3>2. proc[asleep[p][1]] = p /\ pc[asleep[p][1]] = "asleep"
      BY <3>1 DEF PIInv, AsleepInv
    <3> QED
      BY <2>1, <2>3, <3>1, <3>2
  <2>5. \A r \in PROCS \ {p} : nwaiters'[r] = nwaiters[r]
    BY <1>3, <2>1, <2>2
  <2> QED
    BY <1>5, <1>6, <1>7, <2>1, <2>4, <2>5
<1>21. CASE WaitFree(t)
  <2>1. /\ UNCHANGED <<proc, asleep, dead, nwaiters, strays>>
        /\ \A v \in THREADS : pc'[v] = "wait_sleep" => pc[v] = "wait_sleep"
    BY <1>1, <1>21 DEF WaitFree, At, User, Goto, vars, threadVars, childVars,
       waitVars, lockVars
  <2> QED
    BY <1>5, <1>6, <1>7, <2>1
<1>22. CASE Vanish(t)
  <2>1. /\ UNCHANGED <<proc, asleep, dead, nwaiters, strays>>
        /\ \A v \in THREADS : pc'[v] = "wait_sleep" => pc[v] = "wait_sleep"
    BY <1>1, <1>22 DEF Vanish, At, User, Goto, vars, threadVars, childVars,
       waitVars, lockVars
  <2> QED
    BY <1>5, <1>6, <1>7, <2>1
<1>23. CASE ExitLeave(t)
  <2>1. /\ UNCHANGED <<proc, asleep, dead, nwaiters, strays>>
        /\ \A v \in THREADS : pc'[v] = "wait_sleep" => pc[v] = "wait_sleep"
    BY <1>1, <1>23 DEF ExitLeave, At, User, Goto, vars, threadVars, childVars,
       waitVars, lockVars
  <2> QED
    BY <1>5, <1>6, <1>7, <2>1
<1>24. CASE ExitLast(t)
  <2>1. /\ UNCHANGED <<proc, asleep, dead, nwaiters, strays>>
        /\ \A v \in THREADS : pc'[v] = "wait_sleep" => pc[v] = "wait_sleep"
    BY <1>1, <1>24 DEF ExitLast, At, User, Goto, vars, threadVars, childVars,
       waitVars, lockVars
  <2> QED
    BY <1>5, <1>6, <1>7, <2>1
<1>25. CASE OrphanLock(t)
  <2>1. /\ UNCHANGED <<proc, asleep, dead, nwaiters, strays>>
        /\ \A v \in THREADS : pc'[v] = "wait_sleep" => pc[v] = "wait_sleep"
    BY <1>1, <1>25 DEF OrphanLock, At, User, Goto, vars, threadVars,
       childVars, waitVars, lockVars
  <2> QED
    BY <1>5, <1>6, <1>7, <2>1
<1>26. CASE OrphanLockInit(t)
  <2>1. /\ UNCHANGED <<proc, asleep, dead, nwaiters, strays>>
        /\ \A v \in THREADS : pc'[v] = "wait_sleep" => pc[v] = "wait_sleep"
    BY <1>1, <1>26 DEF OrphanLockInit, At, User, Goto, vars, threadVars,
       childVars, waitVars, lockVars
  <2> QED
    BY <1>5, <1>6, <1>7, <2>1
<1>27. CASE OrphanMove(t)
  <2>1. LET pp == proc[t] IN
        /\ pp \in PROCS \ {init} /\ pc[t] = "orphan_move"
        /\ Signal(init, Len(dead[pp]), [pc EXCEPT ![t] = "die_last"])
        /\ dead'[pp] = <<>> /\ Len(dead'[init]) = Len(dead[init]) + Len(dead[pp])
        /\ \A q \in PROCS \ {pp, init} : dead'[q] = dead[q]
        /\ UNCHANGED <<proc, nwaiters, strays>>
    BY <1>27, OrphanMoveEffect
  <2>2. PICK p \in PROCS \ {init}, n \in Nat : p = proc[t] /\ n = Len(dead[p])
    BY <1>4, <2>1
  <2>3. /\ Len(asleep'[init]) = IF n <= Len(asleep[init]) THEN Len(asleep[init]) - n ELSE 0
        /\ \A q \in PROCS \ {init} : asleep'[q] = asleep[q]
        /\ asleep'[init] \in Seq(THREADS)
    <3>1. Signal(init, n, [pc EXCEPT ![t] = "die_last"]) /\ "die_last" \in Labels /\ pc[t] # "asleep"
      BY <2>1, <2>2 DEF Labels
    <3>2. /\ asleep' \in [PROCS -> Seq(THREADS)]
          /\ Len(asleep'[init]) = IF n <= Len(asleep[init]) THEN Len(asleep[init]) - n ELSE 0
          /\ \A q \in PROCS \ {init} : asleep'[q] = asleep[q]
      <4>1. init \in PROCS
        BY <1>1
      <4> QED
        BY <3>1, <4>1, SignalFacts
    <3> QED
      BY <1>1, <3>2
  <2>4. Len(asleep'[init]) = 0 <=> asleep'[init] = <<>>
    BY <2>3
  <2>5. init \notin strays /\ asleep'[init] # <<>> =>
          Len(dead'[init]) <= nwaiters[init] - Len(asleep'[init])
    <3>1. init \notin strays /\ asleep[init] # <<>> =>
            Len(dead[init]) <= nwaiters[init] - Len(asleep[init])
      BY <1>1, <1>5
    <3>2. Len(dead'[init]) = Len(dead[init]) + n
      BY <2>1, <2>2
    <3>3. /\ Len(asleep[init]) \in Nat /\ Len(dead[init]) \in Nat /\ nwaiters[init] \in Nat
          /\ Len(asleep[init]) = 0 <=> asleep[init] = <<>>
      BY <1>1, <1>4
    <3>4. Len(asleep'[init]) = IF n <= Len(asleep[init]) THEN Len(asleep[init]) - n ELSE 0
      BY <2>3
    <3> QED
      BY <2>4, <3>1, <3>2, <3>3, <3>4
  <2>6. Len(dead'[p]) <= nwaiters[p] - Len(asleep[p])
    <3>1. Len(dead'[p]) = 0 /\ Len(asleep[p]) <= nwaiters[p]
      BY <1>8, <1>9, <2>1, <2>2, <2>3
    <3> QED
      BY <1>4, <3>1
  <2>7. \A v \in THREADS : pc'[v] = "wait_sleep" => pc[v] = "wait_sleep" /\ proc[v] \in PROCS /\ v # t
    BY <1>1, <1>27, OrphanMoveWakes
  <2>8. \A v \in THREADS : pc'[v] = "wait_sleep" /\ proc[v] \notin strays => proc[v] # init
    BY <2>1, <2>7 DEF PIInv, WaitLockInv, Locking
  <2> QED
    BY <1>5, <1>6, <1>7, <2>1, <2>2, <2>3, <2>5, <2>6, <2>7, <2>8
<1>28. CASE DieLock(t)
  <2>1. /\ UNCHANGED <<proc, asleep, dead, nwaiters, strays>>
        /\ \E l \in {"dead", "report"} : pc' = [pc EXCEPT ![t] = l]
    BY <1>28, DieLockEffect DEF childVars, waitVars
  <2>2. \A v \in THREADS : pc'[v] = "wait_sleep" => pc[v] = "wait_sleep"
    BY <1>1, <2>1
  <2> QED
    BY <1>5, <1>6, <1>7, <2>1, <2>2
<1>29. CASE Report(t)
  <2>1. LET pp == proc[t]
            qq == parent[proc[t]] IN
        /\ qq \in PROCS /\ pc[t] = "report" /\ waitOwner[arg[t]] = None
        /\ Signal(qq, 1, [pc EXCEPT ![t] = "dead"])
        /\ Len(dead'[qq]) = Len(dead[qq]) + 1
        /\ \A q \in PROCS \ {qq} : dead'[q] = dead[q]
        /\ strays' = IF qq = arg[t] THEN strays ELSE strays \cup {qq}
        /\ UNCHANGED <<proc, nwaiters>>
    BY <1>29, ReportEffect
  <2>2. PICK to \in PROCS : to = parent[proc[t]]
    BY <2>1
  <2>3. /\ Len(asleep'[to]) = IF 1 <= Len(asleep[to]) THEN Len(asleep[to]) - 1 ELSE 0
        /\ \A q \in PROCS \ {to} : asleep'[q] = asleep[q]
        /\ asleep'[to] \in Seq(THREADS)
    <3>1. Signal(to, 1, [pc EXCEPT ![t] = "dead"]) /\ "dead" \in Labels /\ pc[t] # "asleep" /\ 1 \in Nat
      BY <2>1, <2>2 DEF Labels
    <3>2. /\ asleep' \in [PROCS -> Seq(THREADS)]
          /\ Len(asleep'[to]) = IF 1 <= Len(asleep[to]) THEN Len(asleep[to]) - 1 ELSE 0
          /\ \A q \in PROCS \ {to} : asleep'[q] = asleep[q]
      BY <3>1, SignalFacts
    <3> QED
      BY <3>2
  <2>4. Len(asleep'[to]) = 0 <=> asleep'[to] = <<>>
    <3>1. asleep'[to] \in Seq(THREADS)
      BY <2>3
    <3> QED
      BY <3>1
  <2>5. to \notin strays' /\ asleep'[to] # <<>> =>
          Len(dead'[to]) <= nwaiters[to] - Len(asleep'[to])
    <3>1. to \notin strays' /\ asleep[to] # <<>> =>
            Len(dead[to]) <= nwaiters[to] - Len(asleep[to])
      BY <1>5, <2>1
    <3>2. Len(dead'[to]) = Len(dead[to]) + 1
      BY <2>1, <2>2
    <3>3. /\ Len(asleep[to]) \in Nat /\ Len(dead[to]) \in Nat /\ nwaiters[to] \in Nat
          /\ Len(asleep[to]) = 0 <=> asleep[to] = <<>>
      BY <1>4
    <3>4. Len(asleep'[to]) = IF 1 <= Len(asleep[to]) THEN Len(asleep[to]) - 1 ELSE 0
      BY <2>3
    <3> QED
      BY <2>4, <3>1, <3>2, <3>3, <3>4
  <2>6. strays \subseteq strays' /\ \A q \in PROCS \ {to} : dead'[q] = dead[q]
    BY <2>1, <2>2
  <2>7. \A v \in THREADS : pc'[v] = "wait_sleep" => pc[v] = "wait_sleep" /\ proc[v] \in PROCS
    BY <1>1, <1>29, ReportWakes
  <2>8. \A v \in THREADS : pc'[v] = "wait_sleep" /\ proc[v] \notin strays' => proc[v] # to
    <3> SUFFICES ASSUME NEW v \in THREADS, pc'[v] = "wait_sleep", proc[v] \notin strays', proc[v] = to
                 PROVE  FALSE
      OBVIOUS
    <3>1. to = arg[t] /\ pc[v] = "wait_sleep" /\ proc[v] \notin strays
      BY <2>1, <2>2, <2>7
    <3>2. waitOwner[to] = v
      BY <3>1 DEF PIInv, WaitLockInv, Locking
    <3> QED
      BY <1>1, <2>1, <3>1, <3>2
  <2> QED
    BY <1>5, <1>6, <1>7, <2>1, <2>2, <2>3, <2>5, <2>6, <2>7, <2>8
<1>30. CASE Cleanup(t)
  <2>1. /\ UNCHANGED <<asleep, dead, nwaiters, strays>>
        /\ \A v \in THREADS : pc'[v] = "wait_sleep" => pc[v] = "wait_sleep" /\ proc'[v] = proc[v]
    BY <1>1, <1>30 DEF Cleanup, At, Goto, childVars, waitVars
  <2> QED
    BY <1>5, <1>6, <1>7, <2>1
<1> QED
    BY <1>10, <1>11, <1>12, <1>13, <1>14, <1>15, <1>16, <1>17, <1>18, <1>19,
     <1>20, <1>21, <1>22, <1>23, <1>24, <1>25, <1>26, <1>27, <1>28, <1>29,
     <1>30 DEF Call, Step

-----------------------------------------------------------------------------
(* The inductive invariant *)

\* In the initial state only init and its first thread are in use.
LEMMA InitPIInv == Init => PIInv
<1> SUFFICES ASSUME Init
             PROVE  PIInv
  OBVIOUS
<1>1. /\ init \in PROCS /\ main \in THREADS /\ None \notin PROCS \cup THREADS
      /\ Range(<<>>) = {}
  BY ProcAssumption DEF Range
<1>2. /\ proc = [t \in THREADS |-> IF t = main THEN init ELSE None]
      /\ pc = [t \in THREADS |-> IF t = main THEN "user" ELSE "unused"]
      /\ arg = [t \in THREADS |-> None] /\ parent = [p \in PROCS |-> None]
  BY DEF Init
<1>3. /\ refcount = [p \in PROCS |-> IF p = init THEN 1 ELSE 0]
      /\ nchilds = [p \in PROCS |-> 0] /\ nwaiters = [p \in PROCS |-> 0]
  BY DEF Init
<1>4. /\ live = [p \in PROCS |-> {}] /\ dead = [p \in PROCS |-> <<>>]
      /\ asleep = [p \in PROCS |-> <<>>] /\ freed = {} /\ strays = {}
  BY DEF Init
<1>5. /\ waitOwner = [p \in PROCS |-> None] /\ refOwner = [p \in PROCS |-> None]
      /\ heapOwner = None
  BY DEF Init
<1>6. PTypeOK
  <2>1. /\ proc \in [THREADS -> PROCS \cup {None}] /\ pc \in [THREADS -> Labels]
        /\ arg \in [THREADS -> PROCS \cup THREADS \cup {None}]
        /\ parent \in [PROCS -> PROCS \cup {None}]
    BY <1>1, <1>2 DEF Labels
  <2>2. /\ refcount \in [PROCS -> Nat] /\ nchilds \in [PROCS -> Nat]
        /\ nwaiters \in [PROCS -> Nat]
    BY <1>3
  <2>3. /\ live \in [PROCS -> SUBSET PROCS] /\ dead \in [PROCS -> Seq(PROCS)]
        /\ asleep \in [PROCS -> Seq(THREADS)] /\ freed \in SUBSET PROCS
        /\ strays \in SUBSET PROCS
    BY <1>4
  <2>4. /\ waitOwner \in [PROCS -> THREADS \cup {None}]
        /\ refOwner \in [PROCS -> THREADS \cup {None}] /\ heapOwner \in THREADS \cup {None}
    BY <1>5
  <2> QED
    BY <2>1, <2>2, <2>3, <2>4 DEF PTypeOK
<1>7. ThreadInv /\ NewInv
  BY <1>1, <1>2 DEF ThreadInv, NewInv
<1>8. CountInv
  <2> SUFFICES ASSUME NEW p \in PROCS
               PROVE  /\ refcount[p] = Cardinality(ThreadsAt(p, Counted))
                      /\ nwaiters[p] = Cardinality(ThreadsAt(p, Waiting))
    BY DEF CountInv
  <2>1. ThreadsAt(p, Waiting) = {} /\ nwaiters[p] = 0
    BY <1>1, <1>2, <1>3 DEF ThreadsAt, Waiting
  <2>2. CASE p = init
    <3>1. ThreadsAt(p, Counted) = {main} /\ refcount[p] = 1
      BY <1>1, <1>2, <1>3, <2>2 DEF ThreadsAt, Counted
    <3> QED
      BY <2>1, <3>1, FS_Singleton, FS_EmptySet
  <2>3. CASE p # init
    <3>1. ThreadsAt(p, Counted) = {} /\ refcount[p] = 0
      BY <1>1, <1>2, <1>3, <2>3 DEF ThreadsAt
    <3> QED
      BY <2>1, <3>1, FS_EmptySet
  <2> QED
    BY <2>2, <2>3
<1>9. LoneInv
  <2>1. SoleInv
    <3>1. \A t \in THREADS : t # main => proc[t] \notin PROCS
      BY <1>1, <1>2
    <3> QED
      BY <3>1 DEF SoleInv
  <2>2. AloneInv
    BY <1>1, <1>2, <1>3, <1>4 DEF AloneInv
  <2>3. InitInv
    BY <1>1, <1>2, <1>3 DEF InitInv, Counted
  <2> QED
    BY <2>1, <2>2, <2>3 DEF LoneInv
<1>10. LastInv /\ RefLockInv /\ WaitLockInv
  BY <1>1, <1>2, <1>4, <1>5 DEF LastInv, LastOnes, RefLockInv, WaitLockInv, Locking
<1>11. AsleepInv /\ LiveInv /\ DeadInv
  BY <1>1, <1>4 DEF AsleepInv, LiveInv, DeadInv
<1>12. TakenInv
  BY <1>2 DEF TakenInv
<1>13. ActiveInv
  BY <1>1, <1>2 DEF ActiveInv
<1>14. FoundInv
  BY <1>2 DEF FoundInv
<1>15. ChildlessInv
  BY <1>4 DEF ChildlessInv
<1>16. FreedInv
  BY <1>2, <1>4 DEF FreedInv
<1>17. WaitersHaveChildren
  <2>1. Cardinality({}) = 0 /\ Len(<<>>) = 0
    BY FS_EmptySet
  <2>2. \A p \in PROCS : nchilds[p] = 0 /\ nwaiters[p] = 0 /\ live[p] = {} /\ dead[p] = <<>>
    BY <1>3, <1>4
  <2>3. \A p \in PROCS : Cardinality(live[p]) + Len(dead[p]) = 0
    <3> TAKE p \in PROCS
    <3>1. Cardinality(live[p]) = 0 /\ Len(dead[p]) = 0
      BY <2>1, <2>2, Zenon
    <3> QED
      BY <3>1
  <2>4. \A p \in PROCS : /\ nchilds[p] = Cardinality(live[p]) + Len(dead[p])
                         /\ nwaiters[p] <= nchilds[p]
    BY <2>2, <2>3
  <2> QED
    BY <2>4 DEF WaitersHaveChildren
<1>18. MissInv
  BY <1>2, <1>4 DEF MissInv, NoMissedChild
<1> QED
  BY <1>6, <1>7, <1>8, <1>9, <1>10, <1>11, <1>12, <1>13, <1>14, <1>15, <1>16,
     <1>17, <1>18 DEF PIInv

\* Every step of every thread preserves the invariant.
LEMMA PIInvStep == ASSUME Careful, PIInv, [Next]_vars
                   PROVE  PIInv'
<1>1. CASE UNCHANGED vars
  <2>1. UNCHANGED <<proc, pc, arg, parent, refcount, nchilds, live, dead, nwaiters,
                    asleep, waitOwner, refOwner, heapOwner, freed, strays>>
    BY <1>1 DEF vars, threadVars, childVars, waitVars, lockVars
  <2>2. PTypeOK'
    BY <2>1 DEF PTypeOK, PIInv
  <2>3. ThreadInv' /\ NewInv'
    BY <2>1 DEF ThreadInv, NewInv, Listed, PIInv
  <2>4. CountInv'
    BY <2>1 DEF CountInv, ThreadsAt, PIInv
  <2>5. LoneInv'
    BY <2>1 DEF LoneInv, SoleInv, AloneInv, InitInv, PIInv
  <2>6. LastInv' /\ RefLockInv' /\ WaitLockInv' /\ AsleepInv'
    BY <2>1 DEF LastInv, RefLockInv, WaitLockInv, AsleepInv, PIInv
  <2>7. LiveInv' /\ DeadInv' /\ TakenInv'
    BY <2>1 DEF LiveInv, DeadInv, TakenInv, Over, Listed, PIInv
  <2>8. ActiveInv' /\ FoundInv' /\ ChildlessInv' /\ FreedInv'
    BY <2>1 DEF ActiveInv, FoundInv, ChildlessInv, FreedInv, Over, PIInv
  <2>9. WaitersHaveChildren'
    BY <2>1 DEF WaitersHaveChildren, PIInv
  <2>10. MissInv'
    BY <2>1 DEF MissInv, NoMissedChild, PIInv
  <2> QED
    BY <2>2, <2>3, <2>4, <2>5, <2>6, <2>7, <2>8, <2>9, <2>10 DEF PIInv
<1>2. ASSUME NEW t \in THREADS, Call(t) \/ Step(t)
      PROVE  PIInv'
  <2>1. PTypeOK' /\ ThreadInv' /\ NewInv'
    BY <1>2, TypeStep, ThreadStep, NewStep
  <2>2. CountInv'
    BY <1>2, RefcountStep, NwaitersStep DEF CountInv
  <2>3. LoneInv'
    BY <1>2, SoleStep, AloneStep, InitStep DEF LoneInv
  <2>4. LastInv' /\ RefLockInv' /\ WaitLockInv' /\ AsleepInv'
    BY <1>2, LastStep, RefLockStep, WaitLockStep, AsleepStep
  <2>5. LiveInv' /\ DeadInv' /\ TakenInv'
    BY <1>2, LiveStep, DeadStep, TakenStep
  <2>6. ActiveInv' /\ FoundInv' /\ ChildlessInv' /\ FreedInv'
    BY <1>2, ActiveStep, FoundStep, ChildlessStep, FreedStep
  <2>7. WaitersHaveChildren'
    BY <1>2, WaitersStep
  <2>8. SleepersCounted'
    BY <2>1, <2>2, <2>4, AsleepBoundPrime
  <2>9. MissInv'
    BY <1>2, <2>8, MissStep
  <2> QED
    BY <2>1, <2>2, <2>3, <2>4, <2>5, <2>6, <2>7, <2>9 DEF PIInv
<1> QED
  BY <1>1, <1>2 DEF Next

\* The invariant of the life of processes, for careful programs.
THEOREM ProcInvariance == ASSUME Careful PROVE Spec => []PIInv
<1>1. Init => PIInv
  BY InitPIInv
<1>2. PIInv /\ [Next]_vars => PIInv'
  BY PIInvStep
<1> QED
  BY <1>1, <1>2, PTL DEF Spec

-----------------------------------------------------------------------------
(* What the invariant says of every reachable state *)

\* A freed process has neither threads that use it nor children.
LEMMA FreedFacts ==
  ASSUME PIInv, NEW a \in freed
  PROVE  /\ a \in PROCS \ {init} /\ refcount[a] = 0 /\ live[a] = {} /\ dead[a] = <<>>
         /\ \A t \in THREADS : proc[t] = a => pc[t] \in {"die", "dead"}
<1>1. a \in PROCS \ {init} /\ \A t \in THREADS : proc[t] = a => pc[t] \in {"die", "dead"}
  BY DEF PIInv, PTypeOK, FreedInv, Over
<1>2. ThreadsAt(a, Counted) = {}
  BY <1>1 DEF ThreadsAt, Counted, Waiting
<1>3. refcount[a] = 0
  BY <1>1, <1>2, CountFacts DEF PIInv, CountInv
<1>4. live[a] = {} /\ dead[a] = <<>>
  BY <1>1, <1>3 DEF PIInv, ChildlessInv, Leaving
<1> QED
  BY <1>1, <1>3, <1>4

\* A process with a count has a thread that is counted.
LEMMA CountedOne ==
  ASSUME PIInv, NEW p \in PROCS, refcount[p] > 0
  PROVE  \E t \in THREADS : proc[t] = p /\ pc[t] \in Counted
<1>1. refcount[p] = Cardinality(ThreadsAt(p, Counted))
  BY DEF PIInv, CountInv
<1>2. ThreadsAt(p, Counted) # {}
  BY <1>1, CountFacts
<1> QED
  BY <1>2 DEF ThreadsAt

\* No thread, and no process with threads, refers to a process that is freed.
LEMMA NoUseFromInv == PIInv => NoProcUseAfterFree
<1> SUFFICES ASSUME PIInv
             PROVE  NoProcUseAfterFree
  OBVIOUS
<1>1. ASSUME NEW t \in THREADS, proc[t] \in freed
      PROVE  pc[t] \in {"die", "dead"} /\ refcount[proc[t]] = 0
  <2> PICK a \in freed : a = proc[t]
    BY <1>1
  <2> QED
    BY FreedFacts
<1>2. ASSUME NEW p \in PROCS, refcount[p] > 0, parent[p] \in freed
      PROVE  FALSE
  <2> PICK a \in freed : a = parent[p]
    BY <1>2
  <2>1. /\ a \in PROCS /\ live[a] = {}
        /\ \A t \in THREADS : proc[t] = a => pc[t] \in {"die", "dead"}
    BY FreedFacts
  <2>2. PICK t \in THREADS : proc[t] = p /\ pc[t] \in Counted
    BY <1>2, CountedOne
  <2>3. a # None
    BY <2>1, ProcAssumption
  <2>4. CASE pc[t] = "new"
    <3>1. PICK u \in THREADS : pc[u] = "fork_add" /\ arg[u] = t
      BY <2>4 DEF PIInv, NewInv
    <3>2. parent[proc[t]] = proc[u]
      BY <3>1 DEF PIInv, NewInv
    <3> QED
      BY <2>1, <2>2, <3>1, <3>2
  <2>5. CASE pc[t] # "new"
    <3>1. p \in live[a]
      BY <2>2, <2>3, <2>5 DEF PIInv, ActiveInv, Counted, Waiting
    <3> QED
      BY <2>1, <3>1
  <2> QED
    BY <2>4, <2>5
<1>3. \A t \in THREADS : pc[t] = "report" => arg[t] \notin freed
  BY DEF PIInv, FreedInv
<1> QED
  BY <1>1, <1>2, <1>3 DEF NoProcUseAfterFree, At

\* The keepers of a process, one kind after the other.
LEMMA KeeperKinds ==
  ASSUME NEW p, NEW x
  PROVE  x \in Keepers(p) <=>
           \/ \E q \in PROCS : p \in live[q] /\ x = <<"live", q>>
           \/ \E q \in PROCS : \E i \in DOMAIN dead[q] :
                dead[q][i] = p /\ x = <<"dead", q, i>>
           \/ \E t \in THREADS : pc[t] = "wait_free" /\ arg[t] = p /\ x = <<"waiter", t>>
           \/ \E t \in THREADS : pc[t] = "fork_add" /\ proc[arg[t]] = p /\ x = <<"fork", t>>
           \/ \E t \in THREADS : /\ proc[t] = p /\ parent[p] = None /\ p # init
                                 /\ pc[t] # "dead" /\ x = <<"self", t>>
<1>1. (\E q \in PROCS : p \in live[q] /\ x = <<"live", q>>)
        <=> x \in {<<"live", q>> : q \in {r \in PROCS : p \in live[r]}}
  OBVIOUS
<1>2. (\E q \in PROCS : \E i \in DOMAIN dead[q] : dead[q][i] = p /\ x = <<"dead", q, i>>)
        <=> x \in UNION {{<<"dead", q, i>> : i \in {j \in DOMAIN dead[q] : dead[q][j] = p}}
                        : q \in PROCS}
  OBVIOUS
<1>3. (\E t \in THREADS : pc[t] = "wait_free" /\ arg[t] = p /\ x = <<"waiter", t>>)
        <=> x \in {<<"waiter", t>> : t \in {u \in THREADS : At(u, "wait_free") /\ arg[u] = p}}
  BY DEF At
<1>4. (\E t \in THREADS : pc[t] = "fork_add" /\ proc[arg[t]] = p /\ x = <<"fork", t>>)
        <=> x \in {<<"fork", t>> : t \in {u \in THREADS : At(u, "fork_add")
                                                       /\ proc[arg[u]] = p}}
  BY DEF At
<1>5. (\E t \in THREADS : /\ proc[t] = p /\ parent[p] = None /\ p # init
                          /\ pc[t] # "dead" /\ x = <<"self", t>>)
        <=> x \in {<<"self", t>> : t \in {u \in THREADS : /\ proc[u] = p /\ parent[p] = None
                                                       /\ p # init /\ pc[u] # "dead"}}
  OBVIOUS
<1> QED
  BY <1>1, <1>2, <1>3, <1>4, <1>5, Zenon DEF Keepers

\* What each kind of keeper says of its process.
LEMMA KeeperFacts ==
  ASSUME PIInv, NEW p \in PROCS
  PROVE  /\ \A q \in PROCS : p \in live[q] => parent[p] = q /\ p \notin freed
         /\ \A q \in PROCS : \A i \in DOMAIN dead[q] :
              dead[q][i] = p => p \in Range(dead[q]) /\ parent[p] = q /\ p \notin freed
         /\ \A t \in THREADS : pc[t] = "wait_free" /\ arg[t] = p =>
              /\ p \notin freed /\ parent[p] # None /\ ~Listed(p)
              /\ \A u \in THREADS : proc[u] = p => pc[u] # "new"
         /\ \A t \in THREADS : pc[t] = "fork_add" /\ proc[arg[t]] = p =>
              /\ p \notin freed /\ parent[p] # None /\ ~Listed(p)
              /\ arg[t] \in THREADS /\ pc[arg[t]] = "new"
<1>1. \A q \in PROCS : p \in live[q] => parent[p] = q /\ p \notin freed
  BY DEF PIInv, LiveInv
<1>2. \A q \in PROCS : \A i \in DOMAIN dead[q] :
        dead[q][i] = p => p \in Range(dead[q]) /\ parent[p] = q /\ p \notin freed
  <2>1. \A q \in PROCS : \A i \in DOMAIN dead[q] : dead[q][i] = p => p \in Range(dead[q])
    BY DEF Range
  <2> QED
    BY <2>1 DEF PIInv, DeadInv
<1>3. ASSUME NEW t \in THREADS, pc[t] = "wait_free", arg[t] = p
      PROVE  /\ p \notin freed /\ parent[p] # None /\ ~Listed(p)
             /\ \A u \in THREADS : proc[u] = p => pc[u] # "new"
  <2>1. p \notin freed /\ parent[p] # None /\ Over(p) /\ ~Listed(p)
    BY <1>3 DEF PIInv, TakenInv
  <2> QED
    BY <2>1 DEF Over
<1>4. ASSUME NEW t \in THREADS, pc[t] = "fork_add", proc[arg[t]] = p
      PROVE  /\ p \notin freed /\ parent[p] # None /\ ~Listed(p)
             /\ arg[t] \in THREADS /\ pc[arg[t]] = "new"
  <2>1. PICK u \in THREADS : u = arg[t] /\ pc[u] = "new" /\ parent[proc[u]] = proc[t]
    BY <1>4 DEF PIInv, NewInv
  <2>2. proc[t] # None
    BY <1>4 DEF PIInv, ThreadInv
  <2>3. proc[u] \notin freed /\ ~Listed(proc[u])
    BY <2>1 DEF PIInv, NewInv
  <2>4. proc[u] = p
    BY <1>4, <2>1
  <2> QED
    BY <2>1, <2>2, <2>3, <2>4
<1> QED
  BY <1>1, <1>2, <1>3, <1>4

\* A process in use has one keeper, and a freed one has none.
LEMMA OneKeeperFromInv == PIInv => OneKeeper
<1> SUFFICES ASSUME PIInv, NEW p \in PROCS
             PROVE  /\ p # init /\ (refcount[p] > 0 \/ parent[p] # None) /\ p \notin freed
                         => Cardinality(Keepers(p)) = 1
                    /\ p \in freed => Keepers(p) = {}
  BY DEF OneKeeper
<1>1. parent[p] \in PROCS \cup {None} /\ None \notin PROCS
  BY ProcAssumption DEF PIInv, PTypeOK
<1>2. /\ \A q \in PROCS : p \in live[q] => parent[p] = q /\ p \notin freed
      /\ \A q \in PROCS : \A i \in DOMAIN dead[q] :
           dead[q][i] = p => p \in Range(dead[q]) /\ parent[p] = q /\ p \notin freed
      /\ \A t \in THREADS : pc[t] = "wait_free" /\ arg[t] = p =>
           /\ p \notin freed /\ parent[p] # None /\ ~Listed(p)
           /\ \A u \in THREADS : proc[u] = p => pc[u] # "new"
      /\ \A t \in THREADS : pc[t] = "fork_add" /\ proc[arg[t]] = p =>
           /\ p \notin freed /\ parent[p] # None /\ ~Listed(p)
           /\ arg[t] \in THREADS /\ pc[arg[t]] = "new"
  BY KeeperFacts
<1>3. ASSUME p \in freed
      PROVE  Keepers(p) = {}
  <2>1. \A t \in THREADS : proc[t] = p => pc[t] \in {"die", "dead"}
    BY <1>3, FreedFacts
  <2>2. ASSUME NEW t \in THREADS, proc[t] = p, parent[p] = None, p # init
        PROVE  pc[t] = "dead"
    <3>1. pc[t] \in Leaving \cup {"exit", "die_last", "dead"}
      BY <2>2 DEF PIInv, LoneInv, AloneInv
    <3> QED
      BY <2>1, <2>2, <3>1 DEF Leaving
  <2> SUFFICES ASSUME NEW x \in Keepers(p)
               PROVE  FALSE
    OBVIOUS
  <2> QED
    BY <1>3, <1>2, <2>2, KeeperKinds
<1>4. ASSUME NEW x, Keepers(p) = {x}
      PROVE  Cardinality(Keepers(p)) = 1
  BY <1>4, FS_Singleton
<1>5. ASSUME p # init, refcount[p] > 0, parent[p] = None
      PROVE  Cardinality(Keepers(p)) = 1
  <2>1. PICK t \in THREADS : proc[t] = p /\ pc[t] \in Counted
    BY <1>5, CountedOne
  <2>2. \A u \in THREADS : proc[u] = p => u = t
    BY <1>5, <2>1 DEF PIInv, LoneInv, SoleInv
  <2>3. pc[t] # "dead"
    BY <2>1 DEF Counted, Waiting
  <2>4. <<"self", t>> \in Keepers(p)
    BY <1>5, <2>1, <2>3, KeeperKinds
  <2>5. \A x \in Keepers(p) : x = <<"self", t>>
    <3> SUFFICES ASSUME NEW x \in Keepers(p)
                 PROVE  x = <<"self", t>>
      OBVIOUS
    <3>1. \E u \in THREADS : proc[u] = p /\ x = <<"self", u>>
      <4> HIDE DEF Keepers
      <4> QED
        BY <1>1, <1>5, <1>2, KeeperKinds
    <3> QED
      BY <2>2, <3>1
  <2>6. Keepers(p) = {<<"self", t>>}
    BY <2>4, <2>5
  <2> QED
    BY <1>4, <2>6
<1>6. ASSUME p \notin freed, parent[p] # None
      PROVE  Cardinality(Keepers(p)) = 1
  <2> DEFINE q == parent[p]
  <2>1. q \in PROCS
    BY <1>1, <1>6
  <2>2. CASE p \in live[q]
    <3>1. Listed(p) /\ \A r \in PROCS : \A i \in DOMAIN dead[r] : dead[r][i] # p
      BY <2>1, <2>2, KeeperFacts DEF Listed, PIInv, LiveInv
    <3>2. <<"live", q>> \in Keepers(p)
      BY <2>1, <2>2, KeeperKinds, Zenon
    <3>3. \A x \in Keepers(p) : x = <<"live", q>>
      <4> SUFFICES ASSUME NEW x \in Keepers(p)
                   PROVE  x = <<"live", q>>
        OBVIOUS
      <4> QED
        BY <1>1, <1>6, <1>2, <3>1, KeeperKinds
    <3>4. Keepers(p) = {<<"live", q>>}
      BY <3>2, <3>3
    <3> QED
      BY <1>4, <3>4
  <2>3. CASE p \in Range(dead[q])
    <3>1. Listed(p) /\ \A r \in PROCS : p \notin live[r]
      BY <2>1, <2>3 DEF Listed, PIInv, LiveInv
    <3>2. PICK i \in DOMAIN dead[q] : dead[q][i] = p
      BY <2>3 DEF Range
    <3>3. \A j \in DOMAIN dead[q] : dead[q][j] = p => j = i
      BY <2>1, <3>2 DEF PIInv, DeadInv
    <3>4. <<"dead", q, i>> \in Keepers(p)
      BY <2>1, <3>2, KeeperKinds, Zenon
    <3>5. \A x \in Keepers(p) : x = <<"dead", q, i>>
      <4> SUFFICES ASSUME NEW x \in Keepers(p)
                   PROVE  x = <<"dead", q, i>>
        OBVIOUS
      <4> QED
        BY <1>1, <1>6, <1>2, <3>1, <3>3, KeeperKinds
    <3>6. Keepers(p) = {<<"dead", q, i>>}
      BY <3>4, <3>5
    <3> QED
      BY <1>4, <3>6
  <2>4. ASSUME NEW t \in THREADS, pc[t] = "wait_free", arg[t] = p
        PROVE  Cardinality(Keepers(p)) = 1
    <3>1. ~Listed(p) /\ \A u \in THREADS : proc[u] = p => pc[u] # "new"
      BY <2>4, KeeperFacts
    <3>2. \A r \in PROCS : p \notin live[r] /\ p \notin Range(dead[r])
      BY <3>1 DEF Listed
    <3>3. \A u \in THREADS : pc[u] = "wait_free" /\ arg[u] = p => u = t
      BY <2>4 DEF PIInv, TakenInv
    <3>4. \A u \in THREADS : pc[u] = "fork_add" => proc[arg[u]] # p
      BY <3>1, KeeperFacts
    <3>5. <<"waiter", t>> \in Keepers(p)
      BY <2>4, KeeperKinds, Zenon
    <3>6. \A x \in Keepers(p) : x = <<"waiter", t>>
      <4> SUFFICES ASSUME NEW x \in Keepers(p)
                   PROVE  x = <<"waiter", t>>
        OBVIOUS
      <4> QED
        BY <1>1, <1>6, <1>2, <3>2, <3>3, <3>4, KeeperKinds
    <3>7. Keepers(p) = {<<"waiter", t>>}
      BY <3>5, <3>6
    <3> QED
      BY <1>4, <3>7
  <2>5. ASSUME NEW t \in THREADS, pc[t] = "fork_add", proc[arg[t]] = p
        PROVE  Cardinality(Keepers(p)) = 1
    <3>1. ~Listed(p) /\ arg[t] \in THREADS /\ pc[arg[t]] = "new"
      BY <2>5, KeeperFacts
    <3>2. \A r \in PROCS : p \notin live[r] /\ p \notin Range(dead[r])
      BY <3>1 DEF Listed
    <3>3. \A u \in THREADS : pc[u] = "wait_free" => arg[u] # p
      BY <2>5, <3>1, KeeperFacts
    <3>4. ASSUME NEW u \in THREADS, pc[u] = "fork_add", proc[arg[u]] = p
          PROVE  u = t
      <4>1. arg[u] \in THREADS /\ pc[arg[u]] = "new"
        BY <3>4, KeeperFacts
      <4>2. arg[u] = arg[t]
        BY <2>5, <3>1, <3>4, <4>1 DEF PIInv, NewInv
      <4> QED
        BY <2>5, <3>4, <4>2 DEF PIInv, NewInv
    <3>5. <<"fork", t>> \in Keepers(p)
      BY <2>5, KeeperKinds, Zenon
    <3>6. \A x \in Keepers(p) : x = <<"fork", t>>
      <4> SUFFICES ASSUME NEW x \in Keepers(p)
                   PROVE  x = <<"fork", t>>
        OBVIOUS
      <4> QED
        BY <1>1, <1>6, <1>2, <3>2, <3>3, <3>4, KeeperKinds
    <3>7. Keepers(p) = {<<"fork", t>>}
      BY <3>5, <3>6
    <3> QED
      BY <1>4, <3>7
  <2> QED
    BY <1>6, <2>2, <2>3, <2>4, <2>5 DEF PIInv, FoundInv
<1> QED
  <2>1. CASE parent[p] = None
    BY <1>3, <1>5, <2>1
  <2>2. CASE parent[p] # None
    BY <1>3, <1>6, <2>2
  <2> QED
    BY <2>1, <2>2

\* Whoever holds a wait_lock waits at most for init's, whose holder waits for
\* nothing; the holder of malloc_lock waits at most for a wait_lock.
LEMMA NoCycleFromInv == PIInv => NoLockCycle
<1> SUFFICES ASSUME PIInv, NEW S \in SUBSET THREADS, NEW s \in S,
                    \A t \in S : WaitsFor(t) \in S
             PROVE  FALSE
  BY DEF NoLockCycle
<1>1. /\ proc \in [THREADS -> PROCS \cup {None}] /\ init \in PROCS
      /\ None \notin PROCS \cup THREADS
  BY ProcAssumption DEF PIInv, PTypeOK
<1>2. \A t \in S : pc[t] \in {"exit", "fork_add", "wait_lock", "orphan", "orphan_init",
                             "report", "wait_free", "die", "die_last"}
  BY <1>1 DEF WaitsFor
<1>3. ASSUME NEW p \in PROCS, waitOwner[p] \in S
      PROVE  pc[waitOwner[p]] = "orphan_init" /\ proc[waitOwner[p]] = p
  BY <1>2, <1>3 DEF PIInv, WaitLockInv, Locking
<1>4. \A t \in S : pc[t] # "orphan_init"
  <2> SUFFICES ASSUME NEW t \in S, pc[t] = "orphan_init"
               PROVE  FALSE
    OBVIOUS
  <2>1. WaitsFor(t) = waitOwner[init]
    BY DEF WaitsFor
  <2>2. PICK u \in S : u = waitOwner[init]
    BY <2>1
  <2>3. pc[u] = "orphan_init" /\ proc[u] = init
    BY <1>1, <1>3, <2>2
  <2> QED
    BY <2>3 DEF PIInv, LoneInv, InitInv, Counted, Waiting
<1>5. \A p \in PROCS : waitOwner[p] \notin S
  BY <1>3, <1>4
<1>6. \A t \in S : pc[t] \notin {"fork_add", "wait_lock", "orphan", "report"}
  <2> SUFFICES ASSUME NEW t \in S, pc[t] \in {"fork_add", "wait_lock", "orphan", "report"}
               PROVE  FALSE
    OBVIOUS
  <2>1. CASE pc[t] = "report"
    <3>1. WaitsFor(t) = waitOwner[arg[t]] /\ arg[t] \in PROCS
      BY <2>1 DEF WaitsFor, PIInv, ThreadInv
    <3> QED
      BY <1>5, <3>1
  <2>2. CASE pc[t] # "report"
    <3>1. WaitsFor(t) = waitOwner[proc[t]]
      BY <2>2 DEF WaitsFor
    <3>2. proc[t] \in PROCS
      BY <1>1, <2>2 DEF PIInv, ThreadInv
    <3> QED
      BY <1>5, <3>1, <3>2
  <2> QED
    BY <2>1, <2>2
<1>7. \A t \in S : pc[t] # "exit"
  <2> SUFFICES ASSUME NEW t \in S, pc[t] = "exit"
               PROVE  FALSE
    OBVIOUS
  <2>1. WaitsFor(t) = refOwner[proc[t]] /\ proc[t] \in PROCS
    BY <1>1 DEF WaitsFor, PIInv, ThreadInv
  <2>2. PICK u \in S : u = refOwner[proc[t]]
    BY <2>1
  <2>3. pc[u] = "exit_left"
    BY <2>1, <2>2 DEF PIInv, RefLockInv
  <2> QED
    BY <1>2, <2>3
<1>8. \A t \in S : WaitsFor(t) = heapOwner
  BY <1>2, <1>4, <1>6, <1>7 DEF WaitsFor
<1>9. PICK u \in S : u = heapOwner
  BY <1>8
<1>10. pc[u] \in {"report", "dead"}
  BY <1>9 DEF PIInv, RefLockInv
<1> QED
  BY <1>2, <1>6, <1>10

-----------------------------------------------------------------------------
(* The properties, for every number of processes and threads *)

\* The types of process_t, thread_t and the three mutexes.
THEOREM ProcTypes == ASSUME Careful PROVE Spec => []PTypeOK
<1>1. PIInv => PTypeOK
  BY DEF PIInv
<1> QED
  BY <1>1, ProcInvariance, PTL

\* wait() never starts to wait for a child that cannot come.
THEOREM WaitersAlwaysHaveChildren == ASSUME Careful PROVE Spec => []WaitersHaveChildren
<1>1. PIInv => WaitersHaveChildren
  BY DEF PIInv
<1> QED
  BY <1>1, ProcInvariance, PTL

\* No thread sleeps in wait() while a dead child is left for it.
THEOREM NoChildMissed == ASSUME Careful PROVE Spec => []NoMissedChild
<1>1. PIInv => NoMissedChild
  BY DEF PIInv, MissInv
<1> QED
  BY <1>1, ProcInvariance, PTL

\* No thread and no child refers to a process after it was freed.
THEOREM NoProcessUsedAfterFree == ASSUME Careful PROVE Spec => []NoProcUseAfterFree
<1> QED
  BY NoUseFromInv, ProcInvariance, PTL

\* A process in use is in exactly one place from which it will be freed.
THEOREM ProcessFreedOnce == ASSUME Careful PROVE Spec => []OneKeeper
<1> QED
  BY OneKeeperFromInv, ProcInvariance, PTL

\* The mutexes of exit and wait() never deadlock.
THEOREM NoDeadlockOfLocks == ASSUME Careful PROVE Spec => []NoLockCycle
<1> QED
  BY NoCycleFromInv, ProcInvariance, PTL
=============================================================================
