---------------------------- MODULE KSchedProofs ----------------------------
(***************************************************************************)
(* Proofs that the scheduler and its blocking primitives are correct for   *)
(* every set of CPUs, threads, mutexes and condition variables.            *)
(***************************************************************************)
EXTENDS KSchedInv, FiniteSetTheorems, TLAPS

-----------------------------------------------------------------------------
(* The queue operations of common.c on sequences without repetition *)

\* queue_insert_tail adds one thread to the members of a queue.
LEMMA AppendFacts ==
  ASSUME NEW S, NEW s \in Seq(S), NEW x \in S
  PROVE  /\ Append(s, x) \in Seq(S)
         /\ Range(Append(s, x)) = Range(s) \cup {x}
         /\ IsInjective(s) /\ x \notin Range(s) => IsInjective(Append(s, x))
<1>1. /\ Append(s, x) \in Seq(S)
      /\ Len(Append(s, x)) = Len(s) + 1
      /\ \A i \in 1..Len(s) : Append(s, x)[i] = s[i]
      /\ Append(s, x)[Len(s) + 1] = x
  OBVIOUS
<1>2. Range(Append(s, x)) = Range(s) \cup {x}
  BY <1>1 DEF Range
<1>3. ASSUME IsInjective(s), x \notin Range(s)
      PROVE  IsInjective(Append(s, x))
  BY <1>1, <1>3 DEF Range, IsInjective
<1> QED
  BY <1>1, <1>2, <1>3

\* queue_remove_head takes one thread out of the members of a queue.
LEMMA TailFacts ==
  ASSUME NEW S, NEW s \in Seq(S), s # <<>>
  PROVE  /\ Tail(s) \in Seq(S)
         /\ Head(s) \in S
         /\ Head(s) \in Range(s)
         /\ IsInjective(s) => /\ Range(Tail(s)) = Range(s) \ {Head(s)}
                              /\ IsInjective(Tail(s))
<1>1. /\ Tail(s) \in Seq(S) /\ Head(s) \in S
      /\ Len(Tail(s)) = Len(s) - 1 /\ Len(s) \in Nat \ {0}
      /\ \A i \in 1..Len(Tail(s)) : Tail(s)[i] = s[i + 1]
      /\ Head(s) = s[1]
      /\ DOMAIN s = 1..Len(s) /\ DOMAIN Tail(s) = 1..Len(Tail(s))
  OBVIOUS
<1>2. Head(s) \in Range(s)
  BY <1>1 DEF Range
<1>3. ASSUME IsInjective(s)
      PROVE  /\ Range(Tail(s)) = Range(s) \ {Head(s)}
             /\ IsInjective(Tail(s))
  <2>1. IsInjective(Tail(s))
    BY <1>1, <1>3 DEF IsInjective
  <2>2. ASSUME NEW y \in Range(Tail(s))
        PROVE  y \in Range(s) \ {Head(s)}
    BY <1>1, <1>3, <2>2 DEF IsInjective, Range
  <2>3. ASSUME NEW y \in Range(s) \ {Head(s)}
        PROVE  y \in Range(Tail(s))
    <3>1. PICK i \in 1..Len(s) : y = s[i]
      BY <1>1, <2>3 DEF Range
    <3>2. i - 1 \in 1..Len(Tail(s)) /\ Tail(s)[i - 1] = y
      BY <1>1, <2>3, <3>1
    <3> QED
      BY <1>1, <3>2 DEF Range
  <2> QED
    BY <2>1, <2>2, <2>3
<1> QED
  BY <1>1, <1>2, <1>3

\* queue_insert_head adds one thread to the members of a queue.
LEMMA ConsFacts ==
  ASSUME NEW S, NEW s \in Seq(S), NEW x \in S
  PROVE  /\ <<x>> \o s \in Seq(S)
         /\ Range(<<x>> \o s) = Range(s) \cup {x}
         /\ IsInjective(s) /\ x \notin Range(s) => IsInjective(<<x>> \o s)
<1> DEFINE r == <<x>> \o s
<1>1. /\ r \in Seq(S)
      /\ Len(r) = Len(s) + 1
      /\ r[1] = x
      /\ \A i \in 2..Len(s) + 1 : r[i] = s[i - 1]
      /\ DOMAIN s = 1..Len(s) /\ DOMAIN r = 1..Len(r)
  OBVIOUS
<1> HIDE DEF r
<1>2. Range(r) \subseteq Range(s) \cup {x}
  BY <1>1 DEF Range
<1>3. x \in Range(r)
  BY <1>1 DEF Range
<1>4. ASSUME NEW y \in Range(s)
      PROVE  y \in Range(r)
  <2>1. PICK i \in 1..Len(s) : y = s[i]
    BY <1>1, <1>4 DEF Range
  <2>2. i + 1 \in 1..Len(r) /\ r[i + 1] = y
    BY <1>1, <2>1
  <2> QED
    BY <1>1, <2>2 DEF Range
<1>5. ASSUME IsInjective(s), x \notin Range(s)
      PROVE  IsInjective(r)
  BY <1>1, <1>5 DEF Range, IsInjective
<1> QED
  BY <1>1, <1>2, <1>3, <1>4, <1>5 DEF r

-----------------------------------------------------------------------------
(* What the assumptions say of the constants *)

\* No name serves as a thread, a CPU and a lock at once, so a value tells what it is.
LEMMA ConstantFacts ==
  /\ THREADS \subseteq AllThreads
  /\ IdleThreads \subseteq AllThreads /\ KThreads \subseteq AllThreads
  /\ AllThreads = THREADS \cup IdleThreads \cup KThreads
  /\ THREADS \cap IdleThreads = {} /\ THREADS \cap KThreads = {}
  /\ IdleThreads \cap KThreads = {}
  /\ \A c \in CPUS : idle[c] \in IdleThreads /\ kthread[c] \in KThreads
  /\ \A c, d \in CPUS : idle[c] = idle[d] => c = d
  /\ \A c, d \in CPUS : kthread[c] = kthread[d] => c = d
  /\ MUTEXES \subseteq QUEUES /\ CVS \subseteq QUEUES /\ QUEUES \subseteq SPLS
  /\ MUTEXES \cap CVS = {}
  /\ ReadyLock \in SPLS \ QUEUES /\ TimerLock \in SPLS \ QUEUES
  /\ ReadyLock # TimerLock
  /\ None \notin SPLS /\ None \notin CPUS
  /\ QUEUES \subseteq GUARDS /\ ReadyLock \in GUARDS /\ TimerLock \in GUARDS
  /\ GUARDS \subseteq SPLS /\ GUARDS \cap AllThreads = {}
  /\ AllThreads \subseteq SPLS
<1>1. /\ \A c \in CPUS : idle[c] \in IdleThreads /\ kthread[c] \in KThreads
      /\ \A c, d \in CPUS : idle[c] = idle[d] => c = d
      /\ \A c, d \in CPUS : kthread[c] = kthread[d] => c = d
  BY CpuAssumption DEF Injection, IsInjective
<1>2. /\ THREADS \subseteq AllThreads
      /\ IdleThreads \subseteq AllThreads /\ KThreads \subseteq AllThreads
      /\ AllThreads = THREADS \cup IdleThreads \cup KThreads
  BY DEF AllThreads
<1>3. /\ THREADS \cap IdleThreads = {} /\ THREADS \cap KThreads = {}
      /\ IdleThreads \cap KThreads = {}
  BY ThreadAssumption
<1>4. /\ MUTEXES \subseteq QUEUES /\ CVS \subseteq QUEUES
      /\ QUEUES \subseteq SPLS /\ ReadyLock \in SPLS /\ TimerLock \in SPLS
  BY DEF QUEUES, SPLS
<1>5. /\ MUTEXES \cap CVS = {} /\ ReadyLock # TimerLock
      /\ ReadyLock \notin QUEUES /\ TimerLock \notin QUEUES
  BY LockAssumption
<1>6. None \notin SPLS /\ None \notin CPUS
  BY CpuAssumption
<1>7. /\ QUEUES \subseteq GUARDS /\ ReadyLock \in GUARDS /\ TimerLock \in GUARDS
      /\ GUARDS \subseteq SPLS /\ GUARDS \cap AllThreads = {}
      /\ AllThreads \subseteq SPLS
  BY LockAssumption DEF GUARDS, SPLS
<1> QED
  BY <1>1, <1>2, <1>3, <1>4, <1>5, <1>6, <1>7

-----------------------------------------------------------------------------
(* The part of the invariant that is about the machine (spinlocks, CPUs and  *)
(* queues); the rest is about threads (control points, waiters and owners).  *)

MachineInv ==
  /\ SpinInv /\ BusyInv /\ CpuInv
  /\ QueueInv /\ CurrentInv /\ GoneInv /\ LinkedInv /\ SavedInv

\* No thread dies, is created, deschedules itself or is made runnable.
SameGone ==
  \A u \in THREADS : (Dead(u)' <=> Dead(u)) /\ (Off(u)' <=> Off(u))

\* A thread that GoneInv places nowhere is not touched by a step that leaves
\* queues and CPUs alone.
LEMMA GoneFrame ==
  ASSUME IInv, SameGone, UNCHANGED <<cpuVars, ready, waiters, timers>>
  PROVE  GoneInv' /\ (LinkedInv')
<1>1. \A q : Waiting(q)' = Waiting(q)
  BY DEF Waiting
<1>2. /\ UNCHANGED <<current, phase, next, rel>>
      /\ \A c \in CPUS : current[c] \in THREADS => current[c] \in THREADS
  BY DEF cpuVars
<1>3. GoneInv'
  BY <1>1, <1>2 DEF IInv, GoneInv, SameGone
<1>4. LinkedInv'
  BY <1>1, <1>2 DEF IInv, LinkedInv, SameGone
<1> QED
  BY <1>3, <1>4

\* Thread t, on CPU c, neither takes nor drops a guard and enters or leaves no
\* queue.
LEMMA LocalStep ==
  ASSUME IInv, NEW c \in CPUS, NEW t \in AllThreads,
         current[c] = t, phase[c] = "run",
         UNCHANGED <<cpuVars, ready, saved, waiters, wait, timers>>, SameGone,
         \A k \in GUARDS : spl'[k] = spl[k],
         \A u \in AllThreads : u # t => pc'[u] = pc[u] /\ ret'[u] = ret[u]
                                        /\ mtx'[u] = mtx[u],
         pc[t] \notin {"lk_sel", "ul_wake", "sg_wake", "sl_sel"},
         pc'[t] \notin {"lk_sel", "ul_wake", "sg_wake", "sl_sel"},
         InCvWait(t)' <=> InCvWait(t)
  PROVE  MachineInv'
<1> USE DEF IInv
<1>1. ASSUME NEW u \in AllThreads
      PROVE  /\ Busy(u)' <=> Busy(u)
             /\ \A l \in GUARDS : ThreadHolds(u, l)' <=> ThreadHolds(u, l)
             /\ InCvWait(u)' <=> InCvWait(u)
             /\ pc'[u] = "sl_sel" <=> pc[u] = "sl_sel"
             /\ \A q \in QUEUES : pc'[u] = "lk_sel" /\ mtx'[u] = q
                                    <=> pc[u] = "lk_sel" /\ mtx[u] = q
  <2>1. CASE u = t
    BY <2>1 DEF Busy, InCvWait, ThreadHolds
  <2>2. CASE u # t
    BY <2>2 DEF Busy, InCvWait, ThreadHolds
  <2> QED
    BY <2>1, <2>2
<1>2. SpinInv'
  <2>1. ASSUME NEW d \in CPUS, NEW k \in GUARDS
        PROVE  Holds(d, k)' <=> Holds(d, k)
    BY <1>1 DEF Holds, cpuVars, TypeOK
  <2> QED
    BY <2>1 DEF SpinInv
<1>3. BusyInv'
  BY <1>1 DEF BusyInv, cpuVars
<1>4. CpuInv'
  BY DEF CpuInv, cpuVars
<1>5. QueueInv'
  BY DEF QueueInv, cpuVars, Waiting
<1>6. CurrentInv'
  BY <1>1 DEF CurrentInv, cpuVars, Waiting, LeavingVia, TypeOK
<1>7. GoneInv' /\ LinkedInv'
  BY GoneFrame
<1>8. SavedInv'
  BY DEF SavedInv, cpuVars, SameGone
<1> QED
  BY <1>2, <1>3, <1>4, <1>5, <1>6, <1>7, <1>8 DEF MachineInv

\* The current thread of a CPU that has not started to leave is linked nowhere.
LEMMA Unlinked ==
  ASSUME IInv, NEW c \in CPUS, ~Busy(current[c]), phase[c] # "switch"
  PROVE  /\ current[c] \notin Range(ready) \cup timers
         /\ \A q \in QUEUES : current[c] \notin Waiting(q)
         /\ \A d \in CPUS : phase[d] = "switch" => next[d] # current[c]
BY DEF IInv, CurrentInv, CpuInv, Busy, LeavingVia

\* Thread t, on CPU c, takes the spinlock l, and may link itself into the queue
\* that l protects.
LEMMA AcquireStep ==
  ASSUME IInv, NEW c \in CPUS, NEW t \in THREADS, NEW l \in GUARDS,
         current[c] = t, phase[c] = "run", ~Busy(t), Busy(t)',
         Free(l), spl' = [spl EXCEPT ![l] = c],
         UNCHANGED <<cpuVars, ready, saved>>, SameGone,
         \A u \in AllThreads : u # t => /\ pc'[u] = pc[u] /\ ret'[u] = ret[u]
                                        /\ mtx'[u] = mtx[u] /\ wait'[u] = wait[u],
         \A k \in GUARDS : ThreadHolds(t, k)' <=> k = l,
         \A q \in QUEUES :
           /\ Waiting(q)' = IF LeavingVia(c, q)' THEN Waiting(q) \cup {t}
                                                 ELSE Waiting(q)
           /\ IsInjective(waiters'[q]),
         timers' = IF pc'[t] = "sl_sel" THEN timers \cup {t} ELSE timers,
         \A q \in QUEUES : LeavingVia(c, q)' => q = l,
         pc'[t] = "sl_sel" => l \notin QUEUES
  PROVE  MachineInv'
<1> USE DEF IInv
<1>0. t \in AllThreads /\ QUEUES \subseteq GUARDS /\ GUARDS \subseteq SPLS /\ None \notin CPUS
  BY ConstantFacts
<1>1. ASSUME NEW u \in AllThreads, u # t
      PROVE  /\ Busy(u)' <=> Busy(u)
             /\ \A k \in GUARDS : ThreadHolds(u, k)' <=> ThreadHolds(u, k)
             /\ InCvWait(u)' <=> InCvWait(u)
             /\ pc'[u] = pc[u] /\ mtx'[u] = mtx[u] /\ wait'[u] = wait[u]
  BY <1>1 DEF Busy, InCvWait, ThreadHolds
<1>2. /\ t \notin Range(ready) \cup timers
      /\ \A q \in QUEUES : t \notin Waiting(q)
      /\ \A d \in CPUS : phase[d] = "switch" => next[d] # t
  BY Unlinked
<1>3. /\ \A d \in CPUS : current[d] = t => d = c
      /\ \A d \in CPUS : current[d] \in AllThreads
  BY DEF CpuInv, TypeOK
<1>4. SpinInv'
  <2>1. \A k \in GUARDS : spl[k] # c
    BY DEF SpinInv, Holds, ThreadHolds, Busy
  <2>2. ASSUME NEW d \in CPUS, d # c, NEW k \in GUARDS
        PROVE  spl'[k] = d <=> Holds(d, k)'
    BY <1>0, <1>1, <1>3, <2>2 DEF SpinInv, Holds, cpuVars, TypeOK, Free
  <2>3. ASSUME NEW k \in GUARDS
        PROVE  spl'[k] = c <=> Holds(c, k)'
    BY <1>0, <2>1 DEF Holds, cpuVars, TypeOK
  <2> QED
    BY <2>2, <2>3 DEF SpinInv
<1>5. BusyInv'
  BY <1>1 DEF BusyInv, cpuVars
<1>6. CpuInv' /\ SavedInv'
  BY DEF CpuInv, SavedInv, cpuVars, SameGone
<1>7. QueueInv'
  BY <1>2 DEF QueueInv, cpuVars
<1>8. CurrentInv'
  <2>1. ASSUME NEW d \in CPUS, d # c
        PROVE  /\ current[d] # t
               /\ \A q \in QUEUES : LeavingVia(d, q)' <=> LeavingVia(d, q)
    BY <1>1, <1>3, <2>1 DEF LeavingVia, cpuVars
  <2> QED
    BY <1>1, <1>2, <1>3, <2>1 DEF CurrentInv, cpuVars
<1>9. LinkedInv'
  BY DEF LinkedInv, cpuVars, SameGone
<1>10. GoneInv'
  BY DEF GoneInv, cpuVars, SameGone
<1> QED
  BY <1>4, <1>5, <1>6, <1>7, <1>8, <1>9, <1>10 DEF MachineInv

\* Taking the oldest waiter of q to the head of the ready queue.
LEMMA WakeFacts ==
  ASSUME IInv, NEW q \in QUEUES, waiters[q] # <<>>, WakeHead(q)
  PROVE  LET w == Head(waiters[q]) IN
         /\ w \in THREADS /\ w \in Waiting(q)
         /\ ready' \in Seq(THREADS)
         /\ IsInjective(ready')
         /\ Range(ready') = Range(ready) \cup {w}
         /\ waiters' \in [QUEUES -> Seq(THREADS)]
         /\ Waiting(q)' = Waiting(q) \ {w}
         /\ \A r \in QUEUES : r # q => waiters'[r] = waiters[r]
         /\ \A r \in QUEUES : IsInjective(waiters'[r])
<1> DEFINE w == Head(waiters[q])
<1>1. /\ ready \in Seq(THREADS) /\ IsInjective(ready)
      /\ waiters \in [QUEUES -> Seq(THREADS)]
      /\ \A r \in QUEUES : IsInjective(waiters[r])
      /\ Waiting(q) \cap Range(ready) = {}
  BY DEF IInv, TypeOK, QueueInv
<1>2. ready' = <<w>> \o ready /\ waiters' = [waiters EXCEPT ![q] = Tail(@)]
  BY DEF WakeHead
<1>3. /\ w \in THREADS /\ w \in Waiting(q)
      /\ Tail(waiters[q]) \in Seq(THREADS) /\ IsInjective(Tail(waiters[q]))
      /\ Range(Tail(waiters[q])) = Waiting(q) \ {w}
  BY <1>1, TailFacts DEF Waiting
<1>4. /\ ready' \in Seq(THREADS) /\ IsInjective(ready')
      /\ Range(ready') = Range(ready) \cup {w}
  BY <1>1, <1>2, <1>3, ConsFacts
<1>5. /\ waiters' \in [QUEUES -> Seq(THREADS)]
      /\ waiters'[q] = Tail(waiters[q])
      /\ \A r \in QUEUES : r # q => waiters'[r] = waiters[r]
  BY <1>1, <1>2, <1>3
<1> QED
  BY <1>1, <1>3, <1>4, <1>5 DEF Waiting

\* A waiter exists and is not descheduled.
LEMMA WakeGone ==
  ASSUME IInv, NEW q \in QUEUES, waiters[q] # <<>>, WakeHead(q)
  PROVE  /\ SameGone
         /\ ~Dead(Head(waiters[q])) /\ ~Off(Head(waiters[q]))
<1> DEFINE w == Head(waiters[q])
<1>1. w \in THREADS /\ w \in Waiting(q) /\ THREADS \subseteq AllThreads
  BY WakeFacts, ConstantFacts
<1>2. ~Dead(w) /\ ~Off(w)
  BY <1>1 DEF IInv, GoneInv
<1>3. status' = [status EXCEPT ![w] = "READY"] /\ status \in [AllThreads -> Status]
  BY DEF WakeHead, IInv, TypeOK
<1> QED
  BY <1>1, <1>2, <1>3 DEF SameGone, Dead, Off

\* Thread t, on CPU c, wakes the oldest waiter of q and releases q's guard.
LEMMA WakeStep ==
  ASSUME IInv, NEW c \in CPUS, NEW t \in AllThreads, NEW q \in QUEUES,
         current[c] = t, phase[c] = "run", pc[t] \in {"ul_wake", "sg_wake"},
         ThreadHolds(t, q), InCvWait(t) => wait[t][1] # q,
         waiters[q] # <<>>, WakeHead(q),
         UNCHANGED <<cpuVars, timers>>,
         \A u \in AllThreads : u # t => /\ pc'[u] = pc[u] /\ ret'[u] = ret[u]
                                        /\ mtx'[u] = mtx[u] /\ wait'[u] = wait[u],
         pc'[t] \notin {"lk_sel", "ul_wake", "sg_wake", "sl_sel"},
         InCvWait(t)' <=> InCvWait(t), InCvWait(t) => wait'[t] = wait[t],
         \A k \in GUARDS : ThreadHolds(t, k)' <=> ThreadHolds(t, k) /\ k # q
  PROVE  MachineInv'
<1> USE DEF IInv
<1> DEFINE w == Head(waiters[q])
<1>0. /\ QUEUES \subseteq GUARDS /\ GUARDS \subseteq SPLS
      /\ None \notin CPUS /\ ReadyLock \notin QUEUES /\ THREADS \subseteq AllThreads
  BY ConstantFacts
<1>1. ASSUME NEW u \in AllThreads, u # t
      PROVE  /\ Busy(u)' <=> Busy(u)
             /\ \A k \in GUARDS : ThreadHolds(u, k)' <=> ThreadHolds(u, k)
             /\ InCvWait(u)' <=> InCvWait(u)
             /\ pc'[u] = pc[u] /\ mtx'[u] = mtx[u] /\ wait'[u] = wait[u]
  BY <1>1 DEF Busy, InCvWait, ThreadHolds
<1>2. /\ w \in THREADS /\ w \in Waiting(q)
      /\ IsInjective(ready')
      /\ Range(ready') = Range(ready) \cup {w}
      /\ Waiting(q)' = Waiting(q) \ {w}
      /\ \A r \in QUEUES : r # q => Waiting(r)' = Waiting(r)
      /\ \A r \in QUEUES : IsInjective(waiters'[r])
  BY WakeFacts DEF Waiting
<1>3. /\ \A d \in CPUS : current[d] = t => d = c
      /\ \A d \in CPUS : current[d] \in AllThreads
  BY DEF CpuInv, TypeOK
<1>4. spl[q] = c
  BY <1>0 DEF SpinInv, Holds
<1>5. ASSUME NEW d \in CPUS
      PROVE  current[d] # w /\ ~LeavingVia(d, q)
  <2>1. ~LeavingVia(d, q)
    <3>1. CASE d = c
      BY <3>1 DEF LeavingVia
    <3>2. CASE d # c
      BY <1>0, <1>4, <3>2 DEF SpinInv, Holds, ThreadHolds, LeavingVia
    <3> QED
      BY <3>1, <3>2
  <2> QED
    BY <1>2, <2>1 DEF CurrentInv
<1>6. SpinInv'
  <2>1. spl' = [spl EXCEPT ![q] = None]
    BY DEF WakeHead
  <2>2. ASSUME NEW d \in CPUS, d # c, NEW k \in GUARDS
        PROVE  spl'[k] = d <=> Holds(d, k)'
    BY <1>0, <1>1, <1>3, <1>4, <2>1, <2>2 DEF SpinInv, Holds, cpuVars, TypeOK
  <2>3. ASSUME NEW k \in GUARDS
        PROVE  spl'[k] = c <=> Holds(c, k)'
    <3>1. spl[k] = c <=> ThreadHolds(t, k)
      BY DEF SpinInv, Holds
    <3>2. Holds(c, k)' <=> ThreadHolds(t, k)'
      BY DEF Holds, cpuVars
    <3>3. spl'[k] = IF k = q THEN None ELSE spl[k]
      BY <1>0, <2>1 DEF TypeOK
    <3> QED
      BY <1>0, <3>1, <3>2, <3>3
  <2> QED
    BY <2>2, <2>3 DEF SpinInv
<1>7. BusyInv'
  BY <1>1 DEF BusyInv, cpuVars
<1>12. SameGone /\ ~Dead(w) /\ ~Off(w)
  BY WakeGone
<1>8. CpuInv' /\ SavedInv'
  BY <1>12 DEF CpuInv, SavedInv, cpuVars, WakeHead, SameGone
<1>9. QueueInv'
  BY <1>2 DEF QueueInv, cpuVars
<1>10. CurrentInv'
  <2>1. ASSUME NEW d \in CPUS
        PROVE  /\ \A r \in QUEUES : LeavingVia(d, r)' <=> LeavingVia(d, r)
               /\ pc'[current[d]] = "sl_sel" <=> pc[current[d]] = "sl_sel"
    <3>1. CASE d = c
      BY <3>1 DEF LeavingVia, cpuVars
    <3>2. CASE d # c
      BY <1>1, <1>3, <3>2 DEF LeavingVia, cpuVars
    <3> QED
      BY <3>1, <3>2
  <2> QED
    BY <1>2, <1>5, <2>1 DEF CurrentInv, cpuVars
<1>11. LinkedInv'
  BY <1>2, <1>12 DEF LinkedInv, cpuVars, SameGone
<1>13. GoneInv'
  BY <1>2, <1>12 DEF GoneInv, cpuVars, SameGone
<1> QED
  BY <1>6, <1>7, <1>8, <1>9, <1>10, <1>11, <1>12, <1>13 DEF MachineInv

\* select_next on the queue s takes its head, or the idle thread of the CPU.
LEMMA SelectNextFacts ==
  ASSUME TypeOK, NEW c \in CPUS, NEW s \in Seq(THREADS), IsInjective(s),
         SelectNext(c, s)
  PROVE  /\ next' \in [CPUS -> AllThreads]
         /\ \A d \in CPUS : d # c => next'[d] = next[d]
         /\ ready' \in Seq(THREADS) /\ IsInjective(ready')
         /\ Range(ready') = Range(s) \ {next'[c]}
         /\ next'[c] \in Range(s) \cup {idle[c]}
<1> DEFINE n == IF s = <<>> THEN idle[c] ELSE Head(s)
<1>1. /\ next' = [next EXCEPT ![c] = n]
      /\ ready' = IF s = <<>> THEN s ELSE Tail(s)
  BY DEF SelectNext
<1>2. CASE s = <<>>
  <2>1. Range(s) = {} /\ n = idle[c] /\ n \in AllThreads /\ ready' = s
    BY <1>1, <1>2, ConstantFacts DEF Range
  <2> QED
    BY <1>1, <2>1 DEF TypeOK
<1>3. CASE s # <<>>
  <2>1. /\ n \in Range(s) /\ n \in THREADS /\ ready' = Tail(s)
        /\ Tail(s) \in Seq(THREADS) /\ IsInjective(Tail(s))
        /\ Range(Tail(s)) = Range(s) \ {n}
    BY <1>1, <1>3, TailFacts
  <2> QED
    BY <1>1, <2>1, ConstantFacts DEF TypeOK
<1> QED
  BY <1>2, <1>3

\* CPU c selects a thread from s and enters yield_to_spl_unlock with the
\* spinlock l, its current thread being linked where l says.
LEMMA SwitchStep ==
  ASSUME IInv, NEW c \in CPUS, NEW l \in GUARDS \cup THREADS,
         phase[c] \in {"run", "preempt"}, Free(ReadyLock),
         NEW s \in Seq(THREADS), IsInjective(s),
         SelectNext(c, s), YieldTo(c, l),
         UNCHANGED <<saved, waiters, timers>>,
         \A u \in AllThreads : u # current[c] =>
           /\ pc'[u] = pc[u] /\ ret'[u] = ret[u]
           /\ mtx'[u] = mtx[u] /\ wait'[u] = wait[u],
         ~Busy(current[c])',
         \A k \in GUARDS : spl'[k] = c <=> k = l,
         \A k \in GUARDS, d \in CPUS : d # c => (spl'[k] = d <=> spl[k] = d),
         \A u \in THREADS : /\ Dead(u)' <=> Dead(u)
                            /\ Off(u)' <=> Off(u) \/ u = l,
         l \in THREADS => l = current[c],
         current[c] \notin Range(ready),
         Range(s) = Range(ready) \cup
                      (IF l = ReadyLock /\ current[c] \in THREADS
                       THEN {current[c]} ELSE {}),
         \A q \in QUEUES : current[c] \in Waiting(q) <=> l = q,
         current[c] \in timers <=> l = TimerLock,
         l # ReadyLock => current[c] \in THREADS
  PROVE  MachineInv'
<1> USE DEF IInv
<1> DEFINE t == current[c]
           n == next'[c]
<1>0. /\ QUEUES \subseteq GUARDS /\ ReadyLock \in GUARDS /\ TimerLock \in GUARDS
      /\ GUARDS \subseteq SPLS /\ GUARDS \cap THREADS = {}
      /\ ReadyLock \notin QUEUES /\ TimerLock \notin QUEUES
      /\ ReadyLock # TimerLock /\ None \notin CPUS
      /\ \A d \in CPUS : idle[d] \in IdleThreads /\ kthread[d] \in KThreads
      /\ \A d, e \in CPUS : idle[d] = idle[e] => d = e
      /\ THREADS \cap IdleThreads = {} /\ IdleThreads \cap KThreads = {}
      /\ THREADS \subseteq AllThreads
  BY ConstantFacts
<1>1. /\ \A d \in CPUS : d # c => next'[d] = next[d]
      /\ IsInjective(ready')
      /\ Range(ready') = Range(s) \ {n}
      /\ n \in Range(s) \cup {idle[c]}
  BY SelectNextFacts
<1>2. /\ phase' = [phase EXCEPT ![c] = "switch"] /\ phase'[c] = "switch"
      /\ rel' = [rel EXCEPT ![c] = l] /\ rel'[c] = l
      /\ current' = current
      /\ \A d \in CPUS : d # c => phase'[d] = phase[d] /\ rel'[d] = rel[d]
  BY DEF YieldTo, TypeOK
<1>3. ASSUME NEW u \in AllThreads, u # t
      PROVE  /\ Busy(u)' <=> Busy(u)
             /\ \A k \in GUARDS : ThreadHolds(u, k)' <=> ThreadHolds(u, k)
             /\ InCvWait(u)' <=> InCvWait(u)
             /\ pc'[u] = pc[u] /\ mtx'[u] = mtx[u] /\ wait'[u] = wait[u]
  BY <1>3 DEF Busy, InCvWait, ThreadHolds
<1>4. /\ \A d \in CPUS : current[d] = t => d = c
      /\ \A d \in CPUS : current[d] \in AllThreads
  BY DEF CpuInv, TypeOK
<1>5. /\ Range(ready) \subseteq THREADS /\ timers \subseteq THREADS
      /\ \A q \in QUEUES : Waiting(q) \subseteq THREADS
  BY DEF TypeOK, Range, Waiting
<1>6. ASSUME NEW d \in CPUS
      PROVE  current[d] \notin Range(ready)
  <2>1. ~(phase[d] = "switch" /\ rel[d] = ReadyLock)
    BY <1>0 DEF SpinInv, Holds, Free
  <2> QED
    BY <2>1 DEF CurrentInv
<1>7. SpinInv'
  <2>1. ASSUME NEW d \in CPUS, d # c, NEW k \in GUARDS
        PROVE  spl'[k] = d <=> Holds(d, k)'
    BY <1>2, <1>3, <1>4, <2>1 DEF SpinInv, Holds
  <2>2. ASSUME NEW k \in GUARDS
        PROVE  spl'[k] = c <=> Holds(c, k)'
    BY <1>2 DEF Holds
  <2> QED
    BY <2>1, <2>2 DEF SpinInv
<1>8. BusyInv'
  BY <1>2, <1>3, <1>4 DEF BusyInv
<1>9. CpuInv'
  <2>1. /\ n \in THREADS \cup {idle[c]}
        /\ \A d \in CPUS : current[d] = n => d = c
        /\ n = t => l = ReadyLock
    BY <1>0, <1>1, <1>4, <1>5, <1>6 DEF CpuInv
  <2>2. ASSUME NEW d \in CPUS, d # c, phase[d] = "switch"
        PROVE  /\ next[d] # n
               /\ next[d] # t
    BY <1>0, <1>1, <1>4, <1>5, <2>2 DEF CpuInv, QueueInv
  <2>3. \A d \in CPUS : phase[d] \in {"switch", "release"} =>
                           rel[d] \in GUARDS \cup THREADS
    BY DEF CpuInv
  <2>4. /\ \A d, e \in CPUS : current[d] = current[e] => d = e
        /\ \A d \in CPUS :
             /\ current[d] \in THREADS \cup {idle[d], kthread[d]}
             /\ phase[d] \in {"tick", "timers", "preempt"} => current[d] \notin KThreads
             /\ phase[d] \notin {"switch", "release"} => rel[d] = None
    BY DEF CpuInv
  <2>5. ASSUME NEW d \in CPUS, d # c, phase[d] = "switch"
        PROVE  /\ next[d] \in THREADS \cup {idle[d]}
               /\ \A e \in CPUS : current[e] = next[d] => e = d
               /\ \A e \in CPUS : phase[e] = "switch" /\ next[e] = next[d] => e = d
               /\ next[d] = current[d] => rel[d] = ReadyLock
    BY <2>5 DEF CpuInv
  <2> QED
    BY <1>1, <1>2, <2>1, <2>2, <2>3, <2>4, <2>5 DEF CpuInv
<1>10. QueueInv'
  <2>1. n \notin Range(ready') \cup timers /\ \A q \in QUEUES : n \notin Waiting(q)
    BY <1>0, <1>1, <1>5 DEF QueueInv
  <2>2. ASSUME NEW d \in CPUS, d # c, phase[d] = "switch"
        PROVE  /\ next[d] \notin Range(ready') \cup timers
               /\ \A q \in QUEUES : next[d] \notin Waiting(q)
    BY <1>1, <2>2 DEF QueueInv, CpuInv
  <2>3. /\ Range(ready') \cap timers = {}
        /\ \A q \in QUEUES : Waiting(q) \cap Range(ready') = {}
    BY <1>0, <1>1 DEF QueueInv
  <2>4. \A q \in QUEUES : Waiting(q)' = Waiting(q) /\ IsInjective(waiters'[q])
    BY DEF QueueInv, Waiting
  <2>5. \A d \in CPUS : phase'[d] = "switch" =>
          /\ next'[d] \notin Range(ready') \cup timers
          /\ \A q \in QUEUES : next'[d] \notin Waiting(q)
    BY <1>1, <1>2, <2>1, <2>2
  <2>6. \A q, r \in QUEUES : /\ Waiting(q) \cap timers = {}
                             /\ q # r => Waiting(q) \cap Waiting(r) = {}
    BY DEF QueueInv
  <2> QED
    BY <1>1, <2>3, <2>4, <2>5, <2>6 DEF QueueInv
<1>11. CurrentInv'
  <2>1. ASSUME NEW d \in CPUS, d # c
        PROVE  /\ \A q \in QUEUES : LeavingVia(d, q)' <=> LeavingVia(d, q)
               /\ current[d] # t
               /\ pc'[current[d]] = pc[current[d]]
               /\ current[d] \notin Range(ready')
               /\ phase[d] = "switch" => rel[d] # ReadyLock
    <3>1. current[d] # t /\ pc'[current[d]] = pc[current[d]]
      BY <1>3, <1>4, <2>1
    <3>2. \A q \in QUEUES : LeavingVia(d, q)' <=> LeavingVia(d, q)
      BY <1>2, <1>3, <1>4, <2>1, <3>1 DEF LeavingVia
    <3>3. phase[d] = "switch" => rel[d] # ReadyLock
      BY <1>0 DEF SpinInv, Holds, Free
    <3> QED
      BY <1>1, <1>6, <3>1, <3>2, <3>3
  <2>2. \A q \in QUEUES : LeavingVia(c, q)' <=> l = q
    BY <1>2 DEF LeavingVia
  <2>3. /\ t \in Range(ready') => l = ReadyLock
        /\ l = ReadyLock /\ t \in THREADS => t \in Range(ready') \cup {n}
    BY <1>1
  <2>4. \A q \in QUEUES : Waiting(q)' = Waiting(q)
    BY DEF Waiting
  <2> QED
    BY <1>0, <1>2, <2>1, <2>2, <2>3, <2>4 DEF CurrentInv
<1>12. LinkedInv'
  <2>1. \A d \in CPUS : phase[d] = "switch" => phase'[d] = "switch" /\ next'[d] = next[d]
    BY <1>1, <1>2
  <2> QED
    BY <1>1, <1>2, <2>1 DEF LinkedInv, Waiting
<1>13. SavedInv'
  BY <1>2 DEF SavedInv
<1>14. GoneInv'
  <2>1. t \in THREADS => ~Dead(t) /\ ~Off(t)
    BY DEF GoneInv
  <2>2. ASSUME NEW u \in THREADS, Dead(u)' \/ Off(u)'
        PROVE  /\ u \notin Range(s) /\ u # n /\ u \notin timers
               /\ \A q \in QUEUES : u \notin Waiting(q)
               /\ \A d \in CPUS : phase[d] = "switch" => next[d] # u
    <3>1. CASE u = l
      <4>1. u = t /\ phase[c] # "switch"
        BY <3>1
      <4>2. \A d \in CPUS : phase[d] = "switch" => next[d] # t
        BY <1>4, <4>1 DEF CpuInv
      <4> QED
        BY <1>0, <1>1, <3>1, <4>1, <4>2
    <3>2. CASE u # l
      <4>1. Dead(u) \/ Off(u)
        BY <2>2, <3>2
      <4>2. u # t
        BY <2>1, <4>1
      <4> QED
        BY <1>0, <1>1, <4>1, <4>2 DEF GoneInv
    <3> QED
      BY <3>1, <3>2
  <2>3. \A q : Waiting(q)' = Waiting(q)
    BY DEF Waiting
  <2>4. ASSUME NEW u \in THREADS, Dead(u)' \/ Off(u)'
        PROVE  /\ u \notin Range(ready') \cup timers'
               /\ \A q \in QUEUES : u \notin Waiting(q)'
               /\ \A d \in CPUS : phase'[d] = "switch" => next'[d] # u
    BY <1>1, <1>2, <2>2, <2>3, <2>4
  <2>5. ASSUME NEW d \in CPUS, current'[d] \in THREADS
        PROVE  /\ status'[current[d]] # "DEAD"
               /\ status'[current[d]] = "DESCHEDULED" =>
                    phase'[d] = "switch" /\ rel'[d] = current[d]
    <3>1. CASE d = c
      BY <1>2, <2>1, <2>5, <3>1 DEF Dead, Off
    <3>2. CASE d # c
      BY <1>2, <1>4, <2>5, <3>2 DEF GoneInv, Dead, Off
    <3> QED
      BY <3>1, <3>2
  <2>6. ASSUME NEW d \in CPUS, phase'[d] = "switch", rel'[d] \in THREADS
        PROVE  rel'[d] = current[d] /\ status'[current[d]] = "DESCHEDULED"
    <3>1. CASE d = c
      BY <1>2, <2>6, <3>1 DEF Off
    <3>2. CASE d # c
      BY <1>2, <2>6, <3>2 DEF GoneInv, Off
    <3> QED
      BY <3>1, <3>2
  <2> QED
    BY <1>2, <2>4, <2>5, <2>6 DEF GoneInv, Dead, Off
<1> QED
  BY <1>7, <1>8, <1>9, <1>10, <1>11, <1>12, <1>13, <1>14 DEF MachineInv

\* The current thread of CPU c is queued, unless it is an idle thread or a
\* kthread, and c starts to switch to the head of the ready queue.
LEMMA YieldAnyStep ==
  ASSUME IInv, NEW c \in CPUS, phase[c] \in {"run", "preempt"},
         ~Busy(current[c]), YieldAny(c, current[c]),
         UNCHANGED <<saved, syncVars, pcVars, timeVars>>
  PROVE  MachineInv' /\ TypeOK' /\ SameGone
<1> DEFINE t == current[c]
           s == IF t \in IdleThreads \cup KThreads THEN ready
                ELSE Append(ready, t)
<1>1. /\ t \in AllThreads /\ t \notin Range(ready) \cup timers
      /\ \A q \in QUEUES : t \notin Waiting(q)
      /\ t \notin IdleThreads \cup KThreads <=> t \in THREADS
      /\ ready \in Seq(THREADS) /\ IsInjective(ready)
  BY Unlinked, ConstantFacts DEF IInv, TypeOK, QueueInv
<1>2. /\ s \in Seq(THREADS) /\ IsInjective(s)
      /\ Range(s) = Range(ready) \cup (IF t \in THREADS THEN {t} ELSE {})
  BY <1>1, AppendFacts
<1>3. /\ SelectNext(c, s) /\ YieldTo(c, ReadyLock) /\ Free(ReadyLock)
      /\ spl' = [spl EXCEPT ![ReadyLock] = c]
      /\ status' \in [AllThreads -> Status]
  BY <1>1 DEF YieldAny, InsertTail, IInv, TypeOK, Status
<1>4. /\ \A k \in GUARDS : spl'[k] = c <=> k = ReadyLock
      /\ \A k \in GUARDS, d \in CPUS : d # c => (spl'[k] = d <=> spl[k] = d)
      /\ spl' \in [SPLS -> CPUS \cup {None}]
  <2>1. \A k \in GUARDS : spl[k] # c
    BY <1>1 DEF IInv, SpinInv, Holds, ThreadHolds, Busy, InCvWait
  <2>2. /\ spl \in [SPLS -> CPUS \cup {None}] /\ ReadyLock \in SPLS /\ None \notin CPUS
        /\ GUARDS \subseteq SPLS
    BY ConstantFacts DEF IInv, TypeOK
  <2> QED
    BY <1>3, <2>1, <2>2 DEF Free
<1>7. SameGone /\ ReadyLock \in GUARDS \cup THREADS /\ ReadyLock \notin THREADS
  <2>1. /\ status' = status \/ status' = [status EXCEPT ![t] = "READY"]
        /\ status \in [AllThreads -> Status] /\ THREADS \subseteq AllThreads
    BY ConstantFacts DEF YieldAny, IInv, TypeOK
  <2>2. t \in THREADS => ~Dead(t) /\ ~Off(t)
    BY DEF IInv, GoneInv
  <2>3. SameGone
    BY <1>1, <2>1, <2>2 DEF SameGone, Dead, Off
  <2> QED
    BY <2>3, ConstantFacts
<1>5. MachineInv'
  <2> HIDE DEF s
  <2>1. \A q \in QUEUES : t \in Waiting(q) <=> ReadyLock = q
    BY <1>1, ConstantFacts
  <2>2. t \in timers <=> ReadyLock = TimerLock
    BY <1>1, ConstantFacts
  <2>3. ~Busy(t)'
    BY DEF Busy, InCvWait, pcVars, YieldAny, YieldTo
  <2>4. UNCHANGED <<saved, waiters, timers, pc, ret, mtx, wait>>
    BY DEF syncVars, pcVars, timeVars
  <2>5. t \notin Range(ready)
    BY <1>1
  <2>6. \A u \in THREADS : /\ Dead(u)' <=> Dead(u)
                           /\ Off(u)' <=> Off(u) \/ u = ReadyLock
    BY <1>7 DEF SameGone
  <2>7. ReadyLock \in GUARDS \cup THREADS /\ ReadyLock \notin THREADS
    BY <1>7
  <2> QED
    BY <1>2, <1>3, <1>4, <2>1, <2>2, <2>3, <2>4, <2>5, <2>6, <2>7, SwitchStep
<1>6. TypeOK'
  <2> HIDE DEF s
  <2>1. next' \in [CPUS -> AllThreads] /\ ready' \in Seq(THREADS)
    BY <1>2, <1>3, SelectNextFacts DEF IInv
  <2>2. ReadyLock \in SPLS
    BY ConstantFacts
  <2> QED
    BY <1>3, <1>4, <2>1, <2>2 
       DEF IInv, TypeOK, YieldTo, syncVars, pcVars, timeVars, Phases
<1> QED
  BY <1>5, <1>6, <1>7

\* The stack switch.
LEMMA SwitchToStep ==
  ASSUME IInv, NEW c \in CPUS, SwitchTo(c)
  PROVE  MachineInv' /\ TypeOK' /\ SameGone
<1> USE DEF IInv
<1> DEFINE t == current[c]
           n == next[c]
<1>1. /\ phase[c] = "switch" /\ t \in AllThreads /\ n \in AllThreads
      /\ n \in THREADS \cup {idle[c]} /\ rel[c] # None
      /\ n \notin Range(ready) \cup timers /\ \A q \in QUEUES : n \notin Waiting(q)
      /\ \A d \in CPUS : current[d] = n \/ current[d] = t => d = c
      /\ \A d \in CPUS : phase[d] = "switch" /\ next[d] = n => d = c
  BY ConstantFacts DEF SwitchTo, CpuInv, QueueInv, TypeOK
<1>2. /\ phase' = [phase EXCEPT ![c] = "release"] /\ phase'[c] = "release"
      /\ \A d \in CPUS : d # c => phase'[d] = phase[d]
      /\ current' = [current EXCEPT ![c] = n] /\ current'[c] = n
      /\ \A d \in CPUS : d # c => current'[d] = current[d]
      /\ status' \in [AllThreads -> Status]
      /\ saved' \in [AllThreads -> BOOLEAN]
      /\ UNCHANGED <<spl, next, rel, ready, syncVars, pcVars, timeVars>>
  BY <1>1 DEF SwitchTo, TypeOK, Status
<1>3. ~Busy(t) /\ ~Busy(n)
  BY <1>1 DEF BusyInv
<1>4. TypeOK'
  BY <1>1, <1>2 DEF TypeOK, Phases, syncVars, pcVars, timeVars
<1>5. /\ \A u \in AllThreads : Busy(u)' <=> Busy(u)
      /\ \A u \in AllThreads, l \in GUARDS : ThreadHolds(u, l)' <=> ThreadHolds(u, l)
  BY <1>2 DEF Busy, InCvWait, ThreadHolds, pcVars
<1>14. SameGone /\ (n \in THREADS => ~Dead(n) /\ ~Off(n))
  <2>1. n \in THREADS => ~Dead(n) /\ ~Off(n)
    BY <1>1 DEF GoneInv
  <2>2. /\ status' = status \/ status' = [status EXCEPT ![n] = "RUNNING"]
        /\ status \in [AllThreads -> Status] /\ THREADS \subseteq AllThreads
    BY ConstantFacts DEF SwitchTo, TypeOK
  <2> QED
    BY <1>1, <2>1, <2>2 DEF SameGone, Dead, Off
<1>15. GoneInv'
  <2>1. \A q : Waiting(q)' = Waiting(q)
    BY <1>2 DEF Waiting, syncVars
  <2>2. ASSUME NEW u \in THREADS, Dead(u)' \/ Off(u)'
        PROVE  /\ u \notin Range(ready') \cup timers'
               /\ \A q \in QUEUES : u \notin Waiting(q)'
               /\ \A d \in CPUS : phase'[d] = "switch" => next'[d] # u
    BY <1>2, <1>14, <2>1, <2>2 DEF SameGone, GoneInv, timeVars
  <2>3. ASSUME NEW d \in CPUS, current'[d] \in THREADS
        PROVE  /\ status'[current'[d]] # "DEAD"
               /\ status'[current'[d]] = "DESCHEDULED" =>
                    phase'[d] = "switch" /\ rel'[d] = current'[d]
    BY <1>2, <1>14, <2>3 DEF SameGone, GoneInv, Dead, Off
  <2>4. ASSUME NEW d \in CPUS, phase'[d] = "switch", rel'[d] \in THREADS
        PROVE  rel'[d] = current'[d] /\ status'[current'[d]] = "DESCHEDULED"
    BY <1>2, <1>14, <2>4 DEF SameGone, GoneInv, Dead, Off
  <2> QED
    BY <2>2, <2>3, <2>4 DEF GoneInv, Dead, Off
<1>6. SpinInv'
  <2>1. ASSUME NEW d \in CPUS, NEW l \in GUARDS
        PROVE  Holds(d, l)' <=> Holds(d, l)
    <3>1. CASE d = c
      BY <1>1, <1>2, <3>1 DEF Holds
    <3>2. CASE d # c
      BY <1>2, <1>5, <3>2 DEF Holds, TypeOK
    <3> QED
      BY <3>1, <3>2
  <2> QED
    BY <1>2, <2>1 DEF SpinInv
<1>7. BusyInv'
  BY <1>1, <1>2, <1>3, <1>5 DEF BusyInv
<1>8. CpuInv'
  <2>1. \A d, e \in CPUS : current'[d] = current'[e] => d = e
    BY <1>1, <1>2 DEF CpuInv
  <2>2. \A d \in CPUS : phase'[d] = "switch" =>
          \A e \in CPUS : current'[e] = next[d] => e = d
    BY <1>1, <1>2 DEF CpuInv
  <2> QED
    BY <1>1, <1>2, <2>1, <2>2 DEF CpuInv
<1>9. QueueInv'
  BY <1>2 DEF QueueInv, Waiting, syncVars, timeVars
<1>10. \A q \in QUEUES : Waiting(q)' = Waiting(q)
  BY <1>2 DEF Waiting, syncVars
<1>11. CurrentInv'
  <2>1. ASSUME NEW d \in CPUS, d # c
        PROVE  \A q \in QUEUES : LeavingVia(d, q)' <=> LeavingVia(d, q)
    BY <1>2, <2>1 DEF LeavingVia, InCvWait, pcVars
  <2>2. /\ \A q \in QUEUES : ~LeavingVia(c, q)'
        /\ n \notin Range(ready) \cup timers /\ \A q \in QUEUES : n \notin Waiting(q)
    BY <1>1, <1>2 DEF LeavingVia
  <2> QED
    BY <1>2, <1>10, <2>1, <2>2 DEF CurrentInv, timeVars, pcVars
<1>12. LinkedInv'
  <2>1. ASSUME t \in THREADS
        PROVE  \/ Dead(t) \/ Off(t)
               \/ t \in Range(ready) \cup timers
               \/ \E q \in QUEUES : t \in Waiting(q)
               \/ t = n
    <3>1. rel[c] \in QUEUES \cup {ReadyLock, TimerLock} \cup THREADS
      BY <1>1 DEF CpuInv, GUARDS
    <3>2. CASE rel[c] \in THREADS
      BY <1>1, <3>2 DEF GoneInv
    <3>3. CASE rel[c] \notin THREADS
      BY <1>1, <2>1, <3>1, <3>3 DEF CurrentInv, LeavingVia
    <3> QED
      BY <3>2, <3>3
  <2>2. ASSUME NEW u \in THREADS
        PROVE  \/ Dead(u)' \/ Off(u)'
               \/ u \in Range(ready) \cup timers
               \/ \E q \in QUEUES : u \in Waiting(q)
               \/ \E d \in CPUS : \/ current'[d] = u
                                  \/ phase'[d] = "switch" /\ next[d] = u
    <3>1. CASE u = t \/ u = n
      BY <1>2, <1>14, <2>1, <3>1 DEF SameGone
    <3>2. CASE u # t /\ u # n
      BY <1>2, <1>14, <3>2 DEF LinkedInv, SameGone
    <3> QED
      BY <3>1, <3>2
  <2> QED
    BY <1>2, <1>10, <2>2 DEF LinkedInv, timeVars
<1>13. SavedInv'
  <2>1. CASE n = t
    BY <1>1, <1>2, <1>14, <2>1 DEF SavedInv, SwitchTo, SameGone
  <2>2. CASE n # t
    <3>1. saved' = [saved EXCEPT ![t] = TRUE, ![n] = FALSE]
      BY <2>2 DEF SwitchTo
    <3>2. saved'[t] /\ ~saved'[n] /\ \A u \in AllThreads \ {t, n} : saved'[u] = saved[u]
      BY <1>1, <2>2, <3>1 DEF TypeOK
    <3> QED
      BY <1>1, <1>2, <1>14, <2>2, <3>2 DEF SavedInv, SameGone
  <2> QED
    BY <2>1, <2>2
<1> QED
  BY <1>4, <1>6, <1>7, <1>8, <1>9, <1>11, <1>12, <1>13, <1>14, <1>15 DEF MachineInv

\* The control point of CPU c moves, with its spinlock, while its current
\* thread is outside every critical section.
LEMMA PhaseStep ==
  ASSUME IInv, NEW c \in CPUS, ~Busy(current[c]),
         UNCHANGED <<current, next, ready, saved, waiters, timers, pcVars>>,
         UNCHANGED status,
         phase' \in [CPUS -> Phases],
         \A d \in CPUS : d # c => phase'[d] = phase[d] /\ rel'[d] = rel[d],
         phase[c] # "switch", phase'[c] # "switch",
         phase'[c] \in {"tick", "timers", "preempt"} => current[c] \notin KThreads,
         rel'[c] = None, phase'[c] # "release",
         \A l \in GUARDS : spl'[l] = c <=> phase'[c] = "timers" /\ l = TimerLock,
         \A l \in GUARDS, d \in CPUS : d # c => (spl'[l] = d <=> spl[l] = d)
  PROVE  MachineInv'
<1> USE DEF IInv
<1>1. /\ \A u \in AllThreads : Busy(u)' <=> Busy(u)
      /\ \A u \in AllThreads, l \in GUARDS : ThreadHolds(u, l)' <=> ThreadHolds(u, l)
      /\ \A l \in GUARDS : ~ThreadHolds(current[c], l)
      /\ \A d \in CPUS : current[d] \in AllThreads
      /\ \A d \in CPUS : current[d] = current[c] => d = c
  BY DEF Busy, InCvWait, ThreadHolds, pcVars, TypeOK, CpuInv
<1>2. SpinInv'
  <2>1. ASSUME NEW l \in GUARDS
        PROVE  spl'[l] = c <=> Holds(c, l)'
    BY <1>1 DEF Holds
  <2>2. ASSUME NEW d \in CPUS, d # c, NEW l \in GUARDS
        PROVE  spl'[l] = d <=> Holds(d, l)'
    BY <1>1, <2>2 DEF SpinInv, Holds
  <2> QED
    BY <2>1, <2>2 DEF SpinInv
<1>3. BusyInv'
  BY <1>1 DEF BusyInv
<1>4. CpuInv'
  BY DEF CpuInv
<1>5. \A q \in QUEUES : Waiting(q)' = Waiting(q)
  BY DEF Waiting
<1>6. QueueInv'
  <2>1. \A d \in CPUS : phase'[d] = "switch" => phase[d] = "switch"
    OBVIOUS
  <2> QED
    BY <1>5, <2>1 DEF QueueInv
<1>7. CurrentInv'
  <2>1. ASSUME NEW d \in CPUS
        PROVE  \A q \in QUEUES : LeavingVia(d, q)' <=> LeavingVia(d, q)
    <3>1. CASE d = c
      BY <3>1 DEF LeavingVia, Busy, InCvWait, pcVars
    <3>2. CASE d # c
      BY <3>2 DEF LeavingVia, InCvWait, pcVars
    <3> QED
      BY <3>1, <3>2
  <2>2. /\ current[c] \notin Range(ready) \cup timers
        /\ pc[current[c]] # "sl_sel"
    BY Unlinked DEF Busy
  <2> QED
    BY <1>5, <2>1, <2>2 DEF CurrentInv, pcVars
<1>8. LinkedInv' /\ SavedInv'
  <2>1. \A d \in CPUS : phase[d] = "switch" => phase'[d] = "switch"
    OBVIOUS
  <2> QED
    BY <1>5, <2>1 DEF LinkedInv, SavedInv, Dead, Off
<1>9. GoneInv'
  <2>1. \A d \in CPUS : phase[d] = "switch" <=> phase'[d] = "switch"
    OBVIOUS
  <2>2. \A u : (Dead(u)' <=> Dead(u)) /\ (Off(u)' <=> Off(u))
    BY DEF Dead, Off
  <2>3. /\ current[c] \in THREADS => ~Off(current[c])
        /\ \A d \in CPUS : phase[d] = "switch" => rel'[d] = rel[d]
    BY DEF GoneInv
  <2> QED
    BY <1>5, <2>1, <2>2, <2>3 DEF GoneInv, Dead, Off
<1> QED
  BY <1>2, <1>3, <1>4, <1>6, <1>7, <1>8, <1>9 DEF MachineInv

\* A CPU leaves yield_to_spl_unlock: it keeps no spinlock and is runnable again.
LEMMA SwitchDoneStep ==
  ASSUME IInv, NEW c \in CPUS, SwitchDone(c)
  PROVE  MachineInv' /\ TypeOK'
<1> USE DEF IInv
<1>1. /\ phase[c] = "release" /\ rel[c] \in SPLS /\ None \notin CPUS
      /\ GUARDS \subseteq SPLS
      /\ spl' = [spl EXCEPT ![rel[c]] = None]
      /\ phase' = [phase EXCEPT ![c] = "run"]
      /\ rel' = [rel EXCEPT ![c] = None]
      /\ UNCHANGED <<current, next, runVars, syncVars, pcVars, timeVars>>
  BY ConstantFacts DEF SwitchDone, CpuInv
<1>2. TypeOK'
  BY <1>1 DEF TypeOK, Phases, runVars, syncVars, pcVars, timeVars
<1>3. ~Busy(current[c])
  BY <1>1 DEF BusyInv, CpuInv, TypeOK
<1>4. /\ \A l \in GUARDS : spl'[l] # c
      /\ \A l \in GUARDS, d \in CPUS : d # c => (spl'[l] = d <=> spl[l] = d)
  BY <1>1 DEF SpinInv, Holds, TypeOK
<1>5. /\ phase' \in [CPUS -> Phases] /\ phase'[c] = "run" /\ rel'[c] = None
      /\ \A d \in CPUS : d # c => phase'[d] = phase[d] /\ rel'[d] = rel[d]
  BY <1>1, <1>2 DEF TypeOK
<1>6. UNCHANGED <<current, next, ready, saved, waiters, timers, pcVars, status>>
  BY <1>1 DEF runVars, syncVars, timeVars
<1> QED
  BY <1>1, <1>2, <1>3, <1>4, <1>5, <1>6, PhaseStep

\* A timer interrupt arrives on a CPU that holds no spinlock.
LEMMA TickStep ==
  ASSUME IInv, NEW c \in CPUS, Tick(c)
  PROVE  MachineInv' /\ TypeOK'
<1> USE DEF IInv
<1>1. /\ phase[c] = "run" /\ IntrOn(c)
      /\ phase' = [phase EXCEPT ![c] = "tick"]
      /\ due' = [t \in THREADS |-> IF due[t] = 0 THEN 0 ELSE due[t] - 1]
      /\ UNCHANGED <<spl, current, next, rel, runVars, syncVars, pcVars, timers>>
  BY DEF Tick
<1>2. TypeOK'
  <2>1. due' \in [THREADS -> 0..MaxSleep]
    BY <1>1, ThreadAssumption DEF TypeOK
  <2> QED
    BY <1>1, <2>1 DEF TypeOK, Phases, runVars, syncVars, pcVars
<1>3. ~Busy(current[c])
  <2>1. \A l \in GUARDS : ~ThreadHolds(current[c], l)
    BY <1>1, ConstantFacts DEF IntrOn, SpinInv, Holds
  <2>2. current[c] \in AllThreads
    BY DEF TypeOK
  <2>3. pc[current[c]] \notin {"lk_sel", "ul_wake", "sl_sel"}
    BY <2>1, <2>2, ConstantFacts DEF ThreadHolds, PcInv
  <2>4. pc[current[c]] # "sg_wake" /\ ~InCvWait(current[c])
    BY <2>1, <2>2, ConstantFacts DEF ThreadHolds, PcInv
  <2> QED
    BY <2>3, <2>4 DEF Busy
<1>4. /\ phase' \in [CPUS -> Phases] /\ phase'[c] = "tick" /\ rel'[c] = None
      /\ \A d \in CPUS : d # c => phase'[d] = phase[d] /\ rel'[d] = rel[d]
  BY <1>1, <1>2 DEF TypeOK, CpuInv
<1>5. /\ \A l \in GUARDS : spl'[l] # c
      /\ \A l \in GUARDS, d \in CPUS : d # c => (spl'[l] = d <=> spl[l] = d)
  BY <1>1, ConstantFacts DEF IntrOn
<1>6. UNCHANGED <<current, next, ready, saved, waiters, timers, pcVars, status>>
  BY <1>1 DEF runVars, syncVars
<1> QED
  BY <1>1, <1>2, <1>3, <1>4, <1>5, <1>6, PhaseStep DEF IntrOn

\* The timer interrupt takes timer_lock.
LEMMA CheckTimersStep ==
  ASSUME IInv, NEW c \in CPUS, CheckTimers(c)
  PROVE  MachineInv' /\ TypeOK'
<1> USE DEF IInv
<1>1. /\ phase[c] = "tick" /\ Free(TimerLock) /\ TimerLock \in SPLS
      /\ phase' = [phase EXCEPT ![c] = "timers"]
      /\ spl' = [spl EXCEPT ![TimerLock] = c]
      /\ UNCHANGED <<current, next, rel, runVars, syncVars, pcVars, timeVars>>
      /\ None \notin CPUS
  BY ConstantFacts DEF CheckTimers
<1>2. TypeOK'
  BY <1>1 DEF TypeOK, Phases, runVars, syncVars, pcVars, timeVars
<1>3. ~Busy(current[c]) /\ current[c] \notin KThreads
  BY <1>1 DEF BusyInv, CpuInv, TypeOK
<1>4. /\ phase' \in [CPUS -> Phases] /\ phase'[c] = "timers" /\ rel'[c] = None
      /\ \A d \in CPUS : d # c => phase'[d] = phase[d] /\ rel'[d] = rel[d]
  BY <1>1, <1>2 DEF TypeOK, CpuInv
<1>5. /\ \A l \in GUARDS : spl'[l] = c <=> l = TimerLock
      /\ \A l \in GUARDS, d \in CPUS : d # c => (spl'[l] = d <=> spl[l] = d)
  <2>1. spl \in [SPLS -> CPUS \cup {None}] /\ GUARDS \subseteq SPLS
    BY ConstantFacts DEF TypeOK
  <2>2. \A l \in GUARDS : spl[l] # c
    BY <1>1 DEF SpinInv, Holds
  <2> QED
    BY <1>1, <2>1, <2>2 DEF Free
<1>6. UNCHANGED <<current, next, ready, saved, waiters, timers, pcVars, status>>
  BY <1>1 DEF runVars, syncVars, timeVars
<1> QED
  BY <1>1, <1>2, <1>3, <1>4, <1>5, <1>6, PhaseStep

\* The timer interrupt has woken every due sleeper and releases timer_lock.
LEMMA TimersDoneStep ==
  ASSUME IInv, NEW c \in CPUS, TimersDone(c)
  PROVE  MachineInv' /\ TypeOK'
<1> USE DEF IInv
<1>1. /\ phase[c] = "timers" /\ TimerLock \in SPLS
      /\ phase' = [phase EXCEPT ![c] = "preempt"]
      /\ spl' = [spl EXCEPT ![TimerLock] = None]
      /\ UNCHANGED <<current, next, rel, runVars, syncVars, pcVars, timeVars>>
      /\ None \notin CPUS
  BY ConstantFacts DEF TimersDone
<1>2. TypeOK'
  BY <1>1 DEF TypeOK, Phases, runVars, syncVars, pcVars, timeVars
<1>3. ~Busy(current[c]) /\ current[c] \notin KThreads
  BY <1>1 DEF BusyInv, CpuInv, TypeOK
<1>4. /\ phase' \in [CPUS -> Phases] /\ phase'[c] = "preempt" /\ rel'[c] = None
      /\ \A d \in CPUS : d # c => phase'[d] = phase[d] /\ rel'[d] = rel[d]
  BY <1>1, <1>2 DEF TypeOK, CpuInv
<1>5. /\ \A l \in GUARDS : spl'[l] # c
      /\ \A l \in GUARDS, d \in CPUS : d # c => (spl'[l] = d <=> spl[l] = d)
  <2>1. spl \in [SPLS -> CPUS \cup {None}] /\ GUARDS \subseteq SPLS
    BY ConstantFacts DEF TypeOK
  <2>2. \A l \in GUARDS : spl[l] = c <=> l = TimerLock
    BY <1>1 DEF SpinInv, Holds
  <2> QED
    BY <1>1, <2>1, <2>2
<1>6. UNCHANGED <<current, next, ready, saved, waiters, timers, pcVars, status>>
  BY <1>1 DEF runVars, syncVars, timeVars
<1> QED
  BY <1>1, <1>2, <1>3, <1>4, <1>5, <1>6, PhaseStep

\* The timer interrupt moves one due sleeper to the ready queue, under
\* timer_lock and ready_lock.
LEMMA TimerExpireStep ==
  ASSUME IInv, NEW c \in CPUS, NEW t \in THREADS, TimerExpire(c, t)
  PROVE  MachineInv' /\ TypeOK' /\ SameGone
<1> USE DEF IInv
<1>0. t \notin Range(ready)
  BY DEF TimerExpire, QueueInv
<1>1. /\ phase[c] = "timers" /\ t \in timers /\ timers' = timers \ {t}
      /\ ready' = Append(ready, t)
      /\ status' = [status EXCEPT ![t] = "READY"]
      /\ UNCHANGED <<spl, cpuVars, saved, syncVars, pcVars, due>>
      /\ TimerLock \in GUARDS /\ TimerLock # ReadyLock
  BY <1>0, ConstantFacts DEF TimerExpire, InsertTail
<1>2. /\ ready' \in Seq(THREADS) /\ IsInjective(ready')
      /\ Range(ready') = Range(ready) \cup {t}
  <2>1. ready \in Seq(THREADS) /\ IsInjective(ready) /\ t \notin Range(ready)
    BY <1>1 DEF TypeOK, QueueInv
  <2> QED
    BY <1>1, <2>1, AppendFacts
<1>3. TypeOK'
  BY <1>1, <1>2 DEF TypeOK, Status, cpuVars, syncVars, pcVars
<1>4. /\ \A u \in AllThreads : Busy(u)' <=> Busy(u)
      /\ \A u \in AllThreads, l \in GUARDS : ThreadHolds(u, l)' <=> ThreadHolds(u, l)
      /\ \A d \in CPUS, q \in QUEUES : LeavingVia(d, q)' <=> LeavingVia(d, q)
      /\ \A q \in QUEUES : Waiting(q)' = Waiting(q)
  BY <1>1 DEF Busy, InCvWait, ThreadHolds, LeavingVia, Waiting, pcVars, cpuVars, syncVars
<1>11. SameGone /\ ~Dead(t) /\ ~Off(t)
  <2>1. ~Dead(t) /\ ~Off(t) /\ THREADS \subseteq AllThreads
    BY <1>1, ConstantFacts DEF GoneInv
  <2> QED
    BY <1>1, <2>1 DEF SameGone, Dead, Off, TypeOK
<1>5. SpinInv' /\ BusyInv'
  BY <1>1, <1>4 DEF SpinInv, BusyInv, Holds, cpuVars, TypeOK
<1>6. CpuInv' /\ SavedInv'
  BY <1>1, <1>11 DEF CpuInv, SavedInv, cpuVars, SameGone
<1>7. QueueInv'
  <2>1. \A q \in QUEUES : IsInjective(waiters'[q])
    BY <1>1 DEF QueueInv, syncVars
  <2> QED
    BY <1>1, <1>2, <1>4, <2>1 DEF QueueInv, cpuVars
<1>8. \A d \in CPUS : current[d] # t
  <2>1. spl[TimerLock] = c
    BY <1>1 DEF SpinInv, Holds
  <2>2. ASSUME NEW d \in CPUS, current[d] = t
        PROVE  FALSE
    <3>1. Holds(d, TimerLock) /\ phase[d] # "timers"
      BY <1>1, <2>2 DEF CurrentInv, Holds, ThreadHolds
    <3> QED
      BY <1>1, <2>1, <3>1 DEF SpinInv
  <2> QED
    BY <2>2
<1>9. CurrentInv'
  BY <1>1, <1>2, <1>4, <1>8 DEF CurrentInv, cpuVars, pcVars
<1>10. LinkedInv'
  BY <1>1, <1>2, <1>4, <1>11 DEF LinkedInv, cpuVars, SameGone
<1>12. GoneInv'
  BY <1>1, <1>2, <1>4, <1>11 DEF GoneInv, cpuVars, SameGone
<1> QED
  BY <1>3, <1>5, <1>6, <1>7, <1>9, <1>10, <1>11, <1>12 DEF MachineInv

-----------------------------------------------------------------------------
(* The thread part of the invariant *)

\* Handler steps touch neither control points nor mutexes.
LEMMA ThreadFrame ==
  ASSUME IInv, UNCHANGED <<syncVars, pcVars>>
  PROVE  PcInv' /\ WaiterInv' /\ OwnInv'
<1> USE DEF IInv
<1>1. /\ UNCHANGED <<locked, waiters, held, pc, mtx, wait, ret>>
      /\ \A q : Waiting(q)' = Waiting(q)
  BY DEF syncVars, pcVars, Waiting
<1>2. PcInv'
  BY <1>1 DEF PcInv, InCvWait
<1>3. WaiterInv'
  BY <1>1 DEF WaiterInv
<1>4. OwnInv'
  BY <1>1 DEF OwnInv, Owns
<1> QED
  BY <1>2, <1>3, <1>4

\* A step that leaves the mutexes alone and moves no thread to or from lk_own.
LEMMA OwnFrame ==
  ASSUME IInv, UNCHANGED <<locked, held>>,
         \A m \in MUTEXES : waiters'[m] = waiters[m],
         \A u \in AllThreads :
           \/ pc'[u] # "lk_own" /\ pc[u] # "lk_own"
           \/ pc'[u] = pc[u] /\ mtx'[u] = mtx[u]
  PROVE  OwnInv'
<1>1. \A m \in MUTEXES : Waiting(m)' = Waiting(m)
  BY DEF Waiting
<1>2. \A m \in MUTEXES : \A u \in AllThreads : Owns(u, m)' <=> Owns(u, m)
  BY <1>1 DEF Owns
<1> QED
  BY <1>2 DEF IInv, OwnInv

\* The same for the waiters, when thread t is not inside mutex_lock.
LEMMA WaiterFrame ==
  ASSUME IInv, NEW t \in AllThreads, UNCHANGED waiters,
         \A u \in AllThreads : u # t =>
           pc'[u] = pc[u] /\ mtx'[u] = mtx[u] /\ wait'[u] = wait[u],
         pc[t] \notin {"lk_sel", "lk_own"} \/
           \A m \in MUTEXES : t \notin Waiting(m),
         pc'[t] \notin {"ul_wake", "sg_wake"}
  PROVE  WaiterInv'
<1>1. \A m \in MUTEXES : Waiting(m)' = Waiting(m) /\ Waiting(m) \subseteq AllThreads
  BY ConstantFacts DEF Waiting, Range, IInv, TypeOK
<1>2. \A m \in MUTEXES : t \notin Waiting(m)
  BY DEF IInv, WaiterInv
<1>3. \A u \in AllThreads :
        /\ pc'[u] = "ul_wake" => waiters[mtx'[u]] # <<>>
        /\ pc'[u] = "sg_wake" => waiters[wait'[u][1]] # <<>>
  BY DEF IInv, WaiterInv
<1>4. \A m \in MUTEXES : \A u \in Waiting(m)' :
        pc'[u] \in {"lk_sel", "lk_own"} /\ mtx'[u] = m
  BY <1>1, <1>2 DEF IInv, WaiterInv
<1> QED
  BY <1>3, <1>4 DEF WaiterInv

\* A thread that runs code, and is not about to queue, is in no queue.
LEMMA RunsUnlinked ==
  ASSUME IInv, NEW c \in CPUS, NEW t \in AllThreads, NEW l, At(c, t, l), ~Busy(t)
  PROVE  /\ t \in AllThreads
         /\ \A q \in QUEUES : t \notin Waiting(q)
         /\ \A m \in MUTEXES : t \notin Waiting(m)
BY Unlinked, ConstantFacts DEF At

\* A thread that runs changes its status, short of dying or descheduling itself.
LEMMA StatusStep ==
  ASSUME IInv, NEW c \in CPUS, NEW t \in THREADS, current[c] = t, phase[c] = "run",
         \/ UNCHANGED status
         \/ \E s \in {"RUNNING", "READY", "BLOCKED", "SLEEPING"} :
              status' = [status EXCEPT ![t] = s]
  PROVE  SameGone
<1>1. ~Dead(t) /\ ~Off(t)
  BY DEF IInv, GoneInv
<1>2. status \in [AllThreads -> Status] /\ THREADS \subseteq AllThreads
  BY ConstantFacts DEF IInv, TypeOK
<1> QED
  BY <1>1, <1>2 DEF SameGone, Dead, Off

\* The code a mutex operation returns to is outside the primitives.
LEMMA ResumeFacts ==
  ASSUME IInv, NEW t \in AllThreads
  PROVE  /\ ret[t] \in Labels /\ ret[t] \notin {"lk", "lk_sel", "lk_own", "ul", "ul_wake",
                                              "sg_wake", "sl_sel"}
         /\ t \in THREADS => ret[t] # "kloop"
         /\ pc[t] \in {"lk", "lk_sel", "lk_own"} => ret[t] # "cw_sel" /\ t \in THREADS
         /\ pc[t] \in {"ul", "ul_wake"} => t \in THREADS \/ (t \in KThreads /\ ret[t] = "kloop")
         /\ pc[t] \notin {"lk", "lk_sel", "lk_own", "ul", "ul_wake"} => ret[t] = "run"
BY ConstantFacts DEF IInv, PcInv, Resumes

\* A mutex call starts.
LEMMA LockInv ==
  ASSUME IInv, NEW c \in CPUS, NEW t \in THREADS, Lock(c, t)
  PROVE  IInv'
<1> USE DEF IInv
<1>1. PICK m \in MUTEXES :
        /\ current[c] = t /\ phase[c] = "run" /\ pc[t] = "run" /\ t \in AllThreads
        /\ pc' = [pc EXCEPT ![t] = "lk"]
        /\ mtx' = [mtx EXCEPT ![t] = m]
        /\ ret' = [ret EXCEPT ![t] = "run"]
        /\ UNCHANGED <<spl, cpuVars, runVars, syncVars, wait, timeVars>>
  BY ConstantFacts DEF Lock, Call, At
<1>2. TypeOK'
  BY <1>1 DEF TypeOK, Labels, cpuVars, runVars, syncVars, timeVars
<1>3. /\ pc'[t] = "lk" /\ mtx'[t] = m /\ ret'[t] = "run" /\ ret[t] = "run"
      /\ \A u \in AllThreads : u # t => /\ pc'[u] = pc[u] /\ ret'[u] = ret[u]
                                        /\ mtx'[u] = mtx[u] /\ wait'[u] = wait[u]
  BY <1>1 DEF TypeOK, PcInv
<1>4. ~Busy(t) /\ ~InCvWait(t) /\ ~InCvWait(t)'
  BY <1>1, <1>3 DEF Busy, InCvWait
<1>5. MachineInv'
  BY <1>1, <1>3, <1>4, LocalStep, StatusStep DEF runVars, syncVars, timeVars
<1>6. PcInv'
  BY <1>1, <1>3, ConstantFacts DEF PcInv, InCvWait, Resumes, Labels, syncVars
<1>7. WaiterInv'
  BY <1>1, <1>3, WaiterFrame DEF syncVars
<1>8. OwnInv'
  BY <1>1, <1>3, OwnFrame DEF syncVars
<1> QED
  BY <1>2, <1>5, <1>6, <1>7, <1>8 DEF MachineInv

\* A mutex unlock starts, by the owner of the mutex.
LEMMA UnlockInv ==
  ASSUME IInv, NEW c \in CPUS, NEW t \in THREADS, Unlock(c, t)
  PROVE  IInv'
<1> USE DEF IInv
<1>1. PICK m \in held[t] :
        /\ current[c] = t /\ phase[c] = "run" /\ pc[t] = "run" /\ t \in AllThreads
        /\ pc' = [pc EXCEPT ![t] = "ul"]
        /\ mtx' = [mtx EXCEPT ![t] = m]
        /\ ret' = [ret EXCEPT ![t] = "run"]
        /\ UNCHANGED <<spl, cpuVars, runVars, syncVars, wait, timeVars>>
  BY ConstantFacts DEF Unlock, Call, At
<1>2. m \in MUTEXES
  BY <1>1 DEF TypeOK
<1>3. TypeOK'
  BY <1>1, <1>2 DEF TypeOK, Labels, cpuVars, runVars, syncVars, timeVars
<1>4. /\ pc'[t] = "ul" /\ mtx'[t] = m /\ ret'[t] = "run" /\ ret[t] = "run"
      /\ \A u \in AllThreads : u # t => /\ pc'[u] = pc[u] /\ ret'[u] = ret[u]
                                        /\ mtx'[u] = mtx[u] /\ wait'[u] = wait[u]
  BY <1>1 DEF TypeOK, PcInv
<1>5. ~Busy(t) /\ ~InCvWait(t) /\ ~InCvWait(t)'
  BY <1>1, <1>4 DEF Busy, InCvWait
<1>6. MachineInv'
  BY <1>1, <1>4, <1>5, LocalStep, StatusStep DEF runVars, syncVars, timeVars
<1>7. PcInv'
  BY <1>1, <1>2, <1>4, ConstantFacts DEF PcInv, InCvWait, Resumes, Labels, syncVars
<1>8. WaiterInv'
  BY <1>1, <1>4, WaiterFrame DEF syncVars
<1>9. OwnInv'
  BY <1>1, <1>4, OwnFrame DEF syncVars
<1> QED
  BY <1>3, <1>6, <1>7, <1>8, <1>9 DEF MachineInv

\* mutex_lock takes a free mutex.
LEMMA MutexLockFreeInv ==
  ASSUME IInv, NEW c \in CPUS, NEW t \in THREADS, MutexLockFree(c, t)
  PROVE  IInv'
<1> USE DEF IInv
<1>1. PICK m \in MUTEXES :
      /\ current[c] = t /\ phase[c] = "run" /\ pc[t] = "lk"
      /\ m = mtx[t] /\ ~locked[m] /\ t \in AllThreads
      /\ locked' = [locked EXCEPT ![m] = TRUE]
      /\ held' = [held EXCEPT ![t] = @ \cup {m}]
      /\ ret[t] \in Labels
      /\ pc' = [pc EXCEPT ![t] = ret[t]]
      /\ mtx' = [mtx EXCEPT ![t] = None]
      /\ ret' = [ret EXCEPT ![t] = "run"]
      /\ UNCHANGED <<spl, cpuVars, runVars, waiters, wait, timeVars>>
  BY ConstantFacts, ResumeFacts DEF MutexLockFree, Return, At, PcInv
<1>2. TypeOK'
  BY <1>1 DEF TypeOK, Labels, cpuVars, runVars, timeVars
<1>3. /\ pc'[t] = ret[t] /\ ret'[t] = "run"
      /\ ret[t] \notin {"lk", "lk_sel", "lk_own", "ul", "ul_wake", "sg_wake",
                       "sl_sel", "cw_sel", "kloop"}
     
      /\ held'[t] = held[t] \cup {m} /\ locked'[m]
      /\ \A u \in AllThreads : u # t =>
           /\ pc'[u] = pc[u] /\ ret'[u] = ret[u] /\ mtx'[u] = mtx[u]
           /\ wait'[u] = wait[u] /\ held'[u] = held[u]
      /\ \A n \in MUTEXES : n # m => locked'[n] = locked[n]
  BY <1>1, ResumeFacts DEF TypeOK
<1>4. ~Busy(t) /\ ~InCvWait(t) /\ ~InCvWait(t)'
  BY <1>1, <1>3 DEF Busy, InCvWait
<1>5. MachineInv'
  BY <1>1, <1>3, <1>4, LocalStep, StatusStep DEF runVars, timeVars
<1>6. PcInv'
  BY <1>1, <1>3, ConstantFacts DEF PcInv, InCvWait, Resumes
<1>7. WaiterInv'
  BY <1>1, <1>3, WaiterFrame
<1>8. OwnInv'
  <2>1. \A n \in MUTEXES : Waiting(n)' = Waiting(n)
    BY <1>1 DEF Waiting
  <2>2. ASSUME NEW n \in MUTEXES, NEW u \in AllThreads, u # t \/ n # m
        PROVE  Owns(u, n)' <=> Owns(u, n)
    BY <1>1, <1>3, <2>1, <2>2 DEF Owns
  <2>3. Owns(t, m)' /\ \A u \in AllThreads : ~Owns(u, m)
    BY <1>1, <1>3 DEF Owns, OwnInv
  <2> QED
    BY <1>1, <1>3, <2>2, <2>3 DEF OwnInv
<1> QED
  BY <1>2, <1>5, <1>6, <1>7, <1>8 DEF MachineInv

\* mutex_lock returns in a thread the mutex was passed to.
LEMMA MutexLockOwnInv ==
  ASSUME IInv, NEW c \in CPUS, NEW t \in THREADS, MutexLockOwn(c, t)
  PROVE  IInv'
<1> USE DEF IInv
<1>1. PICK m \in MUTEXES :
      /\ current[c] = t /\ phase[c] = "run" /\ pc[t] = "lk_own"
      /\ m = mtx[t] /\ t \in AllThreads
      /\ held' = [held EXCEPT ![t] = @ \cup {m}]
      /\ ret[t] \in Labels
      /\ pc' = [pc EXCEPT ![t] = ret[t]]
      /\ mtx' = [mtx EXCEPT ![t] = None]
      /\ ret' = [ret EXCEPT ![t] = "run"]
      /\ UNCHANGED <<spl, cpuVars, runVars, locked, waiters, wait, timeVars>>
  BY ConstantFacts, ResumeFacts DEF MutexLockOwn, Return, At, PcInv
<1>2. TypeOK'
  BY <1>1 DEF TypeOK, Labels, cpuVars, runVars, timeVars
<1>3. /\ pc'[t] = ret[t] /\ ret'[t] = "run"
      /\ ret[t] \notin {"lk", "lk_sel", "lk_own", "ul", "ul_wake", "sg_wake",
                       "sl_sel", "cw_sel", "kloop"}
      /\ held'[t] = held[t] \cup {m}
      /\ \A u \in AllThreads : u # t =>
           /\ pc'[u] = pc[u] /\ ret'[u] = ret[u] /\ mtx'[u] = mtx[u]
           /\ wait'[u] = wait[u] /\ held'[u] = held[u]
  BY <1>1, ResumeFacts DEF TypeOK
<1>4. ~Busy(t) /\ ~InCvWait(t) /\ ~InCvWait(t)'
  BY <1>1, <1>3 DEF Busy, InCvWait
<1>5. MachineInv'
  BY <1>1, <1>3, <1>4, LocalStep, StatusStep DEF runVars, timeVars
<1>6. PcInv'
  BY <1>1, <1>3, ConstantFacts DEF PcInv, InCvWait, Resumes
<1>7. \A n \in MUTEXES : t \notin Waiting(n) /\ Waiting(n)' = Waiting(n)
  BY <1>1, <1>4, RunsUnlinked DEF At, Waiting
<1>8. WaiterInv'
  BY <1>1, <1>3, <1>7, WaiterFrame
<1>9. OwnInv'
  <2>1. ASSUME NEW n \in MUTEXES, NEW u \in AllThreads
        PROVE  Owns(u, n)' <=> Owns(u, n)
    BY <1>1, <1>3, <1>7 DEF Owns
  <2> QED
    BY <1>1, <2>1 DEF OwnInv
<1> QED
  BY <1>2, <1>5, <1>6, <1>8, <1>9 DEF MachineInv

\* mutex_unlock frees a mutex that nobody waits for.
LEMMA MutexUnlockFreeInv ==
  ASSUME IInv, NEW c \in CPUS, NEW t \in AllThreads, MutexUnlockFree(c, t)
  PROVE  IInv'
<1> USE DEF IInv
<1>1. PICK m \in MUTEXES :
      /\ current[c] = t /\ phase[c] = "run" /\ pc[t] = "ul"
      /\ ret[t] \in Labels
      /\ m = mtx[t] /\ m \in held[t] /\ t \in AllThreads /\ waiters[m] = <<>>
      /\ locked' = [locked EXCEPT ![m] = FALSE]
      /\ held' = [held EXCEPT ![t] = @ \ {m}]
      /\ pc' = [pc EXCEPT ![t] = ret[t]]
      /\ mtx' = [mtx EXCEPT ![t] = None]
      /\ ret' = [ret EXCEPT ![t] = "run"]
      /\ UNCHANGED <<spl, cpuVars, runVars, waiters, wait, timeVars>>
  BY ConstantFacts, ResumeFacts DEF MutexUnlockFree, Return, At, PcInv
<1>2. TypeOK'
  BY <1>1 DEF TypeOK, Labels, cpuVars, runVars, timeVars
<1>3. /\ pc'[t] = ret[t] /\ ret'[t] = "run" /\ wait'[t] = wait[t]
      /\ ret[t] \notin {"lk", "lk_sel", "lk_own", "ul", "ul_wake", "sg_wake", "sl_sel"}
      /\ (t \in THREADS /\ ret[t] # "kloop") \/ (t \in KThreads /\ ret[t] = "kloop")
      /\ held'[t] = held[t] \ {m} /\ ~locked'[m]
      /\ \A u \in AllThreads : u # t =>
           /\ pc'[u] = pc[u] /\ ret'[u] = ret[u] /\ mtx'[u] = mtx[u]
           /\ wait'[u] = wait[u] /\ held'[u] = held[u]
      /\ \A n \in MUTEXES : n # m => locked'[n] = locked[n]
  BY <1>1, ResumeFacts DEF TypeOK
<1>4. InCvWait(t)' <=> InCvWait(t)
  BY <1>1, <1>3 DEF InCvWait
<1>5. MachineInv'
  BY <1>1, <1>3, <1>4, LocalStep DEF runVars, SameGone, Dead, Off, timeVars
<1>6. PcInv'
  <2>1. \A u \in AllThreads : InCvWait(u)' <=> InCvWait(u)
    BY <1>3, <1>4 DEF InCvWait
  <2> QED
    BY <1>1, <1>3, <2>1, ConstantFacts DEF PcInv, Resumes
<1>7. WaiterInv'
  BY <1>1, <1>3, WaiterFrame
<1>8. OwnInv'
  <2>1. \A n \in MUTEXES : Waiting(n)' = Waiting(n)
    BY <1>1 DEF Waiting
  <2>2. ASSUME NEW n \in MUTEXES, NEW u \in AllThreads, u # t \/ n # m
        PROVE  Owns(u, n)' <=> Owns(u, n)
    BY <1>1, <1>3, <2>1, <2>2 DEF Owns
  <2>3. \A u \in AllThreads : ~Owns(u, m)'
    <3>1. Owns(t, m) /\ ~Owns(t, m)'
      BY <1>1, <1>3 DEF Owns
    <3> QED
      BY <1>1, <2>2, <3>1 DEF OwnInv
  <2> QED
    BY <1>1, <1>3, <2>2, <2>3 DEF OwnInv
<1> QED
  BY <1>2, <1>5, <1>6, <1>7, <1>8 DEF MachineInv

\* Appending the thread t to a queue it is not in.
LEMMA EnqueueFacts ==
  ASSUME IInv, NEW q \in QUEUES, NEW t \in THREADS, t \notin Waiting(q),
         waiters' = [waiters EXCEPT ![q] = Append(@, t)]
  PROVE  /\ waiters' \in [QUEUES -> Seq(THREADS)]
         /\ waiters'[q] # <<>>
         /\ Waiting(q)' = Waiting(q) \cup {t}
         /\ \A r \in QUEUES : r # q => /\ waiters'[r] = waiters[r]
                                       /\ Waiting(r)' = Waiting(r)
         /\ \A r \in QUEUES : IsInjective(waiters'[r])
<1>1. /\ waiters \in [QUEUES -> Seq(THREADS)]
      /\ \A r \in QUEUES : IsInjective(waiters[r])
  BY DEF IInv, TypeOK, QueueInv
<1>2. /\ Append(waiters[q], t) \in Seq(THREADS)
      /\ Range(Append(waiters[q], t)) = Waiting(q) \cup {t}
      /\ IsInjective(Append(waiters[q], t))
  BY <1>1, AppendFacts DEF Waiting
<1>3. Append(waiters[q], t) # <<>>
  BY <1>1
<1> QED
  BY <1>1, <1>2, <1>3 DEF Waiting

\* mutex_lock queues its thread behind the other waiters.
LEMMA MutexLockQueueInv ==
  ASSUME IInv, NEW c \in CPUS, NEW t \in THREADS, MutexLockQueue(c, t)
  PROVE  IInv'
<1> USE DEF IInv
<1>1. PICK m \in MUTEXES :
      /\ current[c] = t /\ phase[c] = "run" /\ pc[t] = "lk" /\ ret[t] # "cw_sel"
      /\ m = mtx[t] /\ locked[m] /\ Free(m) /\ t \in AllThreads
      /\ m \in QUEUES /\ m \in SPLS /\ m \in GUARDS
      /\ spl' = [spl EXCEPT ![m] = c]
      /\ waiters' = [waiters EXCEPT ![m] = Append(@, t)]
      /\ status' = [status EXCEPT ![t] = "BLOCKED"]
      /\ pc' = [pc EXCEPT ![t] = "lk_sel"]
      /\ UNCHANGED <<cpuVars, ready, saved, locked, held, mtx, wait, ret, timeVars>>
  BY ConstantFacts, ResumeFacts DEF MutexLockQueue, Goto, At, PcInv
<1>2. ~Busy(t) /\ ~InCvWait(t)
  BY <1>1 DEF Busy, InCvWait
<1>3. \A q \in QUEUES : t \notin Waiting(q)
  BY <1>1, <1>2, RunsUnlinked DEF At
<1>4. /\ waiters' \in [QUEUES -> Seq(THREADS)]
      /\ Waiting(m)' = Waiting(m) \cup {t}
      /\ \A r \in QUEUES : r # m => /\ waiters'[r] = waiters[r]
                                    /\ Waiting(r)' = Waiting(r)
      /\ \A r \in QUEUES : IsInjective(waiters'[r])
      /\ waiters'[m] # <<>>
  BY <1>1, <1>3, EnqueueFacts
<1>5. TypeOK'
  BY <1>1, <1>4 DEF TypeOK, Labels, Status, cpuVars, timeVars
<1>6. /\ pc'[t] = "lk_sel" /\ mtx'[t] = m
      /\ \A u \in AllThreads : u # t =>
           /\ pc'[u] = pc[u] /\ ret'[u] = ret[u] /\ mtx'[u] = mtx[u]
           /\ wait'[u] = wait[u]
  BY <1>1 DEF TypeOK
<1>7. MachineInv'
  <2>1. Busy(t)' /\ ~InCvWait(t)'
    BY <1>1, <1>6 DEF Busy, InCvWait
  <2>2. \A k \in GUARDS : ThreadHolds(t, k)' <=> k = m
    BY <1>6, <2>1 DEF ThreadHolds, InCvWait
  <2>3. \A q \in QUEUES : LeavingVia(c, q)' <=> q = m
    BY <1>1, <1>6, <2>1 DEF LeavingVia, cpuVars
  <2>4. pc'[t] # "sl_sel" /\ timers' = timers
    BY <1>1, <1>6 DEF timeVars
  <2>5. /\ timers' = IF pc'[t] = "sl_sel" THEN timers \cup {t} ELSE timers
        /\ pc'[t] = "sl_sel" => m \notin QUEUES
    BY <2>4
  <2>6. \A q \in QUEUES :
          /\ Waiting(q)' = IF LeavingVia(c, q)' THEN Waiting(q) \cup {t}
                                                ELSE Waiting(q)
          /\ IsInjective(waiters'[q])
          /\ LeavingVia(c, q)' => q = m
    BY <1>4, <2>3
  <2> QED
    BY <1>1, <1>2, <1>6, <2>1, <2>2, <2>5, <2>6, AcquireStep, StatusStep
<1>8. PcInv'
  BY <1>1, <1>6, ConstantFacts DEF PcInv, InCvWait
<1>9. WaiterInv'
  <2>1. \A u \in AllThreads :
          /\ pc'[u] = "ul_wake" => waiters'[mtx'[u]] # <<>>
          /\ pc'[u] = "sg_wake" => waiters'[wait'[u][1]] # <<>>
    BY <1>1, <1>4, <1>6, ConstantFacts DEF WaiterInv, PcInv
  <2>2. \A n \in MUTEXES : \A u \in Waiting(n)' :
          pc'[u] \in {"lk_sel", "lk_own"} /\ mtx'[u] = n
    <3>1. \A n \in MUTEXES : n \in QUEUES /\ Waiting(n) \subseteq AllThreads
      BY ConstantFacts DEF TypeOK, Waiting, Range
    <3> QED
      BY <1>3, <1>4, <1>6, <3>1 DEF WaiterInv
  <2> QED
    BY <2>1, <2>2 DEF WaiterInv
<1>10. OwnInv'
  <2>1. ASSUME NEW n \in MUTEXES, NEW u \in AllThreads
        PROVE  Owns(u, n)' <=> Owns(u, n)
    <3>1. CASE u = t
      BY <1>1, <1>6, <3>1 DEF Owns
    <3>2. CASE u # t
      BY ZenonT(60), <1>1, <1>4, <1>6, <3>2, ConstantFacts DEF Owns
    <3> QED
      BY <3>1, <3>2
  <2> QED
    BY <1>1, <1>4, <2>1, ConstantFacts DEF OwnInv
<1> QED
  BY <1>5, <1>7, <1>8, <1>9, <1>10 DEF MachineInv

\* Thread t, on CPU c, takes the guard l of a queue it will take a waiter from.
LEMMA GuardStep ==
  ASSUME IInv, NEW c \in CPUS, NEW t \in AllThreads, NEW l \in GUARDS,
         current[c] = t, phase[c] = "run",
         Free(l), spl' = [spl EXCEPT ![l] = c],
         UNCHANGED <<cpuVars, runVars, waiters, timers>>,
         \A u \in AllThreads : u # t => /\ pc'[u] = pc[u] /\ ret'[u] = ret[u]
                                        /\ mtx'[u] = mtx[u] /\ wait'[u] = wait[u],
         Busy(t)', pc[t] \notin {"lk_sel", "sl_sel"},
         pc'[t] \notin {"lk_sel", "sl_sel"},
         InCvWait(t)' <=> InCvWait(t), InCvWait(t) => wait'[t] = wait[t],
         \A k \in GUARDS : ThreadHolds(t, k)' <=> ThreadHolds(t, k) \/ k = l
  PROVE  MachineInv'
<1> USE DEF IInv
<1>0. QUEUES \subseteq GUARDS /\ GUARDS \subseteq SPLS /\ None \notin CPUS
  BY ConstantFacts
<1>1. ASSUME NEW u \in AllThreads, u # t
      PROVE  /\ Busy(u)' <=> Busy(u)
             /\ \A k \in GUARDS : ThreadHolds(u, k)' <=> ThreadHolds(u, k)
             /\ InCvWait(u)' <=> InCvWait(u)
             /\ pc'[u] = pc[u] /\ mtx'[u] = mtx[u] /\ wait'[u] = wait[u]
  BY <1>1 DEF Busy, InCvWait, ThreadHolds
<1>2. /\ \A d \in CPUS : current[d] = t => d = c
      /\ \A d \in CPUS : current[d] \in AllThreads
  BY DEF CpuInv, TypeOK
<1>3. SpinInv'
  <2>1. spl \in [SPLS -> CPUS \cup {None}]
    BY DEF TypeOK
  <2>2. ASSUME NEW d \in CPUS, d # c, NEW k \in GUARDS
        PROVE  spl'[k] = d <=> Holds(d, k)'
    BY <1>0, <1>1, <1>2, <2>1, <2>2 DEF SpinInv, Holds, cpuVars, Free
  <2>3. ASSUME NEW k \in GUARDS
        PROVE  spl'[k] = c <=> Holds(c, k)'
    <3>1. spl[k] = c <=> ThreadHolds(t, k)
      BY DEF SpinInv, Holds
    <3>2. Holds(c, k)' <=> ThreadHolds(t, k)'
      BY DEF Holds, cpuVars
    <3> QED
      BY <1>0, <2>1, <3>1, <3>2
  <2> QED
    BY <2>2, <2>3 DEF SpinInv
<1>4. BusyInv'
  BY <1>1 DEF BusyInv, cpuVars
<1>9. SameGone /\ UNCHANGED <<ready, status, saved>>
  BY DEF SameGone, Dead, Off, runVars
<1>5. CpuInv' /\ SavedInv'
  BY <1>9 DEF CpuInv, SavedInv, cpuVars, SameGone
<1>6. \A q \in QUEUES : Waiting(q)' = Waiting(q)
  BY DEF Waiting
<1>7. QueueInv' /\ GoneInv' /\ LinkedInv'
  BY <1>6, <1>9, GoneFrame DEF QueueInv, cpuVars
<1>8. CurrentInv'
  <2>1. ASSUME NEW d \in CPUS
        PROVE  /\ \A q \in QUEUES : LeavingVia(d, q)' <=> LeavingVia(d, q)
               /\ pc'[current[d]] = "sl_sel" <=> pc[current[d]] = "sl_sel"
    <3>1. CASE d = c
      BY <3>1 DEF LeavingVia, cpuVars
    <3>2. CASE d # c
      BY <1>1, <1>2, <3>2 DEF LeavingVia, cpuVars
    <3> QED
      BY <3>1, <3>2
  <2> QED
    BY <1>6, <1>9, <2>1 DEF CurrentInv, cpuVars
<1> QED
  BY <1>3, <1>4, <1>5, <1>7, <1>8 DEF MachineInv

\* mutex_unlock finds a waiter and keeps the mutex locked for it.
LEMMA MutexUnlockPassInv ==
  ASSUME IInv, NEW c \in CPUS, NEW t \in AllThreads, MutexUnlockPass(c, t)
  PROVE  IInv'
<1> USE DEF IInv
<1>1. PICK m \in MUTEXES :
      /\ current[c] = t /\ phase[c] = "run" /\ pc[t] = "ul"
      /\ m = mtx[t] /\ waiters[m] # <<>> /\ Free(m) /\ t \in AllThreads
      /\ m \in QUEUES /\ m \in GUARDS /\ m \in held[t]
      /\ spl' = [spl EXCEPT ![m] = c]
      /\ pc' = [pc EXCEPT ![t] = "ul_wake"]
      /\ UNCHANGED <<cpuVars, runVars, syncVars, mtx, wait, ret, timeVars>>
  BY ConstantFacts DEF MutexUnlockPass, Goto, At, PcInv
<1>2. TypeOK'
  BY <1>1 DEF TypeOK, Labels, cpuVars, runVars, syncVars, timeVars
<1>3. /\ pc'[t] = "ul_wake" /\ mtx'[t] = m
      /\ \A u \in AllThreads : u # t =>
           /\ pc'[u] = pc[u] /\ ret'[u] = ret[u] /\ mtx'[u] = mtx[u]
           /\ wait'[u] = wait[u]
  BY <1>1 DEF TypeOK
<1>4. PcInv'
  <2>1. \A u \in AllThreads : InCvWait(u)' <=> InCvWait(u)
    BY <1>1, <1>3 DEF InCvWait
  <2>2. t \in THREADS \/ (t \in KThreads /\ ret[t] = "kloop")
    BY <1>1, ResumeFacts
  <2> QED
    BY <1>1, <1>3, <2>1, <2>2, ConstantFacts DEF PcInv, syncVars
<1>5. OwnInv'
  BY <1>1, <1>3, OwnFrame DEF syncVars
<1>6. WaiterInv'
  <2>1. \A n \in MUTEXES : Waiting(n)' = Waiting(n) /\ Waiting(n) \subseteq AllThreads
    BY <1>1, ConstantFacts DEF TypeOK, Waiting, Range, syncVars
  <2>2. \A n \in MUTEXES : t \notin Waiting(n)
    BY <1>1 DEF WaiterInv
  <2>3. \A u \in AllThreads :
          /\ pc'[u] = "ul_wake" => waiters'[mtx'[u]] # <<>>
          /\ pc'[u] = "sg_wake" => waiters'[wait'[u][1]] # <<>>
    BY <1>1, <1>3 DEF WaiterInv, syncVars
  <2> QED
    BY <1>3, <2>1, <2>2, <2>3 DEF WaiterInv
<1>7. MachineInv'
  <2>1. InCvWait(t)' <=> InCvWait(t)
    BY <1>1, <1>3 DEF InCvWait
  <2>2. \A k \in GUARDS : ThreadHolds(t, k)' <=> ThreadHolds(t, k) \/ k = m
    BY <1>1, <1>3, <2>1 DEF ThreadHolds
  <2>3. Busy(t)'
    BY <1>3 DEF Busy
  <2> QED
    BY <1>1, <1>3, <2>1, <2>2, <2>3, GuardStep DEF syncVars, timeVars
<1> QED
  BY <1>2, <1>4, <1>5, <1>6, <1>7 DEF MachineInv

\* mutex_unlock makes the oldest waiter ready: the mutex changes owner.
LEMMA MutexUnlockWakeInv ==
  ASSUME IInv, NEW c \in CPUS, NEW t \in AllThreads, MutexUnlockWake(c, t)
  PROVE  IInv'
<1> USE DEF IInv
<1>1. PICK m \in MUTEXES :
      /\ current[c] = t /\ phase[c] = "run" /\ pc[t] = "ul_wake"
      /\ ret[t] \in Labels
      /\ m = mtx[t] /\ m \in held[t] /\ t \in AllThreads /\ waiters[m] # <<>>
      /\ m \in QUEUES /\ m \in SPLS /\ m \in GUARDS
      /\ WakeHead(m)
      /\ held' = [held EXCEPT ![t] = @ \ {m}]
      /\ pc' = [pc EXCEPT ![t] = ret[t]]
      /\ mtx' = [mtx EXCEPT ![t] = None]
      /\ ret' = [ret EXCEPT ![t] = "run"]
      /\ UNCHANGED <<cpuVars, locked, wait, timeVars>>
  <2>1. pc[t] = "ul_wake" /\ mtx[t] \in MUTEXES /\ mtx[t] \in held[t]
        /\ waiters[mtx[t]] # <<>> /\ ret[t] \in Labels
    BY ResumeFacts DEF MutexUnlockWake, At, PcInv, WaiterInv
  <2> QED
    BY <2>1, ConstantFacts DEF MutexUnlockWake, Return, At
<1>2. PICK w \in THREADS :
      /\ w = Head(waiters[m]) /\ w \in Waiting(m)
      /\ ready' \in Seq(THREADS)
      /\ waiters' \in [QUEUES -> Seq(THREADS)]
      /\ Waiting(m)' = Waiting(m) \ {w}
      /\ \A r \in QUEUES : r # m => waiters'[r] = waiters[r]
  BY <1>1, WakeFacts
<1>3. /\ spl' = [spl EXCEPT ![m] = None]
      /\ status' = [status EXCEPT ![w] = "READY"]
      /\ saved' = saved
  BY <1>1, <1>2 DEF WakeHead
<1>4. TypeOK'
  BY <1>1, <1>2, <1>3 DEF TypeOK, Labels, Status, cpuVars, timeVars
<1>5. /\ pc'[t] = ret[t] /\ ret'[t] = "run" /\ wait'[t] = wait[t]
      /\ ret[t] \notin {"lk", "lk_sel", "lk_own", "ul", "ul_wake", "sg_wake", "sl_sel"}
      /\ (t \in THREADS /\ ret[t] # "kloop") \/ (t \in KThreads /\ ret[t] = "kloop")
      /\ held'[t] = held[t] \ {m}
      /\ \A u \in AllThreads : u # t =>
           /\ pc'[u] = pc[u] /\ ret'[u] = ret[u] /\ mtx'[u] = mtx[u]
           /\ wait'[u] = wait[u] /\ held'[u] = held[u]
  BY <1>1, ResumeFacts DEF TypeOK
<1>6. InCvWait(t)' <=> InCvWait(t)
  BY <1>1, <1>5 DEF InCvWait
<1>7. InCvWait(t) => wait[t][1] # m
  BY <1>1, ConstantFacts DEF PcInv
<1>8. MachineInv'
  <2>1. ThreadHolds(t, m)
    BY <1>1 DEF ThreadHolds
  <2>2. \A k \in GUARDS : ThreadHolds(t, k)' <=> ThreadHolds(t, k) /\ k # m
    BY <1>1, <1>5, <1>6, <1>7 DEF ThreadHolds
  <2>3. timers' = timers /\ UNCHANGED cpuVars
    BY <1>1 DEF timeVars
  <2> QED
    BY <1>1, <1>5, <1>6, <1>7, <2>1, <2>2, <2>3, WakeStep
<1>9. PcInv'
  <2>1. \A u \in AllThreads : InCvWait(u)' <=> InCvWait(u)
    BY <1>5, <1>6 DEF InCvWait
  <2> QED
    BY <1>1, <1>5, <2>1, ConstantFacts DEF PcInv, Resumes
<1>10. /\ \A n \in MUTEXES : n # m => waiters'[n] = waiters[n]
                                      /\ Waiting(n)' = Waiting(n)
       /\ \A n \in MUTEXES : Waiting(n) \subseteq AllThreads
  <2>1. \A n \in MUTEXES : n \in QUEUES
    BY ConstantFacts
  <2> QED
    BY <1>2, <2>1, ConstantFacts DEF Waiting, TypeOK, Range
\* w has not run since it queued, so it is still about to come back from
\* mutex_lock: the label lk_sel would mean that its CPU holds the guard.
<1>11. pc[w] = "lk_own" /\ mtx[w] = m /\ w # t
  <2>1. pc[w] \in {"lk_sel", "lk_own"} /\ mtx[w] = m /\ w \in AllThreads
    BY <1>1, <1>2, ConstantFacts DEF WaiterInv
  <2>2. spl[m] = c
    BY <1>1 DEF SpinInv, Holds, ThreadHolds
  <2>3. ASSUME pc[w] = "lk_sel"
        PROVE  FALSE
    <3>1. PICK d \in CPUS : current[d] = w /\ phase[d] = "run"
      BY <2>1, <2>3 DEF BusyInv, Busy
    <3>2. spl[m] = d
      BY <1>1, <2>1, <2>3, <3>1 DEF SpinInv, Holds, ThreadHolds
    <3> QED
      BY <1>1, <2>1, <2>2, <2>3, <3>1, <3>2
  <2> QED
    BY <1>1, <2>1, <2>3
<1>12. WaiterInv'
  <2>1. ASSUME NEW u \in AllThreads
        PROVE  /\ pc'[u] = "ul_wake" => waiters'[mtx'[u]] # <<>>
               /\ pc'[u] = "sg_wake" => waiters'[wait'[u][1]] # <<>>
    <3>1. CASE u = t
      BY <1>1, <1>5, <3>1
    <3>2. ASSUME u # t, pc[u] = "ul_wake"
          PROVE  mtx[u] # m /\ mtx[u] \in MUTEXES
      <4>1. PICK d \in CPUS : current[d] = u /\ phase[d] = "run"
        BY <3>2 DEF BusyInv, Busy
      <4>2. mtx[u] \in MUTEXES /\ mtx[u] \in GUARDS
        BY <3>2, ConstantFacts DEF PcInv
      <4>3. spl[mtx[u]] = d /\ spl[m] = c
        BY <1>1, <3>2, <4>1, <4>2 DEF SpinInv, Holds, ThreadHolds
      <4> QED
        BY <1>1, <3>2, <4>1, <4>2, <4>3
    <3>3. ASSUME pc[u] = "sg_wake"
          PROVE  wait[u][1] # m /\ wait[u][1] \in QUEUES
      BY <1>1, <3>3, ConstantFacts DEF PcInv
    <3> QED
      BY <1>2, <1>5, <1>10, <3>1, <3>2, <3>3 DEF WaiterInv
  <2>2. \A n \in MUTEXES : \A u \in Waiting(n)' :
          pc'[u] \in {"lk_sel", "lk_own"} /\ mtx'[u] = n
    <3>1. \A n \in MUTEXES : t \notin Waiting(n)
      BY <1>1 DEF WaiterInv
    <3> QED
      BY <1>2, <1>5, <1>10, <3>1 DEF WaiterInv
  <2> QED
    BY <2>1, <2>2 DEF WaiterInv
<1>13. OwnInv'
  <2>1. ASSUME NEW n \in MUTEXES, NEW u \in AllThreads, n # m
        PROVE  Owns(u, n)' <=> Owns(u, n)
    <3>1. CASE u = t
      BY <1>1, <1>5, <2>1, <3>1 DEF Owns
    <3>2. CASE u # t
      BY <1>5, <1>10, <2>1, <3>2 DEF Owns
    <3> QED
      BY <3>1, <3>2
  <2>2. Owns(t, m) /\ locked[m]
    BY <1>1 DEF Owns, OwnInv
  <2>3. ASSUME NEW u \in AllThreads
        PROVE  Owns(u, m)' <=> u = w
    <3>1. CASE u = t
      BY <1>1, <1>5, <1>11, <3>1 DEF Owns
    <3>2. CASE u = w
      BY <1>2, <1>5, <1>11, <3>2 DEF Owns
    <3>3. CASE u # t /\ u # w
      <4>1. ~Owns(u, m)
        BY <1>1, <2>2, <3>3 DEF OwnInv
      <4> QED
        BY <1>2, <1>5, <3>3, <4>1 DEF Owns
    <3> QED
      BY <3>1, <3>2, <3>3
  <2>4. w \in AllThreads
    BY ConstantFacts
  <2>5. ASSUME NEW n \in MUTEXES, n # m
        PROVE  /\ ~locked'[n] => waiters'[n] = <<>> /\ \A u \in AllThreads : ~Owns(u, n)'
               /\ locked'[n] => \E u \in AllThreads : Owns(u, n)'
               /\ \A u, v \in AllThreads : Owns(u, n)' /\ Owns(v, n)' => u = v
    BY <1>1, <1>10, <2>1, <2>5 DEF OwnInv
  <2> QED
    BY <1>1, <2>2, <2>3, <2>4, <2>5 DEF OwnInv
<1> QED
  BY <1>4, <1>8, <1>9, <1>12, <1>13 DEF MachineInv

\* cv_wait queues its thread and releases the mutex.
LEMMA CvWaitInv ==
  ASSUME IInv, NEW c \in CPUS, NEW t \in THREADS, CvWait(c, t)
  PROVE  IInv'
<1> USE DEF IInv
<1>1. PICK q \in CVS, m \in MUTEXES :
      /\ current[c] = t /\ phase[c] = "run" /\ pc[t] = "run" /\ ret[t] = "run"
      /\ m \in held[t] /\ Free(q) /\ t \in AllThreads
      /\ q \in QUEUES /\ q \in SPLS /\ q \in GUARDS /\ q \notin MUTEXES
      /\ spl' = [spl EXCEPT ![q] = c]
      /\ waiters' = [waiters EXCEPT ![q] = Append(@, t)]
      /\ wait' = [wait EXCEPT ![t] = <<q, m>>]
      /\ pc' = [pc EXCEPT ![t] = "ul"]
      /\ mtx' = [mtx EXCEPT ![t] = m]
      /\ ret' = [ret EXCEPT ![t] = "cw_sel"]
      /\ status' = [status EXCEPT ![t] = "BLOCKED"]
      /\ UNCHANGED <<cpuVars, ready, saved, locked, held, timeVars>>
  <2>1. t \in AllThreads /\ held[t] \subseteq MUTEXES
    BY ConstantFacts DEF TypeOK
  <2>2. \A q \in CVS : q \in QUEUES /\ q \in SPLS /\ q \in GUARDS /\ q \notin MUTEXES
    BY ConstantFacts
  <2> QED
    BY <2>1, <2>2 DEF CvWait, Call, At, PcInv
<1>2. ~Busy(t) /\ ~InCvWait(t)
  BY <1>1 DEF Busy, InCvWait
<1>3. \A r \in QUEUES : t \notin Waiting(r)
  BY <1>1, <1>2, RunsUnlinked DEF At
<1>4. /\ waiters' \in [QUEUES -> Seq(THREADS)]
      /\ Waiting(q)' = Waiting(q) \cup {t}
      /\ \A r \in QUEUES : r # q => /\ waiters'[r] = waiters[r]
                                    /\ Waiting(r)' = Waiting(r)
      /\ \A r \in QUEUES : IsInjective(waiters'[r])
      /\ waiters'[q] # <<>>
  BY <1>1, <1>3, EnqueueFacts
<1>5. TypeOK'
  BY <1>1, <1>4 DEF TypeOK, Labels, Status, cpuVars, timeVars
<1>6. /\ pc'[t] = "ul" /\ mtx'[t] = m /\ ret'[t] = "cw_sel"
      /\ wait'[t] = <<q, m>> /\ wait'[t][1] = q
      /\ \A u \in AllThreads : u # t =>
           /\ pc'[u] = pc[u] /\ ret'[u] = ret[u] /\ mtx'[u] = mtx[u]
           /\ wait'[u] = wait[u]
  BY <1>1 DEF TypeOK
<1>7. MachineInv'
  <2>1. Busy(t)' /\ InCvWait(t)'
    BY <1>6 DEF Busy, InCvWait
  <2>2. \A k \in GUARDS : ThreadHolds(t, k)' <=> k = q
    BY <1>6, <2>1 DEF ThreadHolds
  <2>3. \A r \in QUEUES : LeavingVia(c, r)' <=> r = q
    BY <1>1, <1>6, <2>1 DEF LeavingVia, cpuVars
  <2>4. /\ timers' = IF pc'[t] = "sl_sel" THEN timers \cup {t} ELSE timers
        /\ pc'[t] = "sl_sel" => q \notin QUEUES
    BY <1>1, <1>6 DEF timeVars
  <2>5. \A r \in QUEUES :
          /\ Waiting(r)' = IF LeavingVia(c, r)' THEN Waiting(r) \cup {t}
                                                ELSE Waiting(r)
          /\ IsInjective(waiters'[r])
          /\ LeavingVia(c, r)' => r = q
    BY <1>4, <2>3
  <2> QED
    BY <1>1, <1>2, <1>6, <2>1, <2>2, <2>4, <2>5, AcquireStep, StatusStep
<1>8. PcInv'
  <2>1. t \notin IdleThreads \cup KThreads
    BY ConstantFacts
  <2> QED
    BY <1>1, <1>6, <2>1 DEF PcInv, InCvWait, Resumes, Labels
<1>9. \A n \in MUTEXES : waiters'[n] = waiters[n]
  BY <1>1, <1>4, ConstantFacts
<1>10. WaiterInv'
  <2>1. ASSUME NEW u \in AllThreads
        PROVE  /\ pc'[u] = "ul_wake" => waiters'[mtx'[u]] # <<>>
               /\ pc'[u] = "sg_wake" => waiters'[wait'[u][1]] # <<>>
    <3>1. pc[u] = "sg_wake" => wait[u][1] \in QUEUES
      BY ConstantFacts DEF PcInv
    <3> QED
      BY <1>4, <1>6, <1>9, <3>1 DEF WaiterInv, PcInv
  <2>2. \A n \in MUTEXES : \A u \in Waiting(n)' :
          pc'[u] \in {"lk_sel", "lk_own"} /\ mtx'[u] = n
    <3>1. \A n \in MUTEXES : n \in QUEUES /\ Waiting(n)' = Waiting(n)
                             /\ Waiting(n) \subseteq AllThreads
      BY <1>9, ConstantFacts DEF TypeOK, Waiting, Range
    <3> QED
      BY <1>3, <1>6, <3>1 DEF WaiterInv
  <2> QED
    BY <2>1, <2>2 DEF WaiterInv
<1>11. OwnInv'
  BY <1>1, <1>6, <1>9, OwnFrame
<1> QED
  BY <1>5, <1>7, <1>8, <1>10, <1>11 DEF MachineInv

\* cv_signal takes the guard of the condition variable.
LEMMA CvSignalInv ==
  ASSUME IInv, NEW c \in CPUS, NEW t \in THREADS, CvSignal(c, t)
  PROVE  IInv'
<1> USE DEF IInv
<1>1. PICK q \in CVS :
      /\ current[c] = t /\ phase[c] = "run" /\ pc[t] = "run" /\ ret[t] = "run"
      /\ Free(q) /\ t \in AllThreads /\ waiters[q] # <<>>
      /\ q \in QUEUES /\ q \in SPLS /\ q \in GUARDS
      /\ spl' = [spl EXCEPT ![q] = c]
      /\ wait' = [wait EXCEPT ![t] = <<q>>]
      /\ pc' = [pc EXCEPT ![t] = "sg_wake"]
      /\ UNCHANGED <<cpuVars, runVars, syncVars, mtx, ret, timeVars>>
  <2>1. t \in AllThreads /\ \A q \in CVS : q \in QUEUES /\ q \in SPLS /\ q \in GUARDS
    BY ConstantFacts
  <2> QED
    BY <2>1 DEF CvSignal, Goto, At, PcInv
<1>2. TypeOK'
  BY <1>1 DEF TypeOK, Labels, cpuVars, runVars, syncVars, timeVars
<1>3. /\ pc'[t] = "sg_wake" /\ ret'[t] = "run" /\ wait'[t] = <<q>> /\ wait'[t][1] = q
      /\ \A u \in AllThreads : u # t =>
           /\ pc'[u] = pc[u] /\ ret'[u] = ret[u] /\ mtx'[u] = mtx[u]
           /\ wait'[u] = wait[u]
  BY <1>1 DEF TypeOK
<1>4. ~Busy(t) /\ ~InCvWait(t) /\ ~InCvWait(t)' /\ Busy(t)'
  BY <1>1, <1>3 DEF Busy, InCvWait
<1>5. MachineInv'
  <2>1. \A k \in GUARDS : ThreadHolds(t, k)' <=> ThreadHolds(t, k) \/ k = q
    BY <1>1, <1>3, <1>4 DEF ThreadHolds
  <2> QED
    BY <1>1, <1>3, <1>4, <2>1, GuardStep DEF syncVars, timeVars
<1>6. PcInv'
  <2>1. t \notin IdleThreads \cup KThreads
    BY ConstantFacts
  <2> QED
    BY <1>1, <1>3, <1>4, <2>1 DEF PcInv, InCvWait, syncVars
<1>7. OwnInv'
  BY <1>1, <1>3, OwnFrame DEF syncVars
<1>8. WaiterInv'
  <2>1. \A n \in MUTEXES : Waiting(n)' = Waiting(n) /\ Waiting(n) \subseteq AllThreads
    BY <1>1, ConstantFacts DEF TypeOK, Waiting, Range, syncVars
  <2>2. \A n \in MUTEXES : t \notin Waiting(n)
    BY <1>1 DEF WaiterInv
  <2>3. \A u \in AllThreads :
          /\ pc'[u] = "ul_wake" => waiters'[mtx'[u]] # <<>>
          /\ pc'[u] = "sg_wake" => waiters'[wait'[u][1]] # <<>>
    BY <1>1, <1>3 DEF WaiterInv, syncVars
  <2> QED
    BY <1>3, <2>1, <2>2, <2>3 DEF WaiterInv
<1> QED
  BY <1>2, <1>5, <1>6, <1>7, <1>8 DEF MachineInv

\* cv_signal makes the oldest waiter ready and releases the guard.
LEMMA CvSignalWakeInv ==
  ASSUME IInv, NEW c \in CPUS, NEW t \in THREADS, CvSignalWake(c, t)
  PROVE  IInv'
<1> USE DEF IInv
<1>1. PICK q \in CVS :
      /\ current[c] = t /\ phase[c] = "run" /\ pc[t] = "sg_wake" /\ ret[t] = "run"
      /\ q = wait[t][1] /\ t \in AllThreads /\ waiters[q] # <<>>
      /\ q \in QUEUES /\ q \in SPLS /\ q \in GUARDS
      /\ WakeHead(q)
      /\ pc' = [pc EXCEPT ![t] = "run"]
      /\ wait' = [wait EXCEPT ![t] = <<>>]
      /\ UNCHANGED <<cpuVars, locked, held, mtx, ret, timeVars>>
  <2>1. /\ t \in AllThreads /\ pc[t] = "sg_wake" /\ ret[t] = "run"
        /\ \A q \in CVS : q \in QUEUES /\ q \in SPLS /\ q \in GUARDS
    BY ConstantFacts DEF CvSignalWake, At, PcInv
  <2>2. wait[t][1] \in CVS /\ waiters[wait[t][1]] # <<>>
    BY <2>1 DEF PcInv, WaiterInv
  <2> QED
    BY <2>1, <2>2 DEF CvSignalWake, Goto, At
<1>2. PICK w \in THREADS :
      /\ w = Head(waiters[q])
      /\ ready' \in Seq(THREADS)
      /\ waiters' \in [QUEUES -> Seq(THREADS)]
      /\ \A r \in QUEUES : r # q => waiters'[r] = waiters[r]
  BY <1>1, WakeFacts
<1>3. /\ spl' = [spl EXCEPT ![q] = None]
      /\ status' = [status EXCEPT ![w] = "READY"]
      /\ saved' = saved
  BY <1>1, <1>2 DEF WakeHead
<1>4. TypeOK'
  BY <1>1, <1>2, <1>3 DEF TypeOK, Labels, Status, cpuVars, timeVars
<1>5. /\ pc'[t] = "run" /\ ret'[t] = "run" /\ mtx'[t] = mtx[t]
      /\ \A u \in AllThreads : u # t =>
           /\ pc'[u] = pc[u] /\ ret'[u] = ret[u] /\ mtx'[u] = mtx[u]
           /\ wait'[u] = wait[u]
  BY <1>1 DEF TypeOK
<1>6. ~InCvWait(t) /\ ~InCvWait(t)'
  BY <1>1, <1>5 DEF InCvWait
<1>7. MachineInv'
  <2>1. ThreadHolds(t, q)
    BY <1>1 DEF ThreadHolds
  <2>2. \A k \in GUARDS : ThreadHolds(t, k)' <=> ThreadHolds(t, k) /\ k # q
    BY <1>1, <1>5, <1>6 DEF ThreadHolds
  <2>3. timers' = timers /\ UNCHANGED cpuVars
    BY <1>1 DEF timeVars
  <2> QED
    BY <1>1, <1>5, <1>6, <2>1, <2>2, <2>3, WakeStep
<1>8. PcInv'
  <2>1. t \notin IdleThreads \cup KThreads
    BY ConstantFacts
  <2> QED
    BY <1>1, <1>5, <1>6, <2>1 DEF PcInv, InCvWait
<1>9. /\ \A n \in MUTEXES : waiters'[n] = waiters[n] /\ Waiting(n)' = Waiting(n)
      /\ \A n \in MUTEXES : Waiting(n) \subseteq AllThreads
  <2>1. \A n \in MUTEXES : n \in QUEUES /\ n # q
    BY <1>1, ConstantFacts
  <2> QED
    BY <1>2, <2>1, ConstantFacts DEF Waiting, TypeOK, Range
<1>10. WaiterInv'
  <2>1. ASSUME NEW u \in AllThreads, pc'[u] = "sg_wake"
        PROVE  waiters'[wait'[u][1]] # <<>>
    <3>1. u # t /\ pc[u] = "sg_wake" /\ wait'[u] = wait[u]
      BY <1>5, <2>1
    <3>2. wait[u][1] \in QUEUES /\ wait[u][1] \in GUARDS
      BY <3>1, ConstantFacts DEF PcInv
    <3>3. PICK d \in CPUS : current[d] = u /\ phase[d] = "run"
      BY <3>1 DEF BusyInv, Busy
    <3>4. spl[wait[u][1]] = d /\ spl[q] = c
      BY <1>1, <3>1, <3>2, <3>3 DEF SpinInv, Holds, ThreadHolds
    <3>5. wait[u][1] # q
      BY <1>1, <3>1, <3>3, <3>4
    <3> QED
      BY <1>2, <3>1, <3>2, <3>5 DEF WaiterInv
  <2>2. \A u \in AllThreads : pc'[u] = "ul_wake" => waiters'[mtx'[u]] # <<>>
    BY <1>5, <1>9 DEF WaiterInv, PcInv
  <2>3. \A n \in MUTEXES : \A u \in Waiting(n)' :
          pc'[u] \in {"lk_sel", "lk_own"} /\ mtx'[u] = n
    <3>1. \A n \in MUTEXES : t \notin Waiting(n)
      BY <1>1 DEF WaiterInv
    <3> QED
      BY <1>5, <1>9, <3>1 DEF WaiterInv
  <2> QED
    BY <2>1, <2>2, <2>3 DEF WaiterInv
<1>11. OwnInv'
  BY <1>1, <1>5, <1>9, OwnFrame
<1> QED
  BY <1>4, <1>7, <1>8, <1>10, <1>11 DEF MachineInv

\* sleep puts its thread into the timer heap under timer_lock.
LEMMA SleepInv ==
  ASSUME IInv, NEW c \in CPUS, NEW t \in THREADS, Sleep(c, t)
  PROVE  IInv'
<1> USE DEF IInv
<1>1. PICK n \in 0..MaxSleep :
      /\ current[c] = t /\ phase[c] = "run" /\ pc[t] = "run" /\ ret[t] = "run"
      /\ Free(TimerLock) /\ t \in AllThreads
      /\ TimerLock \in SPLS /\ TimerLock \in GUARDS /\ TimerLock \notin QUEUES
      /\ spl' = [spl EXCEPT ![TimerLock] = c]
      /\ timers' = timers \cup {t}
      /\ due' = [due EXCEPT ![t] = n]
      /\ pc' = [pc EXCEPT ![t] = "sl_sel"]
      /\ UNCHANGED <<cpuVars, runVars, syncVars, mtx, wait, ret>>
  BY ConstantFacts DEF Sleep, Goto, At, PcInv
<1>2. TypeOK'
  BY <1>1 DEF TypeOK, Labels, cpuVars, runVars, syncVars
<1>3. /\ pc'[t] = "sl_sel" /\ ret'[t] = "run"
      /\ \A u \in AllThreads : u # t =>
           /\ pc'[u] = pc[u] /\ ret'[u] = ret[u] /\ mtx'[u] = mtx[u]
           /\ wait'[u] = wait[u]
  BY <1>1 DEF TypeOK
<1>4. ~Busy(t) /\ ~InCvWait(t) /\ ~InCvWait(t)' /\ Busy(t)'
  BY <1>1, <1>3 DEF Busy, InCvWait
<1>5. MachineInv'
  <2>1. \A k \in GUARDS : ThreadHolds(t, k)' <=> k = TimerLock
    BY <1>3, <1>4 DEF ThreadHolds
  <2>2. \A q \in QUEUES : ~LeavingVia(c, q)' /\ Waiting(q)' = Waiting(q)
                          /\ IsInjective(waiters'[q])
    BY <1>1, <1>3, <1>4 DEF LeavingVia, cpuVars, Waiting, syncVars, QueueInv
  <2> QED
    BY <1>1, <1>3, <1>4, <2>1, <2>2, AcquireStep, StatusStep DEF runVars
<1>6. PcInv'
  <2>1. t \notin IdleThreads \cup KThreads
    BY ConstantFacts
  <2> QED
    BY <1>1, <1>3, <1>4, <2>1 DEF PcInv, InCvWait, syncVars
<1>7. WaiterInv'
  BY <1>1, <1>3, WaiterFrame DEF syncVars
<1>8. OwnInv'
  BY <1>1, <1>3, OwnFrame DEF syncVars
<1> QED
  BY <1>2, <1>5, <1>6, <1>7, <1>8 DEF MachineInv

\* What select_next leaves to prove of TypeOK in the steps that block.
LEMMA BlockFacts ==
  ASSUME IInv, NEW c \in CPUS, SelectNext(c, ready), NEW l, YieldTo(c, l)
  PROVE  /\ next' \in [CPUS -> AllThreads] /\ ready' \in Seq(THREADS)
         /\ ready \in Seq(THREADS) /\ IsInjective(ready)
         /\ phase' \in [CPUS -> Phases]
         /\ l \in SPLS => rel' \in [CPUS -> SPLS \cup {None}]
         /\ current' = current
<1>1. ready \in Seq(THREADS) /\ IsInjective(ready)
  BY DEF IInv, TypeOK, QueueInv
<1>2. next' \in [CPUS -> AllThreads] /\ ready' \in Seq(THREADS)
  BY <1>1, SelectNextFacts DEF IInv
<1> QED
  BY <1>1, <1>2 DEF IInv, TypeOK, YieldTo, Phases

\* A thread whose label says so leaves the CPU through the queue of l, the only
\* spinlock it holds.
LEMMA LeaveStep ==
  ASSUME IInv, NEW c \in CPUS, NEW t \in THREADS,
         NEW l \in QUEUES \cup {TimerLock, t},
         current[c] = t, phase[c] = "run", Free(ReadyLock),
         SelectNext(c, ready), YieldTo(c, l),
         UNCHANGED <<spl, saved, waiters, timers>>,
         \A u \in AllThreads : u # t =>
           /\ pc'[u] = pc[u] /\ ret'[u] = ret[u]
           /\ mtx'[u] = mtx[u] /\ wait'[u] = wait[u],
         ~Busy(t)',
         \A k \in GUARDS : ThreadHolds(t, k) <=> k = l,
         \A q \in QUEUES : LeavingVia(c, q) <=> q = l,
         pc[t] = "sl_sel" <=> l = TimerLock,
         \A u \in THREADS : /\ Dead(u)' <=> Dead(u)
                            /\ Off(u)' <=> Off(u) \/ u = l
  PROVE  MachineInv'
<1>1. /\ l \in GUARDS \cup THREADS /\ l # ReadyLock /\ (l \in THREADS => l = t)
      /\ QUEUES \subseteq GUARDS
      /\ ready \in Seq(THREADS) /\ IsInjective(ready)
  BY ConstantFacts, BlockFacts
<1>2. /\ \A k \in GUARDS : spl'[k] = c <=> k = l
      /\ \A k \in GUARDS, d \in CPUS : d # c => (spl'[k] = d <=> spl[k] = d)
  BY DEF IInv, SpinInv, Holds
<1>3. /\ t \notin Range(ready)
      /\ \A q \in QUEUES : t \in Waiting(q) <=> l = q
      /\ t \in timers <=> l = TimerLock
  BY DEF IInv, CurrentInv
<1>4. ~Busy(current[c])'
  BY BlockFacts DEF Busy, InCvWait
<1>5. Range(ready) = Range(ready) \cup
         (IF l = ReadyLock /\ current[c] \in THREADS THEN {current[c]} ELSE {})
  BY <1>1
<1> QED
  BY <1>1, <1>2, <1>3, <1>4, <1>5, SwitchStep

\* What LeaveStep asks of the status when the thread does not deschedule itself.
LEMMA LeaveGone ==
  ASSUME SameGone, NEW l \in GUARDS
  PROVE  \A u \in THREADS : /\ Dead(u)' <=> Dead(u)
                            /\ Off(u)' <=> Off(u) \/ u = l
BY ConstantFacts DEF SameGone

\* A waiter for a mutex selects the next thread and leaves the CPU.
LEMMA MutexLockBlockInv ==
  ASSUME IInv, NEW c \in CPUS, NEW t \in THREADS, MutexLockBlock(c, t)
  PROVE  IInv'
<1> USE DEF IInv
<1>1. PICK m \in MUTEXES :
      /\ current[c] = t /\ phase[c] = "run" /\ pc[t] = "lk_sel" /\ ret[t] # "cw_sel"
      /\ m = mtx[t] /\ t \in AllThreads /\ m \in QUEUES /\ m \in SPLS /\ m \in GUARDS
      /\ m # TimerLock
      /\ Free(ReadyLock) /\ SelectNext(c, ready) /\ YieldTo(c, m)
      /\ pc' = [pc EXCEPT ![t] = "lk_own"]
      /\ UNCHANGED <<spl, status, saved, syncVars, mtx, wait, ret, timeVars>>
  BY ConstantFacts, ResumeFacts DEF MutexLockBlock, Goto, At, PcInv
<1>2. TypeOK'
  BY <1>1, BlockFacts DEF TypeOK, Labels, syncVars, timeVars
<1>3. /\ pc'[t] = "lk_own" /\ ret'[t] = ret[t] /\ mtx'[t] = m
      /\ \A u \in AllThreads : u # t =>
           /\ pc'[u] = pc[u] /\ ret'[u] = ret[u] /\ mtx'[u] = mtx[u]
           /\ wait'[u] = wait[u]
  BY <1>1 DEF TypeOK
<1>4. ~InCvWait(t) /\ ~Busy(t)'
  BY <1>1, <1>3 DEF Busy, InCvWait
<1>5. \A q \in QUEUES : LeavingVia(c, q) <=> q = m
  BY <1>1, <1>4 DEF LeavingVia
<1>6. MachineInv'
  <2>1. \A k \in GUARDS : ThreadHolds(t, k) <=> k = m
    BY <1>1, <1>4 DEF ThreadHolds
  <2>2. SameGone
    BY <1>1, StatusStep
  <2> QED
    BY <1>1, <1>3, <1>4, <1>5, <2>1, <2>2, LeaveGone, LeaveStep DEF syncVars, timeVars
<1>7. PcInv'
  <2>1. t \notin IdleThreads \cup KThreads
    BY ConstantFacts
  <2> QED
    BY <1>1, <1>3, <2>1 DEF PcInv, InCvWait, syncVars
<1>8. \A n \in MUTEXES : Waiting(n)' = Waiting(n) /\ Waiting(n) \subseteq AllThreads
  BY <1>1, ConstantFacts DEF TypeOK, Waiting, Range, syncVars
<1>9. t \in Waiting(m)
  BY <1>1, <1>5 DEF CurrentInv
<1>10. WaiterInv'
  <2>1. \A u \in AllThreads :
          /\ pc'[u] = "ul_wake" => waiters'[mtx'[u]] # <<>>
          /\ pc'[u] = "sg_wake" => waiters'[wait'[u][1]] # <<>>
    BY <1>1, <1>3 DEF WaiterInv, syncVars
  <2>2. \A n \in MUTEXES : \A u \in Waiting(n)' :
          pc'[u] \in {"lk_sel", "lk_own"} /\ mtx'[u] = n
    BY <1>1, <1>3, <1>8 DEF WaiterInv
  <2> QED
    BY <2>1, <2>2 DEF WaiterInv
<1>11. OwnInv'
  <2>1. ASSUME NEW n \in MUTEXES, NEW u \in AllThreads
        PROVE  Owns(u, n)' <=> Owns(u, n)
    <3>1. CASE u = t
      BY <1>1, <1>3, <1>8, <1>9, <3>1 DEF Owns, syncVars
    <3>2. CASE u # t
      BY <1>1, <1>3, <1>8, <3>2 DEF Owns, syncVars
    <3> QED
      BY <3>1, <3>2
  <2> QED
    BY <1>1, <2>1 DEF OwnInv, syncVars
<1> QED
  BY <1>2, <1>6, <1>7, <1>10, <1>11 DEF MachineInv

\* A waiter for a condition variable selects the next thread and leaves the CPU.
LEMMA CvWaitBlockInv ==
  ASSUME IInv, NEW c \in CPUS, NEW t \in THREADS, CvWaitBlock(c, t)
  PROVE  IInv'
<1> USE DEF IInv
<1>1. PICK q \in CVS, m \in MUTEXES :
      /\ current[c] = t /\ phase[c] = "run" /\ pc[t] = "cw_sel" /\ ret[t] = "run"
      /\ q = wait[t][1] /\ m = wait[t][2]
      /\ t \in AllThreads /\ q \in QUEUES /\ q \in SPLS /\ q \in GUARDS /\ q # TimerLock
      /\ Free(ReadyLock) /\ SelectNext(c, ready) /\ YieldTo(c, q)
      /\ pc' = [pc EXCEPT ![t] = "lk"]
      /\ mtx' = [mtx EXCEPT ![t] = m]
      /\ ret' = [ret EXCEPT ![t] = "run"]
      /\ wait' = [wait EXCEPT ![t] = <<>>]
      /\ UNCHANGED <<spl, status, saved, syncVars, timeVars>>
  <2>1. /\ t \in AllThreads /\ pc[t] = "cw_sel" /\ ret[t] = "run"
        /\ \A q \in CVS : q \in QUEUES /\ q \in SPLS /\ q \in GUARDS /\ q # TimerLock
    BY ConstantFacts DEF CvWaitBlock, At, PcInv
  <2>2. wait[t][1] \in CVS /\ wait[t][2] \in MUTEXES
    BY <2>1 DEF PcInv, InCvWait
  <2> QED
    BY <2>1, <2>2 DEF CvWaitBlock, Call, At
<1>2. TypeOK'
  BY <1>1, BlockFacts DEF TypeOK, Labels, syncVars, timeVars
<1>3. /\ pc'[t] = "lk" /\ ret'[t] = "run" /\ mtx'[t] = m
      /\ \A u \in AllThreads : u # t =>
           /\ pc'[u] = pc[u] /\ ret'[u] = ret[u] /\ mtx'[u] = mtx[u]
           /\ wait'[u] = wait[u]
  BY <1>1 DEF TypeOK
<1>4. InCvWait(t) /\ ~InCvWait(t)' /\ ~Busy(t)'
  BY <1>1, <1>3 DEF Busy, InCvWait
<1>5. MachineInv'
  <2>3. SameGone
    BY <1>1, StatusStep
  <2>1. \A k \in GUARDS : ThreadHolds(t, k) <=> k = q
    BY <1>1, <1>4 DEF ThreadHolds
  <2>2. \A r \in QUEUES : LeavingVia(c, r) <=> r = q
    BY <1>1, <1>4 DEF LeavingVia
  <2> QED
    BY <1>1, <1>3, <1>4, <2>1, <2>2, <2>3, LeaveGone, LeaveStep DEF syncVars, timeVars
<1>6. PcInv'
  <2>1. t \notin IdleThreads \cup KThreads
    BY ConstantFacts
  <2> QED
    BY <1>1, <1>3, <1>4, <2>1 DEF PcInv, InCvWait, syncVars
<1>7. WaiterInv'
  BY <1>1, <1>3, WaiterFrame DEF syncVars
<1>8. OwnInv'
  BY <1>1, <1>3, OwnFrame DEF syncVars
<1> QED
  BY <1>2, <1>5, <1>6, <1>7, <1>8 DEF MachineInv

\* A sleeper selects the next thread and leaves the CPU.
LEMMA SleepBlockInv ==
  ASSUME IInv, NEW c \in CPUS, NEW t \in THREADS, SleepBlock(c, t)
  PROVE  IInv'
<1> USE DEF IInv
<1>1. /\ current[c] = t /\ phase[c] = "run" /\ pc[t] = "sl_sel" /\ ret[t] = "run"
      /\ t \in AllThreads /\ TimerLock \in SPLS /\ TimerLock \in GUARDS /\ TimerLock \notin QUEUES
      /\ Free(ReadyLock) /\ SelectNext(c, ready) /\ YieldTo(c, TimerLock)
      /\ status' = [status EXCEPT ![t] = "SLEEPING"]
      /\ pc' = [pc EXCEPT ![t] = "run"]
      /\ UNCHANGED <<spl, saved, syncVars, mtx, wait, ret, timeVars>>
  BY ConstantFacts DEF SleepBlock, Goto, At, PcInv
<1>2. TypeOK'
  BY <1>1, BlockFacts DEF TypeOK, Labels, Status, syncVars, timeVars
<1>3. /\ pc'[t] = "run" /\ ret'[t] = "run"
      /\ \A u \in AllThreads : u # t =>
           /\ pc'[u] = pc[u] /\ ret'[u] = ret[u] /\ mtx'[u] = mtx[u]
           /\ wait'[u] = wait[u]
  BY <1>1 DEF TypeOK
<1>4. ~InCvWait(t) /\ ~InCvWait(t)' /\ ~Busy(t)'
  BY <1>1, <1>3 DEF Busy, InCvWait
<1>5. MachineInv'
  <2>3. SameGone
    BY <1>1, StatusStep
  <2>1. \A k \in GUARDS : ThreadHolds(t, k) <=> k = TimerLock
    BY <1>1, <1>4 DEF ThreadHolds
  <2>2. \A r \in QUEUES : LeavingVia(c, r) <=> r = TimerLock
    BY <1>1, <1>4 DEF LeavingVia
  <2> QED
    BY <1>1, <1>3, <1>4, <2>1, <2>2, <2>3, LeaveGone, LeaveStep DEF syncVars, timeVars
<1>6. PcInv'
  <2>1. t \notin IdleThreads \cup KThreads
    BY ConstantFacts
  <2> QED
    BY <1>1, <1>3, <1>4, <2>1 DEF PcInv, InCvWait, syncVars
<1>7. WaiterInv'
  BY <1>1, <1>3, WaiterFrame DEF syncVars
<1>8. OwnInv'
  BY <1>1, <1>3, OwnFrame DEF syncVars
<1> QED
  BY <1>2, <1>5, <1>6, <1>7, <1>8 DEF MachineInv

-----------------------------------------------------------------------------
(* The invariant holds in every reachable state *)

\* The boot code establishes the invariant.
LEMMA InitInv ==
  ASSUME Init
  PROVE  IInv
<1>1. /\ InitReady \in Seq(THREADS) /\ IsInjective(InitReady)
      /\ Range(InitReady) \subseteq THREADS /\ 0 \in 0..MaxSleep
  BY ThreadAssumption DEF Range
<1>2. /\ kthread \in [CPUS -> AllThreads]
      /\ \A c \in CPUS : kthread[c] \in KThreads /\ pc[kthread[c]] = "kloop"
      /\ \A c, d \in CPUS : kthread[c] = kthread[d] => c = d
      /\ \A t \in KThreads : \E c \in CPUS : kthread[c] = t
  BY CpuAssumption, ConstantFacts DEF Init, Injection, KThreads, Range
<1>3. \A q \in QUEUES : /\ waiters[q] = <<>> /\ Waiting(q) = {}
                        /\ IsInjective(waiters[q])
  BY DEF Init, Waiting, Range, IsInjective
<1>4. TypeOK
  <2>1. waiters \in [QUEUES -> Seq(THREADS)]
    BY DEF Init
  <2>2. /\ pc \in [AllThreads -> Labels] /\ ret \in [AllThreads -> Labels]
        /\ status \in [AllThreads -> Status] /\ phase \in [CPUS -> Phases]
    BY DEF Init, Labels, Status, Phases
  <2> QED
    BY <1>1, <1>2, <2>1, <2>2 DEF Init, TypeOK
<1>5. \A t \in AllThreads : /\ pc[t] \in {"run", "kloop"} /\ ret[t] = "run"
                            /\ ~Busy(t) /\ ~InCvWait(t)
                            /\ \A l \in GUARDS : ~ThreadHolds(t, l)
  BY DEF Init, Busy, InCvWait, ThreadHolds
<1>6. SpinInv /\ BusyInv
  BY <1>2, <1>5, ConstantFacts DEF Init, SpinInv, BusyInv, Holds
<1>7. PcInv
  BY <1>5, ConstantFacts DEF Init, PcInv, Resumes, Labels
<1>8. CpuInv
  BY <1>2 DEF Init, CpuInv
<1>9. QueueInv
  BY <1>1, <1>3 DEF Init, QueueInv
<1>10. CurrentInv
  <2>1. ASSUME NEW c \in CPUS, NEW q \in QUEUES
        PROVE  ~LeavingVia(c, q)
    BY <1>2, <1>5, ConstantFacts DEF Init, LeavingVia
  <2>2. ASSUME NEW c \in CPUS
        PROVE  current[c] \notin Range(ready) /\ phase[c] = "run"
               /\ pc[current[c]] = "kloop" /\ timers = {}
    BY <1>1, <1>2, ConstantFacts DEF Init
  <2> QED
    BY <1>3, <2>1, <2>2 DEF CurrentInv
<1>15. /\ \A t \in THREADS : ~Off(t) /\ (Dead(t) <=> t \notin Range(InitReady))
       /\ \A c \in CPUS : current[c] \notin THREADS /\ phase[c] = "run"
  BY <1>2, ConstantFacts DEF Init, Dead, Off
<1>16. GoneInv
  BY <1>3, <1>15 DEF Init, GoneInv
<1>11. LinkedInv
  BY <1>15 DEF Init, LinkedInv
<1>12. SavedInv
  <2>1. \A t \in AllThreads : saved[t] <=> t \notin KThreads
    BY DEF Init
  <2> QED
    BY <1>2, <2>1 DEF Init, SavedInv
<1>13. WaiterInv
  BY <1>3, <1>5, ConstantFacts DEF WaiterInv
<1>14. OwnInv
  BY <1>3, <1>5, ConstantFacts DEF Init, OwnInv, Owns
<1> QED
  BY <1>4, <1>6, <1>7, <1>8, <1>9, <1>10, <1>11, <1>12, <1>13, <1>14, <1>16 DEF IInv

\* yield, and the main loop of an idle CPU, give the CPU to the next ready thread.
LEMMA YieldInv ==
  ASSUME IInv, NEW c \in CPUS, NEW t \in THREADS, Yield(c, t)
  PROVE  IInv'
<1>1. /\ current[c] = t /\ phase[c] = "run" /\ ~Busy(t) /\ YieldAny(c, current[c])
      /\ UNCHANGED <<saved, syncVars, pcVars, timeVars>>
  BY ConstantFacts DEF Yield, At, IInv, PcInv, Busy, InCvWait
<1>2. MachineInv' /\ TypeOK'
  BY <1>1, YieldAnyStep
<1>3. PcInv' /\ WaiterInv' /\ OwnInv'
  BY <1>1, ThreadFrame
<1> QED
  BY <1>2, <1>3 DEF IInv, MachineInv

\* Every step of the scheduler and of the timer interrupt keeps the invariant.
LEMMA HandlerInv ==
  ASSUME IInv, NEW c \in CPUS, HandlerStep(c) \/ Tick(c)
  PROVE  IInv'
<1>1. MachineInv' /\ TypeOK'
  <2>1. CASE SwitchTo(c)
    BY <2>1, SwitchToStep
  <2>2. CASE SwitchDone(c)
    BY <2>2, SwitchDoneStep
  <2>3. CASE KernelLoop(c)
    <3>1. /\ phase[c] = "run" /\ ~Busy(current[c]) /\ YieldAny(c, current[c])
          /\ UNCHANGED <<saved, syncVars, pcVars, timeVars>>
      BY <2>3, ConstantFacts DEF KernelLoop, At, IInv, PcInv, Busy, InCvWait
    <3> QED
      BY <3>1, YieldAnyStep
  <2>4. CASE CheckTimers(c)
    BY <2>4, CheckTimersStep
  <2>5. CASE TimersDone(c)
    BY <2>5, TimersDoneStep
  <2>6. CASE Preempt(c)
    <3>1. /\ phase[c] = "preempt" /\ YieldAny(c, current[c])
          /\ UNCHANGED <<saved, syncVars, pcVars, timeVars>>
      BY <2>6 DEF Preempt
    <3>2. ~Busy(current[c])
      BY <3>1 DEF IInv, BusyInv, CpuInv, TypeOK
    <3> QED
      BY <3>1, <3>2, YieldAnyStep
  <2>7. CASE \E t \in THREADS : TimerExpire(c, t)
    BY <2>7, TimerExpireStep
  <2>8. CASE Tick(c)
    BY <2>8, TickStep
  <2> QED
    BY <2>1, <2>2, <2>3, <2>4, <2>5, <2>6, <2>7, <2>8 DEF HandlerStep
<1>2. UNCHANGED <<syncVars, pcVars>>
  BY DEF HandlerStep, SwitchTo, SwitchDone, KernelLoop, CheckTimers, TimersDone,
         Preempt, TimerExpire, Tick
<1>3. PcInv' /\ WaiterInv' /\ OwnInv'
  BY <1>2, ThreadFrame
<1> QED
  BY <1>1, <1>3 DEF IInv, MachineInv

\* No step of the scheduler creates or ends a thread or changes whether it is
\* descheduled.
LEMMA StepGone ==
  ASSUME IInv, NEW c \in CPUS,
         \/ HandlerStep(c) \/ Tick(c) \/ MutexStep(c, kthread[c])
         \/ \E t \in THREADS : BlockStep(c, t) \/ CallStep(c, t)
  PROVE  SameGone
<1>1. ASSUME UNCHANGED status
      PROVE  SameGone
  BY <1>1 DEF SameGone, Dead, Off
<1>2. ASSUME HandlerStep(c) \/ Tick(c)
      PROVE  SameGone
  <2>1. CASE SwitchTo(c)
    BY <2>1, SwitchToStep
  <2>2. CASE SwitchDone(c) \/ CheckTimers(c) \/ TimersDone(c) \/ Tick(c)
    BY <1>1, <2>2 DEF SwitchDone, CheckTimers, TimersDone, Tick, runVars
  <2>3. CASE KernelLoop(c)
    <3>1. /\ phase[c] = "run" /\ ~Busy(current[c]) /\ YieldAny(c, current[c])
          /\ UNCHANGED <<saved, syncVars, pcVars, timeVars>>
      BY <2>3, ConstantFacts DEF KernelLoop, At, IInv, PcInv, Busy, InCvWait
    <3> QED
      BY <3>1, YieldAnyStep
  <2>4. CASE Preempt(c)
    <3>1. /\ phase[c] = "preempt" /\ YieldAny(c, current[c])
          /\ UNCHANGED <<saved, syncVars, pcVars, timeVars>>
      BY <2>4 DEF Preempt
    <3>2. ~Busy(current[c])
      BY <3>1 DEF IInv, BusyInv, CpuInv, TypeOK
    <3> QED
      BY <3>1, <3>2, YieldAnyStep
  <2>5. CASE \E t \in THREADS : TimerExpire(c, t)
    BY <2>5, TimerExpireStep
  <2> QED
    BY <1>2, <2>1, <2>2, <2>3, <2>4, <2>5 DEF HandlerStep
<1>3. ASSUME NEW t \in THREADS, MutexLockQueue(c, t) \/ CvWait(c, t) \/ SleepBlock(c, t)
      PROVE  SameGone
  <2>1. /\ current[c] = t /\ phase[c] = "run"
        /\ \E s \in {"RUNNING", "READY", "BLOCKED", "SLEEPING"} :
             status' = [status EXCEPT ![t] = s]
    BY <1>3 DEF MutexLockQueue, CvWait, SleepBlock, At
  <2> QED
    BY <2>1, StatusStep
<1>4. ASSUME NEW t \in THREADS \cup KThreads,
             MutexLockFree(c, t) \/ MutexLockBlock(c, t) \/ MutexLockOwn(c, t)
               \/ MutexUnlockFree(c, t) \/ MutexUnlockPass(c, t)
               \/ CvWaitBlock(c, t) \/ Lock(c, t) \/ Unlock(c, t)
               \/ CvSignal(c, t) \/ Sleep(c, t)
      PROVE  SameGone
  BY <1>1, <1>4 DEF MutexLockFree, MutexLockBlock, MutexLockOwn, MutexUnlockFree,
     MutexUnlockPass, CvWaitBlock, Lock, Unlock, CvSignal, Sleep, runVars
<1>5. ASSUME NEW t \in THREADS \cup KThreads, MutexUnlockWake(c, t)
      PROVE  SameGone
  <2>1. mtx[t] \in QUEUES /\ waiters[mtx[t]] # <<>> /\ WakeHead(mtx[t])
    BY <1>5, ConstantFacts DEF MutexUnlockWake, At, IInv, PcInv, WaiterInv
  <2> QED
    BY <2>1, WakeGone
<1>6. ASSUME NEW t \in THREADS, CvSignalWake(c, t)
      PROVE  SameGone
  <2>1. /\ t \in AllThreads /\ pc[t] = "sg_wake"
        /\ \A q \in CVS : q \in QUEUES
    BY <1>6, ConstantFacts DEF CvSignalWake, At
  <2>2. wait[t][1] \in CVS /\ waiters[wait[t][1]] # <<>> /\ WakeHead(wait[t][1])
    BY <1>6, <2>1 DEF CvSignalWake, IInv, PcInv, WaiterInv
  <2> QED
    BY <2>1, <2>2, WakeGone
<1>7. ASSUME NEW t \in THREADS, Yield(c, t)
      PROVE  SameGone
  <2>1. /\ current[c] = t /\ phase[c] = "run" /\ ~Busy(t) /\ YieldAny(c, current[c])
        /\ UNCHANGED <<saved, syncVars, pcVars, timeVars>>
    BY <1>7, ConstantFacts DEF Yield, At, IInv, PcInv, Busy, InCvWait
  <2> QED
    BY <2>1, YieldAnyStep
<1>8. ASSUME MutexStep(c, kthread[c])
      PROVE  SameGone
  <2>1. kthread[c] \in KThreads /\ ~MutexLockQueue(c, kthread[c])
    BY ConstantFacts DEF MutexLockQueue, At, IInv, PcInv
  <2> QED
    BY <1>4, <1>5, <1>8, <2>1 DEF MutexStep
<1> QED
  BY <1>2, <1>3, <1>4, <1>5, <1>6, <1>7, <1>8 DEF BlockStep, CallStep, MutexStep

\* Every step of the system keeps the invariant.
LEMMA NextInv ==
  ASSUME IInv, [Next]_vars
  PROVE  IInv'
<1>1. CASE UNCHANGED vars
  <2>1. /\ UNCHANGED <<spl, current, phase, next, rel, ready, status, saved>>
        /\ UNCHANGED <<locked, waiters, held, pc, mtx, wait, ret, timers, due>>
    BY <1>1 DEF vars, cpuVars, runVars, syncVars, pcVars, timeVars
  <2>2. /\ \A q : Waiting(q)' = Waiting(q)
        /\ \A c, q : LeavingVia(c, q)' <=> LeavingVia(c, q)
        /\ \A c, l : Holds(c, l)' <=> Holds(c, l)
        /\ \A t : (Busy(t)' <=> Busy(t)) /\ (InCvWait(t)' <=> InCvWait(t))
        /\ \A t, m : Owns(t, m)' <=> Owns(t, m)
    BY <2>1 DEF Waiting, LeavingVia, Holds, ThreadHolds, Busy, InCvWait, Owns
  <2>3. TypeOK' /\ SpinInv' /\ BusyInv' /\ CpuInv' /\ SavedInv'
    BY <2>1, <2>2 DEF IInv, TypeOK, SpinInv, BusyInv, CpuInv, SavedInv, Dead
  <2>4. PcInv' /\ WaiterInv' /\ OwnInv'
    BY <1>1, ThreadFrame DEF vars
  <2>5. QueueInv' /\ CurrentInv'
    BY <2>1, <2>2 DEF IInv, QueueInv, CurrentInv
  <2>6. GoneInv' /\ LinkedInv'
    BY <2>1, GoneFrame DEF SameGone, Dead, Off, cpuVars
  <2> QED
    BY <2>3, <2>4, <2>5, <2>6 DEF IInv
<1>2. ASSUME NEW c \in CPUS, HandlerStep(c) \/ Tick(c)
      PROVE  IInv'
  BY <1>2, HandlerInv
<1>3. ASSUME NEW c \in CPUS, NEW t \in THREADS, BlockStep(c, t)
      PROVE  IInv'
  BY <1>3, ConstantFacts, MutexLockFreeInv, MutexLockQueueInv, MutexLockBlockInv,
     MutexLockOwnInv, MutexUnlockFreeInv, MutexUnlockPassInv,
     MutexUnlockWakeInv, CvWaitBlockInv, CvSignalWakeInv, SleepBlockInv
     DEF BlockStep, MutexStep
<1>4. ASSUME NEW c \in CPUS, NEW t \in THREADS, CallStep(c, t)
      PROVE  IInv'
  BY <1>4, LockInv, UnlockInv, CvWaitInv, CvSignalInv, YieldInv, SleepInv
     DEF CallStep
<1> QED
  BY <1>1, <1>2, <1>3, <1>4 DEF Next

\* In every reachable state the spinlocks, CPUs, queues, control points and
\* mutex owners agree as IInv says.
THEOREM Invariance == Spec => []IInv
<1>1. Init => IInv
  BY InitInv
<1>2. IInv /\ [Next]_vars => IInv'
  BY NextInv
<1> QED
  BY <1>1, <1>2, PTL DEF Spec

\* Every variable of the scheduler keeps its type: in particular an idle thread
\* or a kthread never enters the ready queue or a wait queue.
THEOREM TypeCorrect == Spec => []TypeOK
<1>1. IInv => TypeOK
  BY DEF IInv
<1> QED
  BY <1>1, Invariance, PTL

LEMMA SavedFacts == IInv => SavedBeforeSwitch
<1> SUFFICES ASSUME IInv, NEW c \in CPUS, phase[c] = "switch", next[c] # current[c]
             PROVE  saved[next[c]]
  BY DEF SavedBeforeSwitch
<1>1. next[c] \in AllThreads /\ \A d \in CPUS : current[d] # next[c]
  BY DEF IInv, CpuInv, TypeOK
<1>2. next[c] \in THREADS => ~Dead(next[c])
  BY DEF IInv, GoneInv
<1> QED
  BY <1>1, <1>2 DEF IInv, SavedInv

\* No CPU ever loads the context of a thread that has not saved it: nobody
\* switches to a thread that is still on its way off another CPU.
THEOREM SavedContext == Spec => []SavedBeforeSwitch
BY SavedFacts, Invariance, PTL

LEMMA OwnershipFacts == IInv => Ownership
<1> SUFFICES ASSUME IInv
             PROVE  Ownership
  OBVIOUS
<1>1. ASSUME NEW m \in MUTEXES
      PROVE  Owners(m) = {t \in AllThreads : Owns(t, m)}
  BY DEF Owners, Owns, Waiting
<1> QED
  BY <1>1 DEF IInv, OwnInv, Ownership

\* A locked mutex has exactly one owner, a free one has neither owner nor
\* waiter.
THEOREM MutualExclusion == Spec => []Ownership
BY OwnershipFacts, Invariance, PTL

\* A CPU that spins for a guard holds no spinlock that comes after it in the
\* order: condition variable, mutex, ready_lock; timer_lock, ready_lock.
LEMMA WantedFacts ==
  ASSUME IInv, NEW e \in CPUS, Wanted(e) # None
  PROVE  /\ ~Holds(e, ReadyLock)
         /\ Wanted(e) \in GUARDS
         /\ Wanted(e) \in MUTEXES => \A l \in GUARDS : Holds(e, l) => l \in CVS
         /\ Wanted(e) = TimerLock => \A l \in GUARDS : ~Holds(e, l)
         /\ Wanted(e) \in MUTEXES \cup {TimerLock, ReadyLock}
<1>1. /\ current[e] \in AllThreads
      /\ ReadyLock \notin MUTEXES \cup CVS /\ TimerLock \notin MUTEXES \cup CVS
  BY ConstantFacts DEF IInv, TypeOK
<1> QED
  BY <1>1, ConstantFacts
     DEF IInv, PcInv, TypeOK, Wanted, Holds, ThreadHolds, InCvWait

\* No two CPUs ever spin for each other's spinlock, and none for its own.
THEOREM SpinlockOrder == Spec => []NoSpinDeadlock
<1>1. ASSUME IInv
      PROVE  NoSpinDeadlock
  <2> SUFFICES ASSUME NEW c \in CPUS, NEW d \in CPUS,
                      Wanted(c) # None, spl[Wanted(c)] = d, Wanted(d) # None,
                      spl[Wanted(d)] = c
               PROVE  FALSE
    BY DEF NoSpinDeadlock
  <2>1. /\ ReadyLock \notin MUTEXES \cup CVS /\ TimerLock \notin MUTEXES \cup CVS
        /\ MUTEXES \cap CVS = {} /\ ReadyLock # TimerLock
    BY ConstantFacts
  <2>2. Holds(d, Wanted(c)) /\ Holds(c, Wanted(d))
    BY <1>1, WantedFacts DEF IInv, SpinInv
  <2> QED
    BY <1>1, <2>1, <2>2, WantedFacts
<1> QED
  BY <1>1, Invariance, PTL

-----------------------------------------------------------------------------
(* No thread is lost and none is run twice *)

\* Places, element by element.
LEMMA PlaceKinds ==
  ASSUME NEW t, NEW z
  PROVE  z \in Places(t) <=>
           \/ \E c \in CPUS : z = <<"cpu", c>> /\ current[c] = t /\ ~Leaving(c)
           \/ \E c \in CPUS :
                z = <<"next", c>> /\ phase[c] = "switch" /\ next[c] = t
           \/ \E i \in DOMAIN ready : z = <<"ready", i>> /\ ready[i] = t
           \/ \E q \in QUEUES : \E i \in DOMAIN waiters[q] :
                z = <<q, i>> /\ waiters[q][i] = t
           \/ z = <<"timer", 0>> /\ t \in timers
<1> DEFINE
  A == {<<"cpu", c>> : c \in {d \in CPUS : current[d] = t /\ ~Leaving(d)}}
  B == {<<"next", c>> : c \in {d \in CPUS : phase[d] = "switch" /\ next[d] = t}}
  C == {<<"ready", i>> : i \in {j \in DOMAIN ready : ready[j] = t}}
  D(q) == {<<q, i>> : i \in {j \in DOMAIN waiters[q] : waiters[q][j] = t}}
  E == UNION {{<<q, i>> : i \in {j \in DOMAIN waiters[q] : waiters[q][j] = t}} :
                q \in QUEUES}
  F == IF t \in timers THEN {<<"timer", 0>>} ELSE {}
<1>1. z \in A <=> \E c \in CPUS :
                   z = <<"cpu", c>> /\ current[c] = t /\ ~Leaving(c)
  BY Zenon
<1>2. z \in B <=> \E c \in CPUS :
                   z = <<"next", c>> /\ phase[c] = "switch" /\ next[c] = t
  BY Zenon
<1>3. z \in C <=> \E i \in DOMAIN ready : z = <<"ready", i>> /\ ready[i] = t
  BY Zenon
<1>4. z \in E <=> \E q \in QUEUES : \E i \in DOMAIN waiters[q] :
                   z = <<q, i>> /\ waiters[q][i] = t
  <2>1. \A q : z \in D(q) <=> \E i \in DOMAIN waiters[q] :
                               z = <<q, i>> /\ waiters[q][i] = t
    BY Zenon
  <2>2. z \in E <=> \E q \in QUEUES : z \in D(q)
    BY Zenon
  <2> QED
    BY <2>1, <2>2
<1>5. z \in F <=> z = <<"timer", 0>> /\ t \in timers
  OBVIOUS
<1>6. z \in Places(t) <=> z \in A \cup B \cup C \cup E \cup F
  BY DEF Places
<1> HIDE DEF A, B, C, E, F
<1> QED
  BY <1>1, <1>2, <1>3, <1>4, <1>5, <1>6

\* A thread that exists and is not descheduled is in one place at least.
LEMMA SomePlace ==
  ASSUME IInv, NEW t \in THREADS, ~Dead(t), ~Off(t)
  PROVE  Places(t) # {}
<1> USE DEF IInv
<1>1. CASE t \in Range(ready)
  <2>1. PICK i \in DOMAIN ready : ready[i] = t
    BY <1>1 DEF Range
  <2> QED
    BY <2>1, PlaceKinds
<1>2. CASE t \in timers
  BY <1>2, PlaceKinds
<1>3. ASSUME NEW q \in QUEUES, t \in Waiting(q)
      PROVE  Places(t) # {}
  <2>1. PICK i \in DOMAIN waiters[q] : waiters[q][i] = t
    BY <1>3 DEF Waiting, Range
  <2>2. <<q, i>> \in Places(t)
    BY <2>1, PlaceKinds
  <2> QED
    BY <2>2
<1>4. ASSUME NEW c \in CPUS, phase[c] = "switch", next[c] = t
      PROVE  Places(t) # {}
  BY <1>4, PlaceKinds
<1>5. ASSUME NEW c \in CPUS, current[c] = t, ~Leaving(c)
      PROVE  Places(t) # {}
  BY <1>5, PlaceKinds
<1>6. ASSUME NEW c \in CPUS, current[c] = t, Leaving(c)
      PROVE  \/ t \in Range(ready) \cup timers
             \/ \E q \in QUEUES : t \in Waiting(q)
             \/ phase[c] = "switch" /\ next[c] = t
  <2>2. CASE phase[c] = "switch"
    <3>1. rel[c] \in QUEUES \cup {ReadyLock, TimerLock}
      BY <1>6, <2>2 DEF CpuInv, GoneInv, GUARDS
    <3> QED
      BY <1>6, <2>2, <3>1 DEF CurrentInv, LeavingVia
  <2>3. CASE phase[c] = "run" /\ pc[t] = "sl_sel"
    BY <1>6, <2>3 DEF CurrentInv
  <2>4. CASE phase[c] = "run" /\ pc[t] = "lk_sel"
    <3>1. mtx[t] \in QUEUES
      BY <2>4, ConstantFacts DEF PcInv
    <3> QED
      BY <1>6, <2>4, <3>1 DEF CurrentInv, LeavingVia
  <2>5. CASE phase[c] = "run" /\ InCvWait(t)
    <3>1. wait[t] \in CVS \X MUTEXES
      BY <2>5, ConstantFacts DEF PcInv
    <3>2. wait[t][1] \in QUEUES
      BY <3>1, ConstantFacts
    <3> QED
      BY <1>6, <2>5, <3>2 DEF CurrentInv, LeavingVia
  <2> QED
    BY <1>6, <2>2, <2>3, <2>4, <2>5 DEF Leaving, InCvWait
<1> QED
  BY <1>1, <1>2, <1>3, <1>4, <1>5, <1>6 DEF LinkedInv

\* A thread is in one place at most.
LEMMA NotTwoPlaces ==
  ASSUME IInv, NEW t \in THREADS, NEW x \in Places(t), NEW y \in Places(t)
  PROVE  x = y
<1> USE DEF IInv
<1> DEFINE
  OnCpu(z, c) == z = <<"cpu", c>> /\ current[c] = t /\ ~Leaving(c)
  Chosen(z, c) == z = <<"next", c>> /\ phase[c] = "switch" /\ next[c] = t
  Ready(z, i) == z = <<"ready", i>> /\ ready[i] = t
  Waits(z, q, i) == z = <<q, i>> /\ waiters[q][i] = t
  Kinds(z) ==
    \/ \E c \in CPUS : OnCpu(z, c)
    \/ \E c \in CPUS : Chosen(z, c)
    \/ \E i \in DOMAIN ready : Ready(z, i)
    \/ \E q \in QUEUES : \E i \in DOMAIN waiters[q] : Waits(z, q, i)
    \/ z = <<"timer", 0>> /\ t \in timers
<1>1. ASSUME NEW z \in Places(t)
      PROVE  Kinds(z)
  BY <1>1, PlaceKinds
<1>2. \A c \in CPUS : current[c] = t /\ ~Leaving(c) =>
        /\ t \notin Range(ready) /\ t \notin timers
        /\ \A q \in QUEUES : t \notin Waiting(q)
        /\ \A d \in CPUS : current[d] = t => d = c
        /\ \A d \in CPUS : phase[d] = "switch" => next[d] # t
  <2> SUFFICES ASSUME NEW c \in CPUS, current[c] = t, ~Leaving(c)
               PROVE  /\ t \notin Range(ready) /\ t \notin timers
                      /\ \A q \in QUEUES : t \notin Waiting(q)
                      /\ \A d \in CPUS : current[d] = t => d = c
                      /\ \A d \in CPUS : phase[d] = "switch" => next[d] # t
    OBVIOUS
  <2>1. phase[c] # "switch"
    BY DEF Leaving
  <2>2. phase[c] = "run" => pc[t] \notin {"lk_sel", "sl_sel"} /\ ~InCvWait(t)
    <3>1. ret[t] = "cw_sel" => pc[t] \in {"ul", "ul_wake"}
      BY ConstantFacts DEF PcInv
    <3> QED
      BY <3>1 DEF Leaving, InCvWait
  <2>3. t \notin Range(ready) /\ t \notin timers
    BY <2>1, <2>2 DEF CurrentInv
  <2>4. \A q \in QUEUES : t \notin Waiting(q)
    BY <2>1, <2>2 DEF CurrentInv, LeavingVia
  <2>5. /\ \A d \in CPUS : current[d] = t => d = c
        /\ \A d \in CPUS : phase[d] = "switch" => next[d] # t
    BY <2>1 DEF CpuInv
  <2> QED
    BY <2>3, <2>4, <2>5
<1>3. \A c \in CPUS : phase[c] = "switch" /\ next[c] = t =>
        /\ t \notin Range(ready) /\ t \notin timers
        /\ \A q \in QUEUES : t \notin Waiting(q)
        /\ \A d \in CPUS : phase[d] = "switch" /\ next[d] = t => d = c
  BY DEF CpuInv, QueueInv
<1>4. \A i \in DOMAIN ready : ready[i] = t =>
        /\ t \in Range(ready) /\ t \notin timers
        /\ \A q \in QUEUES : t \notin Waiting(q)
        /\ \A j \in DOMAIN ready : ready[j] = t => i = j
  BY DEF QueueInv, Range, IsInjective
<1>5. \A q \in QUEUES : \A i \in DOMAIN waiters[q] : waiters[q][i] = t =>
        /\ t \in Waiting(q) /\ t \notin timers
        /\ \A r \in QUEUES : t \in Waiting(r) => r = q
        /\ \A j \in DOMAIN waiters[q] : waiters[q][j] = t => i = j
  <2> SUFFICES ASSUME NEW q \in QUEUES, NEW i \in DOMAIN waiters[q],
                      waiters[q][i] = t
               PROVE  /\ t \in Waiting(q) /\ t \notin timers
                      /\ \A r \in QUEUES : t \in Waiting(r) => r = q
                      /\ \A j \in DOMAIN waiters[q] : waiters[q][j] = t => i = j
    OBVIOUS
  <2>1. t \in Waiting(q)
    BY DEF Waiting, Range
  <2>2. t \notin timers /\ \A r \in QUEUES : t \in Waiting(r) => r = q
    BY <2>1 DEF QueueInv
  <2>3. \A j \in DOMAIN waiters[q] : waiters[q][j] = t => i = j
    BY DEF QueueInv, IsInjective
  <2> QED
    BY <2>1, <2>2, <2>3
<1>6. Kinds(x) /\ Kinds(y)
  BY <1>1
<1>7. CASE \E c \in CPUS : OnCpu(x, c)
  BY <1>7, <1>6, <1>2, <1>4, <1>5
<1>8. CASE \E c \in CPUS : Chosen(x, c)
  BY <1>8, <1>6, <1>2, <1>3, <1>4, <1>5
<1>9. CASE \E i \in DOMAIN ready : Ready(x, i)
  BY <1>9, <1>6, <1>2, <1>3, <1>4, <1>5
<1>10. CASE \E q \in QUEUES : \E i \in DOMAIN waiters[q] : Waits(x, q, i)
  BY <1>10, <1>6, <1>2, <1>3, <1>4, <1>5
<1>11. CASE x = <<"timer", 0>> /\ t \in timers
  BY <1>11, <1>6, <1>2, <1>3, <1>4, <1>5
<1> QED
  BY <1>6, <1>7, <1>8, <1>9, <1>10, <1>11

\* A thread that is dead or descheduled is in none.
LEMMA NoPlace ==
  ASSUME IInv, NEW t \in THREADS, Dead(t) \/ Off(t)
  PROVE  Places(t) = {}
<1>1. /\ t \notin Range(ready) /\ t \notin timers
      /\ \A q \in QUEUES : t \notin Waiting(q)
      /\ \A c \in CPUS : phase[c] = "switch" => next[c] # t
      /\ \A c \in CPUS : current[c] = t => phase[c] = "switch"
  BY DEF IInv, GoneInv
<1>2. /\ \A i \in DOMAIN ready : ready[i] # t
      /\ \A q \in QUEUES : \A i \in DOMAIN waiters[q] : waiters[q][i] # t
      /\ \A c \in CPUS : current[c] = t => Leaving(c)
  BY <1>1 DEF Waiting, Range, Leaving
<1>3. \A z : z \notin Places(t)
  BY <1>1, <1>2, PlaceKinds
<1> QED
  BY <1>3

\* Any other thread is in exactly one place.
LEMMA OnePlaceEach ==
  ASSUME IInv, NEW t \in THREADS
  PROVE  Cardinality(Places(t)) = IF Dead(t) \/ Off(t) THEN 0 ELSE 1
<1>1. CASE ~Dead(t) /\ ~Off(t)
  <2>1. PICK x : x \in Places(t)
    BY <1>1, SomePlace
  <2>2. Places(t) = {x}
    BY <2>1, NotTwoPlaces
  <2> QED
    BY <1>1, <2>2, FS_Singleton
<1>2. CASE Dead(t) \/ Off(t)
  BY <1>2, NoPlace, FS_EmptySet
<1> QED
  BY <1>1, <1>2

\* The scheduler alone never ends a thread.
StartedInv == \A t \in Range(InitReady) : t \in THREADS /\ ~Dead(t) /\ ~Off(t)

LEMMA Started == Spec => []StartedInv
<1>1. Init => StartedInv
  BY ThreadAssumption, ConstantFacts DEF Init, StartedInv, Dead, Off, Range
<1>2. ASSUME IInv, StartedInv, [Next]_vars
      PROVE  StartedInv'
  <2>1. SameGone
    BY <1>2, StepGone DEF Next, vars, runVars, SameGone, Dead, Off
  <2> QED
    BY <1>2, <2>1 DEF StartedInv, SameGone
<1> QED
  BY <1>1, <1>2, Invariance, PTL DEF Spec

\* Each started thread is, at any time, on one CPU, chosen by one CPU or linked
\* once into one queue: none is lost, and none is queued or run twice.
THEOREM NoThreadLost == Spec => []OnePlace
<1>1. ASSUME IInv, StartedInv
      PROVE  OnePlace
  BY <1>1, OnePlaceEach DEF OnePlace, StartedInv
<1> QED
  BY <1>1, Invariance, Started, PTL

-----------------------------------------------------------------------------
(* LockingInv: mutex_lock is not called for a mutex the thread holds *)

\* The threads inside mutex operations name the mutex they mean.
LEMMA LockingStep ==
  ASSUME IInv, LockingInv, [Next]_vars
  PROVE  LockingInv'
<1> USE DEF LockingInv
<1>1. CASE UNCHANGED <<pcVars, held>>
  BY <1>1 DEF pcVars
<1>2. CASE UNCHANGED vars
  BY <1>1, <1>2 DEF vars, syncVars
<1>3. ASSUME NEW c \in CPUS, HandlerStep(c) \/ Tick(c)
      PROVE  LockingInv'
  <2>1. UNCHANGED <<syncVars, pcVars>>
    BY <1>3 DEF HandlerStep, SwitchTo, SwitchDone, KernelLoop, CheckTimers,
                TimersDone, Preempt, TimerExpire, Tick
  <2> QED
    BY <1>1, <2>1 DEF syncVars
<1>4. ASSUME NEW c \in CPUS, NEW t \in THREADS, BlockStep(c, t) \/ CallStep(c, t)
      PROVE  LockingInv'
  <2>1. /\ t \in AllThreads /\ pc \in [AllThreads -> Labels]
        /\ held \in [AllThreads -> SUBSET MUTEXES] /\ ret \in [AllThreads -> Labels]
        /\ mtx \in [AllThreads -> MUTEXES \cup {None}]
        /\ wait \in [AllThreads -> {<<>>} \cup {<<q>> : q \in CVS} \cup (CVS \X MUTEXES)]
        /\ ret[t] # "lk"
        /\ ret[t] = "cw_sel" => pc[t] \in {"ul", "ul_wake"}
    <3>1. t \in AllThreads
      BY ConstantFacts
    <3>2. ret[t] # "lk"
      BY <3>1, ResumeFacts
    <3>3. ret[t] = "cw_sel" => pc[t] \in {"ul", "ul_wake"}
      BY <3>1 DEF IInv, PcInv
    <3> QED
      BY <3>1, <3>2, <3>3 DEF IInv, TypeOK
  <2>2. CASE Lock(c, t)
    <3>1. PICK m \in MUTEXES : held[t] \subseteq Below[m] /\ Call(t, "lk", m, "run")
      BY <2>2 DEF Lock
    <3>2. m \notin held[t]
      BY <3>1, OrderAssumption
    <3> QED
      BY <2>1, <2>2, <3>1, <3>2 DEF Lock, Call, syncVars
  <2>3. CASE Unlock(c, t)
    BY <2>1, <2>3 DEF Unlock, Call, syncVars
  <2>4. CASE CvWait(c, t)
    BY <2>1, <2>4 DEF CvWait, Call
  <2>5. CASE CvSignal(c, t)
    BY <2>1, <2>5 DEF CvSignal, Goto, At, syncVars
  <2>6. CASE Yield(c, t)
    BY <1>1, <2>6 DEF Yield, syncVars
  <2>7. CASE Sleep(c, t)
    BY <2>1, <2>7 DEF Sleep, Goto, At, syncVars
  <2>8. CASE MutexLockFree(c, t)
    BY <2>1, <2>8 DEF MutexLockFree, Return, At
  <2>9. CASE MutexLockQueue(c, t)
    BY <2>1, <2>9 DEF MutexLockQueue, Goto, At
  <2>10. CASE MutexLockBlock(c, t)
    BY <2>1, <2>10 DEF MutexLockBlock, Goto, At, syncVars
  <2>11. CASE MutexLockOwn(c, t)
    BY <2>1, <2>11 DEF MutexLockOwn, Return, At
  <2>12. CASE MutexUnlockFree(c, t)
    BY <2>1, <2>12 DEF MutexUnlockFree, Return, At
  <2>13. CASE MutexUnlockPass(c, t)
    BY <2>1, <2>13 DEF MutexUnlockPass, Goto, At, syncVars
  <2>14. CASE MutexUnlockWake(c, t)
    BY <2>1, <2>14 DEF MutexUnlockWake, Return, At
  <2>15. CASE CvWaitBlock(c, t)
    BY <2>1, <2>15 DEF CvWaitBlock, Call, At, syncVars
  <2>16. CASE CvSignalWake(c, t)
    BY <2>1, <2>16 DEF CvSignalWake, Goto, At
  <2>17. CASE SleepBlock(c, t)
    BY <2>1, <2>17 DEF SleepBlock, Goto, At, syncVars
  <2> QED
    BY <1>4, <2>2, <2>3, <2>4, <2>5, <2>6, <2>7, <2>8, <2>9, <2>10, <2>11,
       <2>12, <2>13, <2>14, <2>15, <2>16, <2>17 DEF BlockStep, CallStep, MutexStep
<1> QED
  BY <1>2, <1>3, <1>4 DEF Next

-----------------------------------------------------------------------------
(* The mutexes implement the monitors of KMonitor *)

\* A monitor's owner is the one thread that owns the mutex.
OwnerNamed ==
  \A m \in MUTEXES :
    /\ \A t \in AllThreads : Owns(t, m) => MonitorOwner[m] = t
    /\ locked[m] => MonitorOwner[m] \in AllThreads /\ Owns(MonitorOwner[m], m)
    /\ locked[m] <=> MonitorOwner[m] # None
    /\ ~locked[m] => waiters[m] = <<>>

\* The owner a monitor shows is the one thread of OwnInv.
LEMMA OwnerFacts == IInv => OwnerNamed
<1> SUFFICES ASSUME IInv, NEW m \in MUTEXES
             PROVE  /\ \A t \in AllThreads : Owns(t, m) => MonitorOwner[m] = t
                    /\ locked[m] => /\ MonitorOwner[m] \in AllThreads
                                    /\ Owns(MonitorOwner[m], m)
                    /\ locked[m] <=> MonitorOwner[m] # None
                    /\ ~locked[m] => waiters[m] = <<>>
  BY DEF OwnerNamed
<1>1. \A t \in AllThreads : t \in Owners(m) <=> Owns(t, m)
  BY DEF Owners, Owns, Waiting
<1>2. /\ ~locked[m] => waiters[m] = <<>> /\ \A t \in AllThreads : ~Owns(t, m)
      /\ locked[m] => \E t \in AllThreads : Owns(t, m)
      /\ \A t, u \in AllThreads : Owns(t, m) /\ Owns(u, m) => t = u
  BY DEF IInv, OwnInv
<1>3. None \notin AllThreads
  BY CpuAssumption DEF SPLS
<1>4. CASE locked[m]
  <2>1. PICK t \in AllThreads : Owns(t, m)
    BY <1>2, <1>4
  <2>2. \A u \in AllThreads : u \in Owners(m) <=> u = t
    BY <1>1, <1>2, <2>1
  <2>3. MonitorOwner[m] = t
    BY <1>4, <2>1, <2>2 DEF MonitorOwner
  <2> QED
    BY <1>2, <1>3, <1>4, <2>1, <2>3
<1>5. CASE ~locked[m]
  BY <1>2, <1>5 DEF MonitorOwner
<1> QED
  BY <1>4, <1>5

\* The same in the next state.
LEMMA OwnerPrime == IInv' => OwnerNamed'
BY OwnerFacts, PTL

\* A mutex whose owner still owns it and whose waiters still wait looks as before.
LEMMA OwnerKept ==
  ASSUME IInv, IInv', NEW m \in MUTEXES, locked'[m] = locked[m],
         waiters'[m] = waiters[m],
         \A t \in AllThreads : Owns(t, m) => Owns(t, m)'
  PROVE  MonitorOwner'[m] = MonitorOwner[m] /\ MonitorQueue'[m] = MonitorQueue[m]
<1>1. OwnerNamed /\ OwnerNamed'
  BY OwnerFacts, OwnerPrime
<1>2. CASE locked[m]
  <2>1. PICK t \in AllThreads : t = MonitorOwner[m] /\ Owns(t, m)
    BY <1>1, <1>2 DEF OwnerNamed
  <2>2. Owns(t, m)'
    BY <2>1
  <2>3. MonitorOwner'[m] = t
    BY <1>1, <2>2 DEF OwnerNamed
  <2> QED
    BY <2>1, <2>3 DEF MonitorQueue
<1>3. CASE ~locked[m]
  BY <1>3 DEF MonitorOwner, MonitorQueue
<1> QED
  BY <1>2, <1>3

\* All mutexes look as before: no step of a monitor.
LEMMA MonitorStutter ==
  ASSUME IInv, IInv', UNCHANGED locked,
         \A m \in MUTEXES : waiters'[m] = waiters[m],
         \A m \in MUTEXES : \A t \in AllThreads : Owns(t, m) => Owns(t, m)'
  PROVE  UNCHANGED <<MonitorOwner, MonitorQueue>>
<1>1. \A m \in MUTEXES : MonitorOwner'[m] = MonitorOwner[m]
                         /\ MonitorQueue'[m] = MonitorQueue[m]
  BY OwnerKept
<1> QED
  BY <1>1 DEF MonitorOwner, MonitorQueue

\* All mutexes but m look as before.
LEMMA MonitorExcept ==
  ASSUME IInv, IInv', NEW m \in MUTEXES, NEW x, NEW s,
         MonitorOwner'[m] = x, waiters'[m] = s,
         \A n \in MUTEXES \ {m} :
           /\ locked'[n] = locked[n] /\ waiters'[n] = waiters[n]
           /\ \A t \in AllThreads : Owns(t, n) => Owns(t, n)'
  PROVE  /\ MonitorOwner' = [MonitorOwner EXCEPT ![m] = x]
         /\ MonitorQueue' = [MonitorQueue EXCEPT ![m] = s]
<1>1. \A n \in MUTEXES \ {m} : MonitorOwner'[n] = MonitorOwner[n]
                               /\ MonitorQueue'[n] = MonitorQueue[n]
  BY OwnerKept
<1>2. MonitorQueue'[m] = s
  BY DEF MonitorQueue
<1>3. /\ MonitorOwner = [n \in MUTEXES |-> MonitorOwner[n]]
      /\ MonitorOwner' = [n \in MUTEXES |-> MonitorOwner'[n]]
      /\ MonitorQueue = [n \in MUTEXES |-> MonitorQueue[n]]
      /\ MonitorQueue' = [n \in MUTEXES |-> MonitorQueue'[n]]
  <2>1. /\ MonitorOwner = [n \in MUTEXES |-> MonitorOwner[n]]
        /\ MonitorQueue = [n \in MUTEXES |-> MonitorQueue[n]]
    BY DEF MonitorOwner, MonitorQueue
  <2>2. MonitorOwner' = [n \in MUTEXES |-> MonitorOwner'[n]]
    BY DEF MonitorOwner
  <2>3. MonitorQueue' = [n \in MUTEXES |-> MonitorQueue'[n]]
    BY DEF MonitorQueue
  <2> QED
    BY <2>1, <2>2, <2>3
<1> QED
  BY <1>1, <1>2, <1>3

\* mutex_lock of a free mutex.
LEMMA MonitorTake ==
  ASSUME IInv, IInv', NEW c \in CPUS, NEW t \in THREADS, MutexLockFree(c, t)
  PROVE  Monitor!Next
<1> USE DEF IInv
<1>1. PICK m \in MUTEXES :
        /\ m = mtx[t] /\ ~locked[m] /\ t \in AllThreads
        /\ pc[t] = "lk" /\ UNCHANGED waiters
        /\ locked' = [locked EXCEPT ![m] = TRUE]
        /\ held' = [held EXCEPT ![t] = @ \cup {m}]
        /\ pc' = [pc EXCEPT ![t] = ret[t]] /\ mtx' = [mtx EXCEPT ![t] = None]
  BY ConstantFacts DEF MutexLockFree, At, Return, PcInv
<1>2. /\ locked \in [MUTEXES -> BOOLEAN] /\ held \in [AllThreads -> SUBSET MUTEXES]
      /\ pc \in [AllThreads -> Labels] /\ mtx \in [AllThreads -> MUTEXES \cup {None}]
  BY DEF TypeOK
<1>3. MonitorOwner[m] = None /\ MonitorQueue[m] = <<>>
  BY <1>1, OwnerFacts DEF OwnerNamed, MonitorQueue
<1>4. MonitorOwner'[m] = t
  <2>1. Owns(t, m)'
    BY <1>1, <1>2 DEF Owns
  <2> QED
    BY <1>1, <2>1, OwnerPrime DEF OwnerNamed
<1>5. ASSUME NEW n \in MUTEXES \ {m}, NEW u \in AllThreads, Owns(u, n)
      PROVE  Owns(u, n)'
  BY <1>1, <1>2, <1>5 DEF Owns, Waiting
<1>6. /\ MonitorOwner' = [MonitorOwner EXCEPT ![m] = t]
      /\ MonitorQueue' = [MonitorQueue EXCEPT ![m] = <<>>]
  <2>1. waiters'[m] = <<>>
    BY <1>1, <1>3 DEF MonitorQueue
  <2>2. \A n \in MUTEXES \ {m} :
          /\ locked'[n] = locked[n] /\ waiters'[n] = waiters[n]
          /\ \A u \in AllThreads : Owns(u, n) => Owns(u, n)'
    BY <1>1, <1>2, <1>5
  <2> QED
    BY <1>4, <2>1, <2>2, MonitorExcept
<1>7. UNCHANGED MonitorQueue
  BY <1>1 DEF MonitorQueue
<1>8. Monitor!Take(t, m)
  BY <1>3, <1>6, <1>7 DEF Monitor!Take
<1> QED
  BY <1>1, <1>8 DEF Monitor!Next

\* mutex_lock of a mutex somebody else has.
LEMMA MonitorAwait ==
  ASSUME IInv, IInv', LockingInv, NEW c \in CPUS, NEW t \in THREADS,
         MutexLockQueue(c, t)
  PROVE  Monitor!Next
<1> USE DEF IInv
<1>1. PICK m \in MUTEXES :
        /\ m = mtx[t] /\ locked[m] /\ t \in AllThreads
        /\ At(c, t, "lk") /\ ~Busy(t)
        /\ waiters' = [waiters EXCEPT ![m] = Append(@, t)]
        /\ UNCHANGED <<locked, held, mtx>> /\ pc' = [pc EXCEPT ![t] = "lk_sel"]
  BY ConstantFacts DEF MutexLockQueue, At, Goto, PcInv, Busy, InCvWait
<1>2. /\ pc \in [AllThreads -> Labels] /\ waiters \in [QUEUES -> Seq(THREADS)]
      /\ m \in QUEUES
  BY ConstantFacts DEF TypeOK
<1>3. t \notin Waiting(m)
  BY <1>1, RunsUnlinked
<1>4. ~Owns(t, m)
  BY <1>1 DEF Owns, LockingInv, At
<1>5. MonitorOwner[m] \notin {None, t}
  BY <1>1, <1>4, OwnerFacts DEF OwnerNamed
<1>6. \A i \in DOMAIN MonitorQueue[m] : MonitorQueue[m][i] # t
  BY <1>3 DEF MonitorQueue, Waiting, Range
<1>7. ASSUME NEW n \in MUTEXES, NEW u \in AllThreads, Owns(u, n)
      PROVE  Owns(u, n)'
  <2>1. u = t => n \in held[u]
    BY <1>1, <1>7 DEF Owns, At
  <2>2. Waiting(n)' \subseteq Waiting(n) \cup {t}
    <3>1. CASE n = m
      <4>1. Range(Append(waiters[m], t)) = Range(waiters[m]) \cup {t}
        BY <1>1, <1>2, AppendFacts
      <4> QED
        BY <1>1, <1>2, <3>1, <4>1 DEF Waiting
    <3>2. CASE n # m
      BY <1>1, <1>2, <3>2 DEF Waiting
    <3> QED
      BY <3>1, <3>2
  <2> QED
    BY <1>1, <1>2, <1>7, <2>1, <2>2 DEF Owns
<1>8. MonitorOwner'[m] = MonitorOwner[m]
  <2>1. PICK u \in AllThreads : u = MonitorOwner[m] /\ Owns(u, m)
    BY <1>1, OwnerFacts DEF OwnerNamed
  <2>2. Owns(u, m)'
    BY <1>7, <2>1
  <2> QED
    BY <2>1, <2>2, OwnerPrime DEF OwnerNamed
<1>9. \A n \in MUTEXES \ {m} :
        /\ locked'[n] = locked[n] /\ waiters'[n] = waiters[n]
        /\ \A u \in AllThreads : Owns(u, n) => Owns(u, n)'
  BY <1>1, <1>2, <1>7, ConstantFacts
<1>10. /\ MonitorOwner' = [MonitorOwner EXCEPT ![m] = MonitorOwner[m]]
       /\ MonitorQueue' = [MonitorQueue EXCEPT ![m] = Append(waiters[m], t)]
  <2>1. waiters'[m] = Append(waiters[m], t)
    BY <1>1, <1>2
  <2> QED
    BY <1>8, <1>9, <2>1, MonitorExcept
<1>11. UNCHANGED MonitorOwner
  BY <1>10 DEF MonitorOwner
<1>12. MonitorQueue[m] = waiters[m]
  BY DEF MonitorQueue
<1>13. Monitor!Await(t, m)
  BY <1>5, <1>6, <1>10, <1>11, <1>12 DEF Monitor!Await
<1> QED
  BY <1>1, <1>13 DEF Monitor!Next

\* mutex_unlock of a mutex nobody waits for.
LEMMA MonitorDrop ==
  ASSUME IInv, IInv', NEW c \in CPUS, NEW t \in THREADS, MutexUnlockFree(c, t)
  PROVE  Monitor!Next
<1> USE DEF IInv
<1>1. PICK m \in MUTEXES :
        /\ m = mtx[t] /\ m \in held[t] /\ t \in AllThreads
        /\ pc[t] = "ul" /\ ret[t] # "lk_own" /\ waiters[m] = <<>> /\ UNCHANGED waiters
        /\ locked' = [locked EXCEPT ![m] = FALSE]
        /\ held' = [held EXCEPT ![t] = @ \ {m}]
        /\ pc' = [pc EXCEPT ![t] = ret[t]] /\ mtx' = [mtx EXCEPT ![t] = None]
  <2>1. t \in AllThreads /\ pc[t] = "ul"
    BY ConstantFacts DEF MutexUnlockFree, At
  <2>2. mtx[t] \in MUTEXES /\ mtx[t] \in held[t]
    BY <2>1 DEF PcInv
  <2>3. ret[t] # "lk_own"
    BY <2>1, ResumeFacts
  <2> QED
    BY <2>1, <2>2, <2>3 DEF MutexUnlockFree, Return
<1>2. /\ locked \in [MUTEXES -> BOOLEAN] /\ held \in [AllThreads -> SUBSET MUTEXES]
      /\ pc \in [AllThreads -> Labels] /\ mtx \in [AllThreads -> MUTEXES \cup {None}]
  BY DEF TypeOK
<1>3. MonitorOwner[m] # None /\ MonitorQueue[m] = <<>>
  <2>1. Owns(t, m)
    BY <1>1 DEF Owns
  <2>2. locked[m]
    BY <1>1, <2>1 DEF OwnInv
  <2> QED
    BY <1>1, <2>2, OwnerFacts DEF OwnerNamed, MonitorQueue
<1>4. MonitorOwner'[m] = None
  BY <1>1, <1>2 DEF MonitorOwner
<1>5. ASSUME NEW n \in MUTEXES \ {m}, NEW u \in AllThreads, Owns(u, n)
      PROVE  Owns(u, n)'
  BY <1>1, <1>2, <1>5 DEF Owns, Waiting
<1>6. /\ MonitorOwner' = [MonitorOwner EXCEPT ![m] = None]
      /\ MonitorQueue' = [MonitorQueue EXCEPT ![m] = <<>>]
  <2>1. waiters'[m] = <<>>
    BY <1>1
  <2>2. \A n \in MUTEXES \ {m} :
          /\ locked'[n] = locked[n] /\ waiters'[n] = waiters[n]
          /\ \A u \in AllThreads : Owns(u, n) => Owns(u, n)'
    BY <1>1, <1>2, <1>5
  <2> QED
    BY <1>4, <2>1, <2>2, MonitorExcept
<1>7. UNCHANGED MonitorQueue
  BY <1>1 DEF MonitorQueue
<1>8. Monitor!Drop(m)
  BY <1>3, <1>6, <1>7 DEF Monitor!Drop
<1> QED
  BY <1>1, <1>8 DEF Monitor!Next

\* mutex_unlock with waiters: the oldest one becomes the owner.
LEMMA MonitorPass ==
  ASSUME IInv, IInv', NEW c \in CPUS, NEW t \in THREADS, MutexUnlockWake(c, t)
  PROVE  Monitor!Next
<1> USE DEF IInv
<1>1. PICK m \in MUTEXES :
        /\ m = mtx[t] /\ m \in held[t] /\ t \in AllThreads
        /\ pc[t] = "ul_wake" /\ ret[t] # "lk_own" /\ waiters[m] # <<>>
        /\ waiters' = [waiters EXCEPT ![m] = Tail(@)] /\ UNCHANGED locked
        /\ held' = [held EXCEPT ![t] = @ \ {m}]
        /\ pc' = [pc EXCEPT ![t] = ret[t]] /\ mtx' = [mtx EXCEPT ![t] = None]
  <2>1. t \in AllThreads /\ pc[t] = "ul_wake"
    BY ConstantFacts DEF MutexUnlockWake, At
  <2>2. mtx[t] \in MUTEXES /\ mtx[t] \in held[t] /\ waiters[mtx[t]] # <<>>
    BY <2>1 DEF PcInv, WaiterInv
  <2>3. ret[t] # "lk_own"
    BY <2>1, ResumeFacts
  <2> QED
    BY <2>1, <2>2, <2>3 DEF MutexUnlockWake, WakeHead, Return
<1>2. /\ held \in [AllThreads -> SUBSET MUTEXES] /\ m \in QUEUES
      /\ pc \in [AllThreads -> Labels] /\ mtx \in [AllThreads -> MUTEXES \cup {None}]
      /\ waiters \in [QUEUES -> Seq(THREADS)] /\ waiters[m] \in Seq(THREADS)
      /\ IsInjective(waiters[m])
  BY ConstantFacts DEF TypeOK, QueueInv
<1> DEFINE w == Head(waiters[m])
<1>3. /\ w \in THREADS /\ w \in Waiting(m) /\ w \in AllThreads
      /\ Waiting(m)' = Waiting(m) \ {w}
  <2>1. /\ w \in THREADS /\ w \in Range(waiters[m])
        /\ Range(Tail(waiters[m])) = Range(waiters[m]) \ {w}
    BY <1>1, <1>2, TailFacts
  <2> QED
    BY <1>1, <1>2, <2>1, ConstantFacts DEF Waiting
<1>4. Owns(t, m) /\ locked[m]
  BY <1>1 DEF Owns, OwnInv
<1>5. MonitorOwner[m] # None /\ MonitorQueue[m] = waiters[m]
  BY <1>4, OwnerFacts DEF OwnerNamed, MonitorQueue
<1>6. \A n \in MUTEXES \ {m} :
        /\ locked'[n] = locked[n] /\ waiters'[n] = waiters[n]
        /\ \A u \in AllThreads : Owns(u, n) => Owns(u, n)'
  <2>1. ASSUME NEW n \in MUTEXES \ {m}, NEW u \in AllThreads, Owns(u, n)
        PROVE  Owns(u, n)'
    <3>1. Waiting(n)' = Waiting(n)
      BY <1>1, <1>2 DEF Waiting
    <3> QED
      BY <1>1, <1>2, <2>1, <3>1 DEF Owns
  <2> QED
    BY <1>1, <1>2, <2>1, ConstantFacts
<1>7. MonitorOwner'[m] = w
  <2>1. PICK u \in AllThreads : u = MonitorOwner'[m] /\ Owns(u, m)'
    BY <1>1, <1>4, OwnerPrime DEF OwnerNamed
  <2>2. u # t
    BY <1>1, <1>2, <2>1 DEF Owns
  <2>3. CASE u # w
    <3>1. Owns(u, m)
      BY <1>1, <1>2, <1>3, <2>1, <2>2, <2>3 DEF Owns
    <3> QED
      BY <1>1, <1>4, <2>2, <3>1 DEF OwnInv
  <2> QED
    BY <2>1, <2>3
<1>8. /\ MonitorOwner' = [MonitorOwner EXCEPT ![m] = w]
      /\ MonitorQueue' = [MonitorQueue EXCEPT ![m] = Tail(waiters[m])]
  <2>1. waiters'[m] = Tail(waiters[m])
    BY <1>1, <1>2
  <2> QED
    BY <1>6, <1>7, <2>1, MonitorExcept
<1>9. Monitor!Pass(m)
  BY <1>1, <1>5, <1>8 DEF Monitor!Pass
<1> QED
  BY <1>1, <1>9 DEF Monitor!Next

\* The steps of a handler change neither owners nor waiters.
LEMMA HandlerStutters ==
  ASSUME IInv, IInv', NEW c \in CPUS, HandlerStep(c) \/ Tick(c)
  PROVE  UNCHANGED <<MonitorOwner, MonitorQueue>>
<1>1. UNCHANGED <<locked, waiters, held, pc, mtx>>
  BY DEF HandlerStep, SwitchTo, SwitchDone, KernelLoop, CheckTimers, TimersDone,
         Preempt, TimerExpire, Tick, syncVars, pcVars
<1> QED
  BY <1>1, MonitorStutter DEF Owns, Waiting

\* The owner of a mutex stays the same over a step of a thread t that changes
\* the waiters of condition variables at most, and of t's mutexes none.
LEMMA ThreadStutters ==
  ASSUME IInv, IInv', NEW t \in AllThreads, UNCHANGED <<locked, held>>,
         \A m \in MUTEXES : waiters'[m] = waiters[m],
         \A u \in AllThreads : u # t => pc'[u] = pc[u] /\ mtx'[u] = mtx[u],
         pc[t] = "lk_own" => \A m \in MUTEXES : t \in Waiting(m) \/ mtx[t] # m
  PROVE  UNCHANGED <<MonitorOwner, MonitorQueue>>
<1>1. ASSUME NEW m \in MUTEXES, NEW u \in AllThreads, Owns(u, m)
      PROVE  Owns(u, m)'
  BY <1>1 DEF Owns, Waiting
<1> QED
  BY <1>1, MonitorStutter

\* Every other step of a thread changes neither owners nor waiters of a mutex.
LEMMA OtherStutters ==
  ASSUME IInv, IInv', NEW c \in CPUS, NEW t \in THREADS,
         \/ CallStep(c, t) \/ MutexLockBlock(c, t) \/ MutexUnlockPass(c, t)
         \/ CvWaitBlock(c, t) \/ CvSignalWake(c, t) \/ SleepBlock(c, t)
  PROVE  UNCHANGED <<MonitorOwner, MonitorQueue>>
<1> USE DEF IInv
<1>1. /\ t \in AllThreads /\ pc \in [AllThreads -> Labels]
      /\ mtx \in [AllThreads -> MUTEXES \cup {None}]
      /\ waiters \in [QUEUES -> Seq(THREADS)]
      /\ MUTEXES \subseteq QUEUES /\ MUTEXES \cap CVS = {}
  BY ConstantFacts DEF TypeOK
<1> DEFINE
  Kept ==
    /\ UNCHANGED <<locked, held>>
    /\ \A m \in MUTEXES : waiters'[m] = waiters[m]
    /\ \A u \in AllThreads : u # t => pc'[u] = pc[u] /\ mtx'[u] = mtx[u]
    /\ pc[t] # "lk_own"
<1>2. ASSUME Kept
      PROVE  UNCHANGED <<MonitorOwner, MonitorQueue>>
  BY <1>1, <1>2, ThreadStutters
<1>3. CASE Lock(c, t)
  <2>1. Kept
    BY <1>1, <1>3 DEF Lock, Call, At, syncVars
  <2> QED
    BY <1>2, <2>1
<1>4. CASE Unlock(c, t)
  <2>1. Kept
    BY <1>1, <1>4 DEF Unlock, Call, At, syncVars
  <2> QED
    BY <1>2, <2>1
<1>5. CASE CvWait(c, t)
  <2>1. Kept
    BY <1>1, <1>5 DEF CvWait, Call, At
  <2> QED
    BY <1>2, <2>1
<1>6. CASE CvSignal(c, t)
  <2>1. Kept
    BY <1>1, <1>6 DEF CvSignal, Goto, At, syncVars
  <2> QED
    BY <1>2, <2>1
<1>7. CASE Yield(c, t)
  <2>1. Kept
    BY <1>1, <1>7 DEF Yield, At, syncVars, pcVars
  <2> QED
    BY <1>2, <2>1
<1>8. CASE Sleep(c, t)
  <2>1. Kept
    BY <1>1, <1>8 DEF Sleep, Goto, At, syncVars
  <2> QED
    BY <1>2, <2>1
<1>9. CASE MutexLockBlock(c, t)
  <2>1. Kept
    BY <1>1, <1>9 DEF MutexLockBlock, Goto, At, syncVars
  <2> QED
    BY <1>2, <2>1
<1>10. CASE MutexUnlockPass(c, t)
  <2>1. Kept
    BY <1>1, <1>10 DEF MutexUnlockPass, Goto, At, syncVars
  <2> QED
    BY <1>2, <2>1
<1>11. CASE CvWaitBlock(c, t)
  <2>1. Kept
    BY <1>1, <1>11 DEF CvWaitBlock, Call, At, syncVars
  <2> QED
    BY <1>2, <2>1
<1>12. CASE CvSignalWake(c, t)
  <2>1. pc[t] = "sg_wake" /\ wait[t][1] \in CVS
    BY <1>1, <1>12 DEF CvSignalWake, At, PcInv
  <2>2. Kept
    BY <1>1, <1>12, <2>1 DEF CvSignalWake, WakeHead, Goto
  <2> QED
    BY <1>2, <2>2
<1>13. CASE SleepBlock(c, t)
  <2>1. Kept
    BY <1>1, <1>13 DEF SleepBlock, Goto, At, syncVars
  <2> QED
    BY <1>2, <2>1
<1> QED
  BY <1>3, <1>4, <1>5, <1>6, <1>7, <1>8, <1>9, <1>10, <1>11, <1>12, <1>13
     DEF CallStep

\* Coming back from mutex_lock makes the owner's code hold the mutex it owns.
LEMMA OwnStutters ==
  ASSUME IInv, IInv', NEW c \in CPUS, NEW t \in THREADS, MutexLockOwn(c, t)
  PROVE  UNCHANGED <<MonitorOwner, MonitorQueue>>
<1> USE DEF IInv
<1>1. /\ t \in AllThreads /\ mtx[t] \in MUTEXES
      /\ held \in [AllThreads -> SUBSET MUTEXES]
      /\ pc \in [AllThreads -> Labels]
      /\ mtx \in [AllThreads -> MUTEXES \cup {None}]
  BY ConstantFacts DEF MutexLockOwn, At, PcInv, TypeOK
<1>2. ASSUME NEW m \in MUTEXES, NEW u \in AllThreads, Owns(u, m)
      PROVE  Owns(u, m)'
  BY <1>1, <1>2 DEF MutexLockOwn, Return, Owns, Waiting
<1> QED
  BY <1>2, MonitorStutter DEF MutexLockOwn

\* Every step of the scheduler is a step of a monitor, or none.
LEMMA MonitorStep ==
  ASSUME IInv, IInv', LockingInv, [Next]_vars
  PROVE  [Monitor!Next]_<<MonitorOwner, MonitorQueue>>
<1>1. CASE UNCHANGED vars
  BY <1>1, MonitorStutter DEF vars, syncVars, pcVars, Owns, Waiting
<1>2. ASSUME NEW c \in CPUS, HandlerStep(c) \/ Tick(c)
      PROVE  UNCHANGED <<MonitorOwner, MonitorQueue>>
  BY <1>2, HandlerStutters
<1>3. ASSUME NEW c \in CPUS, NEW t \in THREADS, BlockStep(c, t) \/ CallStep(c, t)
      PROVE  [Monitor!Next]_<<MonitorOwner, MonitorQueue>>
  <2>1. CASE MutexLockFree(c, t)
    BY <2>1, MonitorTake
  <2>2. CASE MutexLockQueue(c, t)
    BY <2>2, MonitorAwait
  <2>3. CASE MutexUnlockFree(c, t)
    BY <2>3, MonitorDrop
  <2>4. CASE MutexUnlockWake(c, t)
    BY <2>4, MonitorPass
  <2>5. CASE MutexLockOwn(c, t)
    BY <2>5, OwnStutters
  <2> QED
    BY <1>3, <2>1, <2>2, <2>3, <2>4, <2>5, OtherStutters DEF BlockStep, MutexStep
<1> QED
  BY <1>1, <1>2, <1>3 DEF Next

\* A thread is never inside mutex_lock for a mutex it holds.
LEMMA LockingInvariance == Spec => []LockingInv
<1>1. Init => LockingInv
  BY DEF Init, LockingInv
<1>2. IInv /\ LockingInv /\ [Next]_vars => LockingInv'
  BY LockingStep
<1> QED
  BY <1>1, <1>2, Invariance, PTL DEF Spec

\* mutex_lock and mutex_unlock, whatever happens between guard, ready queue and
\* context switch, implement first-come first-served monitors with direct
\* hand-off: every behaviour of the scheduler is one of theirs.
THEOREM MutexRefinement == Spec => MonitorSpec
<1>1. Init => Monitor!Init
  <2>1. ASSUME Init
        PROVE  Monitor!Init
    BY <2>1, ConstantFacts DEF Init, Monitor!Init, MonitorOwner, MonitorQueue
  <2> QED
    BY <2>1
<1>2. IInv /\ IInv' /\ LockingInv /\ [Next]_vars
        => [Monitor!Next]_<<MonitorOwner, MonitorQueue>>
  BY MonitorStep
<1> QED
  BY <1>1, <1>2, Invariance, LockingInvariance, PTL
     DEF Spec, MonitorSpec, Monitor!Spec
=============================================================================
