------------------------------ MODULE ULibProofs ------------------------------
(***************************************************************************)
(* Proofs about the user library's condition variables and what is built   *)
(* from them: reader/writer locks (URwlock), threads (UThread), for any    *)
(* number of threads.                                                      *)
(***************************************************************************)
EXTENDS USem, URwlock, UThread, FiniteSetTheorems, TLAPS

-----------------------------------------------------------------------------
(* The nodes of a condition variable *)

ULabels == {"out", "test", "wait", "asleep", "relock", "in", "walk", "unlock",
            "unused", "begin", "insert", "exit", "unlocked", "gone"}

CondTypes ==
  /\ pc \in [THREADS -> ULabels]
  /\ owner \in THREADS \cup {None}
  /\ cvOwner \in [CVS -> THREADS \cup {None}]
  /\ queue \in [CVS -> Seq(THREADS)]
  /\ walk \in [THREADS -> Seq(THREADS)]
  /\ signaled \subseteq THREADS

\* The nodes of c that nobody has signaled: the list, or what is left of it
\* for the broadcast that walks it.
Pending(c) == IF cvOwner[c] = None THEN queue[c] ELSE walk[cvOwner[c]]

\* A pending node's thread is in cond_wait, and not signaled.
PendingWait ==
  \A c \in CVS : \A i \in 1 .. Len(Pending(c)) :
    pc[Pending(c)[i]] \in {"wait", "asleep"} /\ Pending(c)[i] \notin signaled

\* A thread has one pending node.
PendingOnce ==
  \A c, d \in CVS : \A i \in 1 .. Len(Pending(c)), j \in 1 .. Len(Pending(d)) :
    Pending(c)[i] = Pending(d)[j] => c = d /\ i = j

\* Who walks a list holds its lock, and no other condition variable's.
WalkInv ==
  /\ \A c \in CVS : cvOwner[c] # None => pc[cvOwner[c]] = "walk"
  /\ \A c, d \in CVS : cvOwner[c] # None /\ cvOwner[c] = cvOwner[d] => c = d
  /\ \A t \in THREADS : walk[t] # <<>> => \E c \in CVS : cvOwner[c] = t

NodeInv == PendingWait /\ PendingOnce /\ WalkInv

LEMMA NodesUnchanged ==
  ASSUME NodeInv, UNCHANGED <<pc, cvOwner, queue, walk, signaled>>
  PROVE  NodeInv'
<1>1. \A c \in CVS : Pending(c)' = Pending(c)
  BY DEF Pending
<1>2. PendingWait' /\ PendingOnce'
  BY <1>1 DEF NodeInv, PendingWait, PendingOnce
<1>3. WalkInv'
  BY DEF NodeInv, WalkInv
<1> QED
  BY <1>2, <1>3 DEF NodeInv

\* A thread that goes on does not disturb the nodes, unless it leaves cond_wait
\* with its node pending.
LEMMA NodesStay ==
  ASSUME CondTypes, NodeInv, NEW t \in THREADS, NEW l \in ULabels,
         pc' = [pc EXCEPT ![t] = l], UNCHANGED <<cvOwner, queue, walk, signaled>>,
         pc[t] # "walk",
         pc[t] \in {"wait", "asleep"} /\ t \notin signaled => l \in {"wait", "asleep"}
  PROVE  NodeInv'
<1>1. \A c \in CVS : Pending(c)' = Pending(c) /\ Pending(c) \in Seq(THREADS)
  BY DEF Pending, CondTypes
<1>2. PendingWait'
  <2> SUFFICES ASSUME NEW c \in CVS, NEW i \in 1 .. Len(Pending(c))
               PROVE  pc'[Pending(c)[i]] \in {"wait", "asleep"}
                      /\ Pending(c)[i] \notin signaled
    BY <1>1 DEF PendingWait
  <2>1. PICK u \in THREADS : u = Pending(c)[i]
    BY <1>1
  <2>2. pc[u] \in {"wait", "asleep"} /\ u \notin signaled
    BY <2>1 DEF NodeInv, PendingWait
  <2> QED
    BY <2>1, <2>2 DEF CondTypes
<1>3. PendingOnce'
  BY <1>1 DEF NodeInv, PendingOnce
<1>4. WalkInv'
  BY DEF NodeInv, WalkInv, CondTypes
<1> QED
  BY <1>2, <1>3, <1>4 DEF NodeInv

\* cond_wait adds the node of a thread that has none.
LEMMA NodesWait ==
  ASSUME CondTypes, NodeInv, NEW t \in THREADS, NEW c \in CVS, None \notin THREADS,
         pc[t] \notin {"wait", "asleep", "walk"}, cvOwner[c] = None,
         queue' = [queue EXCEPT ![c] = Append(@, t)], signaled' = signaled \ {t},
         pc' = [pc EXCEPT ![t] = "wait"], UNCHANGED <<cvOwner, walk>>
  PROVE  NodeInv'
<1>1. \A d \in CVS : Pending(d) \in Seq(THREADS)
  BY DEF Pending, CondTypes
<1>2. /\ \A d \in CVS \ {c} : Pending(d)' = Pending(d)
      /\ Pending(c) = queue[c] /\ Pending(c)' = Append(queue[c], t)
  BY DEF Pending, CondTypes
<1>3. \A d \in CVS : \A i \in 1 .. Len(Pending(d)) : Pending(d)[i] # t
  BY DEF NodeInv, PendingWait
<1>4. /\ queue[c] \in Seq(THREADS) /\ Len(queue[c]) \in Nat
      /\ Len(Append(queue[c], t)) = Len(queue[c]) + 1
      /\ \A i \in 1 .. Len(queue[c]) : Append(queue[c], t)[i] = queue[c][i]
      /\ Append(queue[c], t)[Len(queue[c]) + 1] = t
  BY DEF CondTypes
<1>5. \A d \in CVS : \A i \in 1 .. Len(Pending(d)') :
        \/ i \in 1 .. Len(Pending(d)) /\ Pending(d)'[i] = Pending(d)[i]
        \/ d = c /\ i = Len(queue[c]) + 1 /\ Pending(d)'[i] = t
  BY <1>2, <1>4
<1>6. PendingWait'
  <2> SUFFICES ASSUME NEW d \in CVS, NEW i \in 1 .. Len(Pending(d)')
               PROVE  pc'[Pending(d)'[i]] \in {"wait", "asleep"}
                      /\ Pending(d)'[i] \notin signaled'
    BY DEF PendingWait
  <2>1. CASE Pending(d)'[i] = t
    BY <2>1 DEF CondTypes
  <2>2. CASE i \in 1 .. Len(Pending(d)) /\ Pending(d)'[i] = Pending(d)[i]
    <3>1. PICK u \in THREADS : u = Pending(d)[i] /\ u # t
      BY <1>1, <1>3, <2>2
    <3>2. pc[u] \in {"wait", "asleep"} /\ u \notin signaled
      BY <3>1, <2>2 DEF NodeInv, PendingWait
    <3> QED
      BY <3>1, <3>2, <2>2 DEF CondTypes
  <2> QED
    BY <1>5, <2>1, <2>2
<1>7. PendingOnce'
  <2> SUFFICES ASSUME NEW d \in CVS, NEW e \in CVS, NEW i \in 1 .. Len(Pending(d)'),
                      NEW j \in 1 .. Len(Pending(e)'), Pending(d)'[i] = Pending(e)'[j]
               PROVE  d = e /\ i = j
    BY DEF PendingOnce
  <2>1. \/ i \in 1 .. Len(Pending(d)) /\ Pending(d)'[i] = Pending(d)[i]
        \/ d = c /\ i = Len(queue[c]) + 1 /\ Pending(d)'[i] = t
    BY <1>5
  <2>2. \/ j \in 1 .. Len(Pending(e)) /\ Pending(e)'[j] = Pending(e)[j]
        \/ e = c /\ j = Len(queue[c]) + 1 /\ Pending(e)'[j] = t
    BY <1>5
  <2> QED
    BY <1>3, <2>1, <2>2 DEF NodeInv, PendingOnce
<1>8. WalkInv'
  BY DEF NodeInv, WalkInv, CondTypes
<1> QED
  BY <1>6, <1>7, <1>8 DEF NodeInv

\* A broadcast takes over the list, without the lock of a condition variable yet.
LEMMA NodesBroadcast ==
  ASSUME CondTypes, NodeInv, NEW t \in THREADS, NEW c \in CVS, None \notin THREADS,
         pc[t] \notin {"wait", "asleep", "walk"}, CondBroadcast(t, c),
         UNCHANGED <<queue, signaled>>
  PROVE  NodeInv'
<1>1. /\ cvOwner[c] = None /\ cvOwner' = [cvOwner EXCEPT ![c] = t]
      /\ walk' = [walk EXCEPT ![t] = queue[c]] /\ pc' = [pc EXCEPT ![t] = "walk"]
  BY DEF CondBroadcast, Goto
<1>2. \A d \in CVS : cvOwner[d] # t
  BY DEF NodeInv, WalkInv
<1>3. \A d \in CVS : Pending(d)' = Pending(d) /\ Pending(d) \in Seq(THREADS)
  BY <1>1, <1>2 DEF Pending, CondTypes
<1>4. PendingWait'
  <2> SUFFICES ASSUME NEW d \in CVS, NEW i \in 1 .. Len(Pending(d))
               PROVE  pc'[Pending(d)[i]] \in {"wait", "asleep"}
                      /\ Pending(d)[i] \notin signaled
    BY <1>3 DEF PendingWait
  <2>1. PICK u \in THREADS : u = Pending(d)[i]
    BY <1>3
  <2>2. pc[u] \in {"wait", "asleep"} /\ u \notin signaled
    BY <2>1 DEF NodeInv, PendingWait
  <2> QED
    BY <1>1, <2>1, <2>2 DEF CondTypes
<1>5. PendingOnce'
  BY <1>3 DEF NodeInv, PendingOnce
<1>6. WalkInv'
  BY <1>1, <1>2 DEF NodeInv, WalkInv, CondTypes
<1> QED
  BY <1>4, <1>5, <1>6 DEF NodeInv

LEMMA BroadcastTypes ==
  ASSUME CondTypes, NEW t \in THREADS, NEW c \in CVS, CondBroadcast(t, c)
  PROVE  /\ pc' \in [THREADS -> ULabels] /\ cvOwner' \in [CVS -> THREADS \cup {None}]
         /\ walk' \in [THREADS -> Seq(THREADS)]
         /\ pc'[t] = "walk" /\ \A u \in THREADS \ {t} : pc'[u] = pc[u]
<1>1. /\ cvOwner' = [cvOwner EXCEPT ![c] = t] /\ walk' = [walk EXCEPT ![t] = queue[c]]
      /\ pc' = [pc EXCEPT ![t] = "walk"]
  BY DEF CondBroadcast, Goto
<1>2. pc' \in [THREADS -> ULabels] /\ pc'[t] = "walk" /\ \A u \in THREADS \ {t} : pc'[u] = pc[u]
  BY <1>1 DEF CondTypes, ULabels
<1>3. cvOwner' \in [CVS -> THREADS \cup {None}]
  BY <1>1 DEF CondTypes
<1>4. walk' \in [THREADS -> Seq(THREADS)]
  BY <1>1 DEF CondTypes
<1> QED
  BY <1>2, <1>3, <1>4

\* The oldest pending node of c is signaled, and not pending any more.
LEMMA NodesLess ==
  ASSUME CondTypes, NodeInv, NEW c \in CVS, NEW u \in THREADS,
         Pending(c) # <<>>, u = Head(Pending(c)), Pending(c)' = Tail(Pending(c)),
         \A d \in CVS \ {c} : Pending(d)' = Pending(d), signaled' = signaled \cup {u},
         \A v \in THREADS \ {u} : pc[v] \in {"wait", "asleep"} => pc'[v] = pc[v]
  PROVE  PendingWait' /\ PendingOnce'
<1>1. \A d \in CVS : Pending(d) \in Seq(THREADS) /\ Len(Pending(d)) \in Nat
  BY DEF Pending, CondTypes
<1>2. /\ 1 \in 1 .. Len(Pending(c)) /\ u = Pending(c)[1]
      /\ Len(Tail(Pending(c))) = Len(Pending(c)) - 1
      /\ \A i \in 1 .. Len(Tail(Pending(c))) :
           i + 1 \in 1 .. Len(Pending(c)) /\ Tail(Pending(c))[i] = Pending(c)[i + 1]
  BY <1>1
<1>3. \A d \in CVS : \A i \in 1 .. Len(Pending(d)') :
        /\ i \in Nat \ {0}
        /\ \E j \in 1 .. Len(Pending(d)) :
             Pending(d)'[i] = Pending(d)[j] /\ (IF d = c THEN j = i + 1 ELSE j = i)
  BY <1>1, <1>2
<1>4. PendingWait'
  <2> SUFFICES ASSUME NEW d \in CVS, NEW i \in 1 .. Len(Pending(d)')
               PROVE  pc'[Pending(d)'[i]] \in {"wait", "asleep"}
                      /\ Pending(d)'[i] \notin signaled'
    BY DEF PendingWait
  <2>1. PICK j \in 1 .. Len(Pending(d)) :
          Pending(d)'[i] = Pending(d)[j] /\ (IF d = c THEN j = i + 1 ELSE j = i)
    BY <1>3
  <2>2. PICK v \in THREADS : v = Pending(d)[j]
    BY <1>1
  <2>3. v # u
    <3> SUFFICES ASSUME Pending(d)[j] = Pending(c)[1] PROVE FALSE
      BY <1>2, <2>2
    <3>1. d = c /\ j = 1
      BY <1>2 DEF NodeInv, PendingOnce
    <3> QED
      BY <1>3, <2>1, <3>1
  <2>4. pc[v] \in {"wait", "asleep"} /\ v \notin signaled
    BY <2>2 DEF NodeInv, PendingWait
  <2> QED
    BY <2>1, <2>2, <2>3, <2>4
<1>5. PendingOnce'
  <2> SUFFICES ASSUME NEW d \in CVS, NEW e \in CVS, NEW i \in 1 .. Len(Pending(d)'),
                      NEW j \in 1 .. Len(Pending(e)'), Pending(d)'[i] = Pending(e)'[j]
               PROVE  d = e /\ i = j
    BY DEF PendingOnce
  <2>1. PICK k \in 1 .. Len(Pending(d)) :
          Pending(d)'[i] = Pending(d)[k] /\ (IF d = c THEN k = i + 1 ELSE k = i)
    BY <1>3
  <2>2. PICK l \in 1 .. Len(Pending(e)) :
          Pending(e)'[j] = Pending(e)[l] /\ (IF e = c THEN l = j + 1 ELSE l = j)
    BY <1>3
  <2>3. d = e /\ k = l
    <3>1. Pending(d)[k] = Pending(e)[l]
      BY <2>1, <2>2
    <3> QED
      BY <3>1 DEF NodeInv, PendingOnce
  <2>4. i \in Nat /\ j \in Nat
    BY <1>3
  <2> QED
    BY <2>1, <2>2, <2>3, <2>4
<1> QED
  BY <1>4, <1>5

LEMMA NodesOne ==
  ASSUME CondTypes, NodeInv, NEW t \in THREADS, None \notin THREADS, CondBroadcastOne(t)
  PROVE  NodeInv' /\ Head(walk[t]) \in THREADS /\ pc[Head(walk[t])] \in {"wait", "asleep"}
<1>1. /\ pc[t] = "walk" /\ walk[t] # <<>> /\ walk' = [walk EXCEPT ![t] = Tail(@)]
      /\ signaled' = signaled \cup {Head(walk[t])}
      /\ pc' = [pc EXCEPT ![Head(walk[t])] = AfterSignal(Head(walk[t]))]
      /\ UNCHANGED <<owner, cvOwner, queue>>
  BY DEF CondBroadcastOne, At
<1>2. PICK c \in CVS : cvOwner[c] = t
  BY <1>1 DEF NodeInv, WalkInv
<1>3. /\ Pending(c) = walk[t] /\ Pending(c)' = Tail(walk[t])
      /\ \A d \in CVS \ {c} : Pending(d)' = Pending(d)
  BY <1>1, <1>2 DEF Pending, CondTypes, NodeInv, WalkInv
<1>4. PICK u \in THREADS : u = Head(walk[t]) /\ u = walk[t][1] /\ 1 \in 1 .. Len(walk[t])
  BY <1>1 DEF CondTypes
<1>5. pc[u] \in {"wait", "asleep"} /\ u # t
  BY <1>1, <1>3, <1>4 DEF NodeInv, PendingWait
<1>6. \A v \in THREADS \ {u} : pc'[v] = pc[v]
  BY <1>1, <1>4 DEF CondTypes
<1>7. PendingWait' /\ PendingOnce'
  <2>1. Pending(c) # <<>> /\ u = Head(Pending(c)) /\ Pending(c)' = Tail(Pending(c))
        /\ signaled' = signaled \cup {u}
    BY <1>1, <1>3, <1>4
  <2> QED
    BY <1>3, <1>6, <2>1, NodesLess
<1>8. WalkInv'
  <2>1. \A v \in THREADS : pc[v] = "walk" => pc'[v] = "walk"
    BY <1>5, <1>6
  <2>2. \A v \in THREADS : walk'[v] # <<>> => walk[v] # <<>>
    BY <1>1 DEF CondTypes
  <2> QED
    BY <1>1, <2>1, <2>2 DEF NodeInv, WalkInv, CondTypes
<1> QED
  BY <1>4, <1>5, <1>7, <1>8 DEF NodeInv

LEMMA NodesSignal ==
  ASSUME CondTypes, NodeInv, NEW t \in THREADS, NEW c \in CVS, NEW l \in ULabels,
         None \notin THREADS, pc[t] \notin {"wait", "asleep", "walk"}, CondSignal(t, c, l),
         UNCHANGED <<cvOwner, walk>>
  PROVE  /\ pc' \in [THREADS -> ULabels] /\ queue' \in [CVS -> Seq(THREADS)]
         /\ signaled' \subseteq THREADS
         /\ NodeInv' /\ pc'[t] = l
         /\ \/ /\ queue[c] = <<>> /\ UNCHANGED <<queue, signaled>>
               /\ \A v \in THREADS \ {t} : pc'[v] = pc[v]
            \/ \E u \in THREADS \ {t} :
                 /\ pc[u] \in {"wait", "asleep"} /\ signaled' = signaled \cup {u}
                 /\ pc'[u] = (IF pc[u] = "asleep" THEN "relock" ELSE pc[u])
                 /\ \A v \in THREADS \ {t, u} : pc'[v] = pc[v]
<1>1. CASE queue[c] = <<>>
  <2>1. pc' = [pc EXCEPT ![t] = l] /\ UNCHANGED <<queue, signaled>>
    BY <1>1 DEF CondSignal, Goto
  <2>2. NodeInv'
    BY <2>1, NodesStay
  <2> QED
    BY <1>1, <2>1, <2>2 DEF CondTypes
<1>2. CASE queue[c] # <<>>
  <2>1. PICK u \in THREADS : u = Head(queue[c]) /\ u = queue[c][1] /\ 1 \in 1 .. Len(queue[c])
    BY <1>2 DEF CondTypes
  <2>2. /\ cvOwner[c] = None /\ queue' = [queue EXCEPT ![c] = Tail(@)]
        /\ signaled' = signaled \cup {u} /\ pc' = [pc EXCEPT ![u] = AfterSignal(u), ![t] = l]
    BY <1>2, <2>1 DEF CondSignal
  <2>3. /\ Pending(c) = queue[c] /\ Pending(c)' = Tail(queue[c])
        /\ \A d \in CVS \ {c} : Pending(d)' = Pending(d)
    BY <2>2 DEF Pending, CondTypes
  <2>4. pc[u] \in {"wait", "asleep"} /\ u # t
    BY <2>1, <2>3 DEF NodeInv, PendingWait
  <2>5. /\ pc' \in [THREADS -> ULabels] /\ pc'[t] = l
        /\ pc'[u] = (IF pc[u] = "asleep" THEN "relock" ELSE pc[u])
        /\ \A v \in THREADS \ {t, u} : pc'[v] = pc[v]
    BY <2>2, <2>4 DEF AfterSignal, CondTypes, ULabels
  <2>6. PendingWait' /\ PendingOnce'
    <3>1. Pending(c) # <<>> /\ u = Head(Pending(c)) /\ Pending(c)' = Tail(Pending(c))
      BY <1>2, <2>1, <2>3
    <3>2. \A v \in THREADS \ {u} : pc[v] \in {"wait", "asleep"} => pc'[v] = pc[v]
      BY <2>5
    <3> QED
      BY <2>2, <2>3, <3>1, <3>2, NodesLess
  <2>7. WalkInv'
    <3>1. \A v \in THREADS : pc[v] = "walk" => pc'[v] = "walk"
      BY <2>4, <2>5
    <3> QED
      BY <3>1 DEF NodeInv, WalkInv, CondTypes
  <2>8. queue' \in [CVS -> Seq(THREADS)] /\ signaled' \subseteq THREADS
    BY <1>2, <2>2 DEF CondTypes
  <2> QED
    BY <2>2, <2>4, <2>5, <2>6, <2>7, <2>8 DEF CondTypes, NodeInv
<1> QED
  BY <1>1, <1>2

\* A broadcast ends with an empty list.
LEMMA NodesEnd ==
  ASSUME CondTypes, NodeInv, NEW t \in THREADS, NEW c \in CVS, NEW l \in ULabels,
         None \notin THREADS, CondBroadcastEnd(t, c, l), UNCHANGED <<walk, signaled>>
  PROVE  NodeInv'
<1>1. /\ pc[t] = "walk" /\ walk[t] = <<>> /\ cvOwner[c] = t
      /\ queue' = [queue EXCEPT ![c] = <<>>] /\ cvOwner' = [cvOwner EXCEPT ![c] = None]
      /\ pc' = [pc EXCEPT ![t] = l]
  BY DEF CondBroadcastEnd, At, Goto
<1>2. /\ Pending(c) = <<>> /\ Pending(c)' = <<>>
      /\ \A d \in CVS : Pending(d)' = Pending(d) /\ Pending(d) \in Seq(THREADS)
  BY <1>1 DEF Pending, CondTypes
<1>3. PendingWait'
  <2> SUFFICES ASSUME NEW d \in CVS, NEW i \in 1 .. Len(Pending(d))
               PROVE  pc'[Pending(d)[i]] \in {"wait", "asleep"}
                      /\ Pending(d)[i] \notin signaled
    BY <1>2 DEF PendingWait
  <2>1. PICK u \in THREADS : u = Pending(d)[i]
    BY <1>2
  <2>2. pc[u] \in {"wait", "asleep"} /\ u \notin signaled
    BY <2>1 DEF NodeInv, PendingWait
  <2> QED
    BY <1>1, <2>1, <2>2 DEF CondTypes
<1>4. PendingOnce'
  BY <1>2 DEF NodeInv, PendingOnce
<1>5. WalkInv'
  BY <1>1 DEF NodeInv, WalkInv, CondTypes
<1> QED
  BY <1>3, <1>4, <1>5 DEF NodeInv

\* Whoever walks a list finds its nodes alive.
LEMMA NodesAliveFromInv == ASSUME CondTypes, NodeInv, None \notin THREADS PROVE NodesAlive
<1> SUFFICES ASSUME NEW t \in THREADS, NEW i \in DOMAIN walk[t]
             PROVE  pc[walk[t][i]] \in {"wait", "asleep"}
  BY DEF NodesAlive, At, Range
<1>1. walk[t] \in Seq(THREADS) /\ walk[t] # <<>> /\ i \in 1 .. Len(walk[t])
  BY DEF CondTypes
<1>2. PICK c \in CVS : cvOwner[c] = t
  BY <1>1 DEF NodeInv, WalkInv
<1>3. Pending(c) = walk[t]
  BY <1>2 DEF Pending
<1> QED
  BY <1>1, <1>3 DEF NodeInv, PendingWait

-----------------------------------------------------------------------------
(* Semaphores *)

Inside == {t \in THREADS : pc[t] = "in"}

SemTypes == CondTypes /\ value \in Nat

\* A unit is with a thread that has it, or in the value.
UnitsInv == IsFiniteSet(Inside) /\ value + Cardinality(Inside) = count

Awake(t) == pc[t] \in {"test", "relock"} \/ (pc[t] = "wait" /\ t \in signaled)

\* Somebody is on the way to the unit of a semaphore of one.
AwakeInv == count = 1 /\ queue[value_cv] # <<>> /\ value # 0 => \E t \in THREADS : Awake(t)

SemInv == SemTypes /\ NodeInv /\ UnitsInv /\ AwakeInv

LEMMA SemInitInv == ASSUME SemInit PROVE SemInv
<1>1. SemTypes
  BY SemAssumption DEF SemInit, CondInit, SemTypes, CondTypes, ULabels
<1>2. NodeInv
  <2>1. \A c \in CVS : Len(Pending(c)) = 0
    BY DEF SemInit, CondInit, Pending
  <2>2. WalkInv
    BY DEF SemInit, CondInit, WalkInv
  <2> QED
    BY <2>1, <2>2 DEF NodeInv, PendingWait, PendingOnce
<1>3. UnitsInv
  <2>1. Inside = {} /\ value = count
    BY DEF Inside, SemInit, CondInit
  <2> QED
    BY <2>1, SemAssumption, FS_EmptySet DEF UnitsInv
<1>4. AwakeInv
  BY SemAssumption DEF AwakeInv, SemInit, CondInit
<1> QED
  BY <1>1, <1>2, <1>3, <1>4 DEF SemInv

LEMMA SemWaitStep == ASSUME SemInv, NEW t \in THREADS, SemWait(t) PROVE SemInv'
<1>1. /\ pc[t] = "out" /\ pc' = [pc EXCEPT ![t] = "test"] /\ owner = None /\ owner' = t
      /\ UNCHANGED <<cvOwner, queue, walk, signaled, value>>
  BY DEF SemWait, At, Lock, Goto
<1>2. SemTypes'
  BY <1>1 DEF SemInv, SemTypes, CondTypes, ULabels
<1>3. NodeInv'
  BY <1>1, NodesStay DEF SemInv, SemTypes, ULabels
<1>4. Inside' = Inside /\ Awake(t)'
  BY <1>1 DEF Inside, Awake, SemInv, SemTypes, CondTypes
<1> QED
  BY <1>1, <1>2, <1>3, <1>4 DEF SemInv, UnitsInv, AwakeInv

LEMMA SemBlockStep == ASSUME SemInv, NEW t \in THREADS, SemBlock(t) PROVE SemInv'
<1>1. /\ pc[t] = "test" /\ value <= 0 /\ cvOwner[value_cv] = None
      /\ queue' = [queue EXCEPT ![value_cv] = Append(@, t)] /\ signaled' = signaled \ {t}
      /\ owner = t /\ owner' = None /\ pc' = [pc EXCEPT ![t] = "wait"]
      /\ UNCHANGED <<cvOwner, walk, value>>
  BY DEF SemBlock, CondWait, At, Unlock, Goto
<1>2. SemTypes'
  <2>1. queue' \in [CVS -> Seq(THREADS)]
    BY <1>1, SemAssumption DEF SemInv, SemTypes, CondTypes
  <2> QED
    BY <1>1, <2>1 DEF SemInv, SemTypes, CondTypes, ULabels
<1>3. NodeInv'
  BY <1>1, NodesWait, SemAssumption DEF SemInv, SemTypes
<1>4. Inside' = Inside
  BY <1>1 DEF Inside, SemInv, SemTypes, CondTypes
<1>5. AwakeInv'
  BY <1>1 DEF AwakeInv, SemInv, SemTypes
<1> QED
  BY <1>1, <1>2, <1>3, <1>4, <1>5 DEF SemInv, UnitsInv

LEMMA SemTakeStep == ASSUME SemInv, NEW t \in THREADS, SemTake(t) PROVE SemInv'
<1>1. /\ pc[t] = "test" /\ value > 0 /\ value' = value - 1 /\ owner = t /\ owner' = None
      /\ pc' = [pc EXCEPT ![t] = "in"] /\ UNCHANGED <<cvOwner, queue, walk, signaled>>
  BY DEF SemTake, At, Unlock, Goto
<1>2. SemTypes'
  BY <1>1 DEF SemInv, SemTypes, CondTypes, ULabels
<1>3. NodeInv'
  BY <1>1, NodesStay DEF SemInv, SemTypes, ULabels
<1>4. Inside' = Inside \cup {t} /\ t \notin Inside
  BY <1>1 DEF Inside, SemInv, SemTypes, CondTypes
<1>5. /\ IsFiniteSet(Inside') /\ Cardinality(Inside') = Cardinality(Inside) + 1
      /\ Cardinality(Inside) \in Nat
  BY <1>4, FS_AddElement, FS_CardinalityType DEF SemInv, UnitsInv
<1>6. UnitsInv'
  BY <1>1, <1>5 DEF SemInv, SemTypes, UnitsInv
<1>7. AwakeInv'
  <2>1. count = 1 => value' = 0
    BY <1>1, <1>2, <1>5 DEF SemInv, SemTypes, UnitsInv
  <2> QED
    BY <2>1 DEF AwakeInv
<1> QED
  BY <1>2, <1>3, <1>6, <1>7 DEF SemInv

LEMMA SemSignalStep == ASSUME SemInv, NEW t \in THREADS, SemSignal(t) PROVE SemInv'
<1>1. /\ pc[t] = "in" /\ value' = value + 1 /\ UNCHANGED <<owner, cvOwner, walk>>
      /\ IF value' = 1 THEN CondSignal(t, value_cv, "out")
         ELSE pc' = [pc EXCEPT ![t] = "out"] /\ UNCHANGED <<queue, signaled>>
  BY DEF SemSignal, At, Goto
<1>2. /\ pc' \in [THREADS -> ULabels] /\ queue' \in [CVS -> Seq(THREADS)]
      /\ signaled' \subseteq THREADS /\ NodeInv' /\ pc'[t] = "out"
      /\ \A v \in THREADS \ {t} : pc'[v] = "in" <=> pc[v] = "in"
  <2>1. CASE value' = 1
    BY <1>1, <2>1, NodesSignal, SemAssumption DEF SemInv, SemTypes, ULabels
  <2>2. CASE value' # 1
    <3>1. pc' = [pc EXCEPT ![t] = "out"] /\ UNCHANGED <<queue, signaled>>
      BY <1>1, <2>2
    <3>2. NodeInv'
      BY <1>1, <3>1, NodesStay DEF SemInv, SemTypes, ULabels
    <3> QED
      BY <1>1, <3>1, <3>2 DEF SemInv, SemTypes, CondTypes, ULabels
  <2> QED
    BY <2>1, <2>2
<1>3. SemTypes'
  BY <1>1, <1>2 DEF SemInv, SemTypes, CondTypes
<1>4. Inside' = Inside \ {t} /\ t \in Inside
  BY <1>1, <1>2 DEF Inside
<1>5. /\ IsFiniteSet(Inside') /\ Cardinality(Inside') = Cardinality(Inside) - 1
      /\ Cardinality(Inside) \in Nat /\ Cardinality(Inside') \in Nat
  BY <1>4, FS_RemoveElement, FS_CardinalityType DEF SemInv, UnitsInv
<1>6. UnitsInv'
  BY <1>1, <1>5 DEF SemInv, SemTypes, UnitsInv
<1>7. AwakeInv'
  <2> SUFFICES ASSUME count = 1, queue'[value_cv] # <<>> PROVE \E u \in THREADS : Awake(u)'
    BY DEF AwakeInv
  <2>1. value' = 1
    BY <1>1, <1>5 DEF SemInv, SemTypes, UnitsInv
  <2>2. CondSignal(t, value_cv, "out")
    BY <1>1, <2>1
  <2>3. queue[value_cv] # <<>>
    BY <2>2 DEF CondSignal
  <2>4. PICK u \in THREADS \ {t} :
          /\ pc[u] \in {"wait", "asleep"} /\ signaled' = signaled \cup {u}
          /\ pc'[u] = (IF pc[u] = "asleep" THEN "relock" ELSE pc[u])
    BY <1>1, <2>2, <2>3, NodesSignal, SemAssumption DEF SemInv, SemTypes, ULabels
  <2> QED
    BY <2>4 DEF Awake
<1> QED
  BY <1>2, <1>3, <1>6, <1>7 DEF SemInv

LEMMA SemCondStep == ASSUME SemInv, NEW t \in THREADS, SemCond(t) PROVE SemInv'
<1>1. PICK l \in {"relock", "asleep", "test"} :
        /\ pc' = [pc EXCEPT ![t] = l] /\ UNCHANGED <<cvOwner, queue, walk, signaled, value>>
        /\ pc[t] \in {"wait", "relock"} /\ owner' \in {owner, t}
        /\ l = "asleep" => pc[t] = "wait" /\ t \notin signaled
        /\ pc[t] = "wait" /\ t \notin signaled => l = "asleep"
  BY DEF SemCond, CondSleep, CondRelock, At, Goto, Lock
<1>2. SemTypes'
  BY <1>1 DEF SemInv, SemTypes, CondTypes, ULabels
<1>3. NodeInv'
  BY <1>1, NodesStay DEF SemInv, SemTypes, ULabels
<1>4. Inside' = Inside
  BY <1>1 DEF Inside, SemInv, SemTypes, CondTypes
<1>5. \A u \in THREADS : Awake(u) => Awake(u)'
  BY <1>1 DEF Awake, SemInv, SemTypes, CondTypes
<1> QED
  BY <1>1, <1>2, <1>3, <1>4, <1>5 DEF SemInv, UnitsInv, AwakeInv

LEMMA SemInvStep == ASSUME SemInv, [SemNext]_semVars PROVE SemInv'
<1>1. CASE UNCHANGED semVars
  <2>1. UNCHANGED <<pc, owner, cvOwner, queue, walk, signaled, value>>
    BY <1>1 DEF semVars, condVars
  <2> QED
    BY <2>1, NodesUnchanged DEF SemInv, SemTypes, CondTypes,
                UnitsInv, Inside, AwakeInv, Awake
<1>2. CASE SemNext
  BY <1>2, SemWaitStep, SemBlockStep, SemTakeStep, SemSignalStep, SemCondStep DEF SemNext
<1> QED
  BY <1>1, <1>2

\* No thread sleeps in sem_wait while there is a unit for it, if the semaphore
\* starts with one (with two it may: the run sem_lost).
THEOREM SemNoUnitUnused == ASSUME count = 1 PROVE SemSpec => []NoUnitUnused
<1>1. SemInit => SemInv
  BY SemInitInv
<1>2. SemInv /\ [SemNext]_semVars => SemInv'
  BY SemInvStep
<1>3. SemInv => NoUnitUnused
  <2> SUFFICES ASSUME SemInv, queue[value_cv] # <<>>
               PROVE  value <= Cardinality({t \in THREADS : Awake(t)})
    BY DEF NoUnitUnused, Awake, At
  <2>1. value \in {0, 1}
    BY FS_CardinalityType DEF SemInv, SemTypes, UnitsInv
  <2>2. IsFiniteSet({t \in THREADS : Awake(t)})
    BY SemAssumption, FS_Subset
  <2>3. Cardinality({t \in THREADS : Awake(t)}) \in Nat
    BY <2>2, FS_CardinalityType
  <2>4. value # 0 => Cardinality({t \in THREADS : Awake(t)}) # 0
    BY <2>2, FS_EmptySet DEF SemInv, AwakeInv
  <2> QED
    BY <2>1, <2>3, <2>4
<1> QED
  BY <1>1, <1>2, <1>3, PTL DEF SemSpec

\* At most count threads have passed sem_wait and not yet called sem_signal.
THEOREM SemAtMostCount == SemSpec => [](Cardinality(Inside) <= count)
<1>1. SemInit => SemInv
  BY SemInitInv
<1>2. SemInv /\ [SemNext]_semVars => SemInv'
  BY SemInvStep
<1>3. SemInv => Cardinality(Inside) <= count
  BY SemAssumption, FS_CardinalityType DEF SemInv, SemTypes, UnitsInv
<1> QED
  BY <1>1, <1>2, <1>3, PTL DEF SemSpec

-----------------------------------------------------------------------------
(* Reader/writer locks *)

RwTypes ==
  /\ CondTypes
  /\ use \in Uses
  /\ mode \in [THREADS -> {"READ", "WRITE"}]
  /\ status \in {"UNLOCK", "READ", "WRITE"}
  /\ num_reader \in Int

\* A thread that tests or changes the lock's state holds its mutex.
RwMutexInv == \A t \in THREADS : pc[t] \in {"test", "walk", "unlock"} => owner = t

\* The state says who is inside, and num_reader how many readers.
RwStateInv ==
  /\ status = "UNLOCK" => Inside = {}
  /\ status = "READ" => /\ \A t \in Inside : mode[t] = "READ"
                        /\ IsFiniteSet(Inside) /\ num_reader = Cardinality(Inside)
  /\ status = "WRITE" => \A t, u \in Inside : t = u /\ mode[t] = "WRITE"
  /\ status # "READ" => num_reader = 0

RwInv == RwTypes /\ NodeInv /\ (NobodyDowngrades => RwMutexInv /\ RwStateInv)

LEMMA RwInitInv == ASSUME RwInit PROVE RwInv
<1>1. RwTypes
  <2>1. CondTypes
    BY DEF RwInit, CondInit, CondTypes, ULabels
  <2> QED
    BY <2>1 DEF RwInit, RwTypes
<1>2. NodeInv
  <2>1. \A c \in CVS : Len(Pending(c)) = 0
    BY DEF RwInit, CondInit, Pending
  <2>2. WalkInv
    BY DEF RwInit, CondInit, WalkInv
  <2> QED
    BY <2>1, <2>2 DEF NodeInv, PendingWait, PendingOnce
<1>3. RwMutexInv /\ RwStateInv
  <2>1. Inside = {} /\ status = "UNLOCK" /\ num_reader = 0
    BY DEF Inside, RwInit, CondInit
  <2> QED
    BY <2>1 DEF RwInit, CondInit, RwMutexInv, RwStateInv
<1> QED
  BY <1>1, <1>2, <1>3 DEF RwInv

\* Steps at which nobody comes in or leaves.
LEMMA RwOutside ==
  ASSUME RwInv, Inside' = Inside, UNCHANGED <<status, num_reader>>,
         \A t \in Inside : mode'[t] = mode[t], NobodyDowngrades
  PROVE  RwStateInv'
  BY DEF RwInv, RwStateInv

LEMMA RwLockStep == ASSUME RwInv, NEW t \in THREADS, RwLock(t) PROVE RwInv'
<1>1. /\ pc[t] = "out" /\ pc' = [pc EXCEPT ![t] = "test"] /\ owner = None /\ owner' = t
      /\ UNCHANGED <<cvOwner, queue, walk, signaled, use, status, num_reader>>
  BY DEF RwLock, At, Lock, Goto
<1>2. RwTypes'
  <2>1. CondTypes'
    BY <1>1 DEF RwInv, RwTypes, CondTypes, ULabels
  <2>2. mode' \in [THREADS -> {"READ", "WRITE"}]
    BY DEF RwInv, RwTypes, RwLock
  <2> QED
    BY <1>1, <2>1, <2>2 DEF RwInv, RwTypes
<1>3. NodeInv'
  BY <1>1, NodesStay DEF RwInv, RwTypes, ULabels
<1>4. ASSUME NobodyDowngrades'
      PROVE  RwMutexInv' /\ RwStateInv'
  <2>1. NobodyDowngrades
    BY <1>1, <1>4 DEF NobodyDowngrades
  <2>2. RwMutexInv'
    BY <1>1, <2>1, RwAssumption DEF RwInv, RwTypes, CondTypes, RwMutexInv
  <2>3. Inside' = Inside
    BY <1>1 DEF Inside, RwInv, RwTypes, CondTypes
  <2>4. \A u \in Inside : mode'[u] = mode[u]
    BY <1>1 DEF Inside, RwLock, RwInv, RwTypes
  <2> QED
    BY <1>1, <2>1, <2>2, <2>3, <2>4, RwOutside
<1> QED
  BY <1>2, <1>3, <1>4 DEF RwInv

\* A thread that holds the mutex gives it up: nobody else is in its section.
LEMMA RwMutexGiven ==
  ASSUME RwInv, NobodyDowngrades, NEW t \in THREADS, owner = t, NEW l \in {"in", "out", "wait"},
         pc' = [pc EXCEPT ![t] = l]
  PROVE  RwMutexInv'
  BY DEF RwInv, RwTypes, CondTypes, RwMutexInv

LEMMA RwReadStep == ASSUME RwInv, NEW t \in THREADS, RwRead(t) PROVE RwInv'
<1>1. /\ pc[t] = "test" /\ mode[t] = "READ" /\ status # "WRITE" /\ status' = "READ"
      /\ num_reader' = num_reader + 1 /\ owner = t /\ owner' = None
      /\ pc' = [pc EXCEPT ![t] = "in"]
      /\ UNCHANGED <<cvOwner, queue, walk, signaled, use, mode>>
  BY DEF RwRead, At, Unlock, Goto
<1>2. RwTypes'
  BY <1>1 DEF RwInv, RwTypes, CondTypes, ULabels
<1>3. NodeInv'
  BY <1>1, NodesStay DEF RwInv, RwTypes, ULabels
<1>4. ASSUME NobodyDowngrades'
      PROVE  RwMutexInv' /\ RwStateInv'
  <2>1. NobodyDowngrades
    BY <1>1, <1>4 DEF NobodyDowngrades
  <2>2. RwMutexInv'
    BY <1>1, <2>1, RwMutexGiven
  <2>3. Inside' = Inside \cup {t} /\ t \notin Inside
    BY <1>1 DEF Inside, RwInv, RwTypes, CondTypes
  <2>4. /\ IsFiniteSet(Inside) /\ num_reader = Cardinality(Inside)
        /\ \A u \in Inside : mode[u] = "READ"
    <3>1. CASE status = "READ"
      BY <2>1, <3>1 DEF RwInv, RwStateInv
    <3>2. CASE status = "UNLOCK"
      <4>1. Inside = {} /\ num_reader = 0
        BY <2>1, <3>2 DEF RwInv, RwStateInv
      <4> QED
        BY <4>1, FS_EmptySet
    <3> QED
      BY <1>1, <3>1, <3>2 DEF RwInv, RwTypes
  <2>5. IsFiniteSet(Inside') /\ Cardinality(Inside') = Cardinality(Inside) + 1
    BY <2>3, <2>4, FS_AddElement
  <2>6. RwStateInv'
    BY <1>1, <2>3, <2>4, <2>5 DEF RwStateInv
  <2> QED
    BY <2>2, <2>6
<1> QED
  BY <1>2, <1>3, <1>4 DEF RwInv

LEMMA RwWriteStep == ASSUME RwInv, NEW t \in THREADS, RwWrite(t) PROVE RwInv'
<1>1. /\ pc[t] = "test" /\ mode[t] = "WRITE" /\ status = "UNLOCK" /\ status' = "WRITE"
      /\ owner = t /\ owner' = None /\ pc' = [pc EXCEPT ![t] = "in"]
      /\ UNCHANGED <<cvOwner, queue, walk, signaled, use, mode, num_reader>>
  BY DEF RwWrite, At, Unlock, Goto
<1>2. RwTypes'
  BY <1>1 DEF RwInv, RwTypes, CondTypes, ULabels
<1>3. NodeInv'
  BY <1>1, NodesStay DEF RwInv, RwTypes, ULabels
<1>4. ASSUME NobodyDowngrades'
      PROVE  RwMutexInv' /\ RwStateInv'
  <2>1. NobodyDowngrades
    BY <1>1, <1>4 DEF NobodyDowngrades
  <2>2. RwMutexInv'
    BY <1>1, <2>1, RwMutexGiven
  <2>3. Inside = {} /\ num_reader = 0
    BY <1>1, <2>1 DEF RwInv, RwStateInv
  <2>4. Inside' = {t}
    BY <1>1, <2>3 DEF Inside, RwInv, RwTypes, CondTypes
  <2>5. RwStateInv'
    BY <1>1, <2>3, <2>4 DEF RwStateInv
  <2> QED
    BY <2>2, <2>5
<1> QED
  BY <1>2, <1>3, <1>4 DEF RwInv

LEMMA RwBlockStep == ASSUME RwInv, NEW t \in THREADS, RwBlock(t) PROVE RwInv'
<1>1. PICK c \in CVS : CondWait(t, c)
  BY RwAssumption DEF RwBlock
<1>2. /\ pc[t] = "test" /\ status = "WRITE" /\ cvOwner[c] = None
      /\ queue' = [queue EXCEPT ![c] = Append(@, t)] /\ signaled' = signaled \ {t}
      /\ owner = t /\ owner' = None /\ pc' = [pc EXCEPT ![t] = "wait"]
      /\ UNCHANGED <<cvOwner, walk, use, mode, status, num_reader>>
  BY <1>1 DEF RwBlock, CondWait, At, Unlock, Goto
<1>3. RwTypes'
  <2>1. queue' \in [CVS -> Seq(THREADS)]
    BY <1>2 DEF RwInv, RwTypes, CondTypes
  <2> QED
    BY <1>2, <2>1 DEF RwInv, RwTypes, CondTypes, ULabels
<1>4. NodeInv'
  BY <1>2, NodesWait, RwAssumption DEF RwInv, RwTypes
<1>5. ASSUME NobodyDowngrades'
      PROVE  RwMutexInv' /\ RwStateInv'
  <2>1. NobodyDowngrades
    BY <1>2, <1>5 DEF NobodyDowngrades
  <2>2. RwMutexInv'
    BY <1>2, <2>1, RwMutexGiven
  <2>3. Inside' = Inside
    BY <1>2 DEF Inside, RwInv, RwTypes, CondTypes
  <2> QED
    BY <1>2, <2>1, <2>2, <2>3, RwOutside
<1> QED
  BY <1>3, <1>4, <1>5 DEF RwInv

LEMMA RwAffirmStep == ASSUME RwInv, NEW t \in THREADS, RwAffirm(t) PROVE RwInv'
<1>1. UNCHANGED <<pc, owner, cvOwner, queue, walk, signaled, use, mode, status, num_reader>>
  BY DEF RwAffirm, condVars
<1> QED
  BY <1>1, NodesUnchanged DEF RwInv, RwTypes, CondTypes,
              RwMutexInv, RwStateInv, Inside, NobodyDowngrades

LEMMA RwUnlockReadStep ==
  ASSUME RwInv, NEW t \in THREADS, RwUnlockRead(t) PROVE RwInv'
<1>1. /\ pc[t] = "in" /\ owner = None /\ owner' = t /\ status = "READ"
      /\ num_reader' = num_reader - 1 /\ UNCHANGED <<queue, signaled, use, mode>>
  BY DEF RwUnlockRead, At, Lock
<1>2. \/ /\ num_reader = 1 /\ status' = "UNLOCK" /\ CondBroadcast(t, writer_cv)
      \/ /\ num_reader # 1 /\ pc' = [pc EXCEPT ![t] = "unlock"]
         /\ UNCHANGED <<status, cvOwner, walk>>
  BY DEF RwUnlockRead, Goto
<1>3. RwTypes' /\ pc'[t] \in {"walk", "unlock"} /\ \A u \in THREADS \ {t} : pc'[u] = pc[u]
  <2>1. pc' \in [THREADS -> ULabels] /\ cvOwner' \in [CVS -> THREADS \cup {None}]
        /\ walk' \in [THREADS -> Seq(THREADS)]
        /\ pc'[t] \in {"walk", "unlock"} /\ \A u \in THREADS \ {t} : pc'[u] = pc[u]
    <3>1. CASE CondBroadcast(t, writer_cv)
      BY <3>1, BroadcastTypes, RwAssumption DEF RwInv, RwTypes
    <3>2. CASE pc' = [pc EXCEPT ![t] = "unlock"] /\ UNCHANGED <<cvOwner, walk>>
      BY <3>2 DEF RwInv, RwTypes, CondTypes, ULabels
    <3> QED
      BY <1>2, <3>1, <3>2
  <2>2. CondTypes'
    BY <1>1, <2>1 DEF RwInv, RwTypes, CondTypes
  <2> QED
    BY <1>1, <1>2, <2>1, <2>2 DEF RwInv, RwTypes
<1>4. NodeInv'
  <2>1. CASE CondBroadcast(t, writer_cv)
    BY <1>1, <2>1, NodesBroadcast, RwAssumption DEF RwInv, RwTypes
  <2>2. CASE pc' = [pc EXCEPT ![t] = "unlock"] /\ UNCHANGED <<cvOwner, walk>>
    BY <1>1, <2>2, NodesStay DEF RwInv, RwTypes, ULabels
  <2> QED
    BY <1>2, <2>1, <2>2
<1>5. ASSUME NobodyDowngrades'
      PROVE  RwMutexInv' /\ RwStateInv'
  <2>1. NobodyDowngrades
    BY <1>1, <1>5 DEF NobodyDowngrades
  <2>2. RwMutexInv'
    BY <1>1, <1>3, <2>1, RwAssumption DEF RwInv, RwMutexInv
  <2>3. Inside' = Inside \ {t} /\ t \in Inside
    BY <1>1, <1>3 DEF Inside
  <2>4. /\ IsFiniteSet(Inside) /\ num_reader = Cardinality(Inside)
        /\ \A u \in Inside : mode[u] = "READ"
    BY <1>1, <2>1 DEF RwInv, RwStateInv
  <2>5. /\ IsFiniteSet(Inside') /\ Cardinality(Inside') = Cardinality(Inside) - 1
        /\ Cardinality(Inside) \in Nat
    BY <2>3, <2>4, FS_RemoveElement, FS_CardinalityType
  <2>6. CASE num_reader = 1
    <3>1. Cardinality(Inside') = 0
      BY <2>4, <2>5, <2>6
    <3>2. Inside' = {}
      BY <2>5, <3>1, FS_EmptySet
    <3> QED
      BY <1>1, <1>2, <2>2, <2>6, <3>2 DEF RwStateInv
  <2>7. CASE num_reader # 1
    BY <1>1, <1>2, <2>2, <2>3, <2>4, <2>5, <2>7 DEF RwStateInv
  <2> QED
    BY <2>6, <2>7
<1> QED
  BY <1>3, <1>4, <1>5 DEF RwInv

LEMMA RwUnlockWriteStep ==
  ASSUME RwInv, NEW t \in THREADS, RwUnlockWrite(t) PROVE RwInv'
<1>1. /\ pc[t] = "in" /\ owner = None /\ owner' = t
      /\ UNCHANGED <<queue, signaled, use, mode, num_reader>>
  BY DEF RwUnlockWrite, At, Lock
<1>2. \/ status = "WRITE" /\ status' = "UNLOCK" /\ CondBroadcast(t, reader_cv)
      \/ status = "UNLOCK" /\ UNCHANGED <<pc, cvOwner, walk, status>>
  BY DEF RwUnlockWrite
<1>3. RwTypes'
  <2>1. pc' \in [THREADS -> ULabels] /\ cvOwner' \in [CVS -> THREADS \cup {None}]
        /\ walk' \in [THREADS -> Seq(THREADS)]
    <3>1. CASE CondBroadcast(t, reader_cv)
      BY <3>1, BroadcastTypes, RwAssumption DEF RwInv, RwTypes
    <3>2. CASE UNCHANGED <<pc, cvOwner, walk>>
      BY <3>2 DEF RwInv, RwTypes, CondTypes, ULabels
    <3> QED
      BY <1>2, <3>1, <3>2
  <2>2. CondTypes'
    BY <1>1, <2>1 DEF RwInv, RwTypes, CondTypes
  <2> QED
    BY <1>1, <1>2, <2>1, <2>2 DEF RwInv, RwTypes
<1>4. NodeInv'
  <2>1. CASE CondBroadcast(t, reader_cv)
    BY <1>1, <2>1, NodesBroadcast, RwAssumption DEF RwInv, RwTypes
  <2>2. CASE UNCHANGED <<pc, cvOwner, walk>>
    BY <1>1, <2>2, NodesUnchanged DEF RwInv
  <2> QED
    BY <1>2, <2>1, <2>2
<1>5. ASSUME NobodyDowngrades'
      PROVE  RwMutexInv' /\ RwStateInv'
  <2>1. NobodyDowngrades
    BY <1>1, <1>5 DEF NobodyDowngrades
  <2>2. t \in Inside
    BY <1>1 DEF Inside
  <2>3. status = "WRITE" /\ Inside = {t} /\ num_reader = 0
    BY <1>2, <2>1, <2>2 DEF RwInv, RwStateInv
  <2>4. status' = "UNLOCK" /\ pc' = [pc EXCEPT ![t] = "walk"]
    BY <1>2, <2>3 DEF CondBroadcast, Goto
  <2>5. RwMutexInv'
    BY <1>1, <2>1, <2>4, RwAssumption DEF RwInv, RwTypes, CondTypes, RwMutexInv
  <2>6. Inside' = {}
    BY <2>3, <2>4 DEF Inside, RwInv, RwTypes, CondTypes
  <2> QED
    BY <1>1, <2>3, <2>4, <2>5, <2>6 DEF RwStateInv
<1> QED
  BY <1>3, <1>4, <1>5 DEF RwInv

LEMMA RwDowngradeStep ==
  ASSUME RwInv, NEW t \in THREADS, RwDowngrade(t) PROVE RwInv'
<1>1. /\ pc[t] = "in" /\ "DOWNGRADE" \in use[t] /\ mode' = [mode EXCEPT ![t] = "READ"]
      /\ UNCHANGED <<owner, queue, signaled, use, num_reader>>
  BY DEF RwDowngrade, At
<1>2. \/ status' = "READ" /\ CondBroadcast(t, reader_cv)
      \/ UNCHANGED <<pc, cvOwner, walk, status>>
  BY DEF RwDowngrade
<1>3. RwTypes'
  <2>1. pc' \in [THREADS -> ULabels] /\ cvOwner' \in [CVS -> THREADS \cup {None}]
        /\ walk' \in [THREADS -> Seq(THREADS)]
    <3>1. CASE CondBroadcast(t, reader_cv)
      BY <3>1, BroadcastTypes, RwAssumption DEF RwInv, RwTypes
    <3>2. CASE UNCHANGED <<pc, cvOwner, walk>>
      BY <3>2 DEF RwInv, RwTypes, CondTypes, ULabels
    <3> QED
      BY <1>2, <3>1, <3>2
  <2>2. CondTypes'
    BY <1>1, <2>1 DEF RwInv, RwTypes, CondTypes
  <2> QED
    BY <1>1, <1>2, <2>1, <2>2 DEF RwInv, RwTypes
<1>4. NodeInv'
  <2>1. CASE CondBroadcast(t, reader_cv)
    BY <1>1, <2>1, NodesBroadcast, RwAssumption DEF RwInv, RwTypes
  <2>2. CASE UNCHANGED <<pc, cvOwner, walk>>
    BY <1>1, <2>2, NodesUnchanged DEF RwInv
  <2> QED
    BY <1>2, <2>1, <2>2
<1>5. ~NobodyDowngrades'
  BY <1>1 DEF NobodyDowngrades
<1> QED
  BY <1>3, <1>4, <1>5 DEF RwInv

LEMMA RwWalkEndStep ==
  ASSUME RwInv, NEW t \in THREADS, RwWalkEnd(t) PROVE RwInv'
<1>1. PICK c \in CVS : CondBroadcastEnd(t, c, IF owner = t THEN "unlock" ELSE "in")
  BY DEF RwWalkEnd
<1>2. /\ pc[t] = "walk" /\ pc' = [pc EXCEPT ![t] = IF owner = t THEN "unlock" ELSE "in"]
      /\ queue' = [queue EXCEPT ![c] = <<>>] /\ cvOwner' = [cvOwner EXCEPT ![c] = None]
      /\ UNCHANGED <<owner, walk, signaled, use, mode, status, num_reader>>
  BY <1>1 DEF RwWalkEnd, CondBroadcastEnd, At, Goto
<1>3. RwTypes'
  <2>1. queue' \in [CVS -> Seq(THREADS)]
    BY <1>2 DEF RwInv, RwTypes, CondTypes
  <2> QED
    BY <1>2, <2>1 DEF RwInv, RwTypes, CondTypes, ULabels
<1>4. NodeInv'
  BY <1>1, <1>2, NodesEnd, RwAssumption DEF RwInv, RwTypes, ULabels
<1>5. ASSUME NobodyDowngrades'
      PROVE  RwMutexInv' /\ RwStateInv'
  <2>1. NobodyDowngrades
    BY <1>2, <1>5 DEF NobodyDowngrades
  <2>2. owner = t
    BY <1>2, <2>1 DEF RwInv, RwMutexInv
  <2>3. RwMutexInv'
    BY <1>2, <2>1, <2>2 DEF RwInv, RwTypes, CondTypes, RwMutexInv
  <2>4. Inside' = Inside
    BY <1>2, <2>2 DEF Inside, RwInv, RwTypes, CondTypes
  <2> QED
    BY <1>2, <2>1, <2>3, <2>4, RwOutside
<1> QED
  BY <1>3, <1>4, <1>5 DEF RwInv

LEMMA RwUnlockedStep ==
  ASSUME RwInv, NEW t \in THREADS, RwUnlocked(t) PROVE RwInv'
<1>1. /\ pc[t] = "unlock" /\ owner = t /\ owner' = None /\ pc' = [pc EXCEPT ![t] = "out"]
      /\ UNCHANGED <<cvOwner, queue, walk, signaled, use, mode, status, num_reader>>
  BY DEF RwUnlocked, At, Unlock, Goto
<1>2. RwTypes'
  BY <1>1 DEF RwInv, RwTypes, CondTypes, ULabels
<1>3. NodeInv'
  BY <1>1, NodesStay DEF RwInv, RwTypes, ULabels
<1>4. ASSUME NobodyDowngrades'
      PROVE  RwMutexInv' /\ RwStateInv'
  <2>1. NobodyDowngrades
    BY <1>1, <1>4 DEF NobodyDowngrades
  <2>2. RwMutexInv'
    BY <1>1, <2>1, RwMutexGiven
  <2>3. Inside' = Inside
    BY <1>1 DEF Inside, RwInv, RwTypes, CondTypes
  <2> QED
    BY <1>1, <2>1, <2>2, <2>3, RwOutside
<1> QED
  BY <1>2, <1>3, <1>4 DEF RwInv

LEMMA RwCondStep == ASSUME RwInv, NEW t \in THREADS, RwCond(t) PROVE RwInv'
<1>1. UNCHANGED <<use, mode, status, num_reader>>
  BY DEF RwCond
<1>2. CASE CondSleep(t)
  <2>1. PICK l \in {"relock", "asleep"} :
          /\ pc[t] = "wait" /\ pc' = [pc EXCEPT ![t] = l] /\ (t \notin signaled => l = "asleep")
          /\ UNCHANGED <<owner, cvOwner, queue, walk, signaled>>
    BY <1>2 DEF CondSleep, At, Goto
  <2>2. RwTypes'
    BY <1>1, <2>1 DEF RwInv, RwTypes, CondTypes, ULabels
  <2>3. NodeInv'
    BY <2>1, NodesStay DEF RwInv, RwTypes, ULabels
  <2>4. ASSUME NobodyDowngrades'
        PROVE  RwMutexInv' /\ RwStateInv'
    <3>1. NobodyDowngrades
      BY <1>1, <2>4 DEF NobodyDowngrades
    <3>2. RwMutexInv' /\ Inside' = Inside
      BY <2>1, <3>1 DEF Inside, RwInv, RwTypes, CondTypes, RwMutexInv
    <3> QED
      BY <1>1, <3>1, <3>2, RwOutside
  <2> QED
    BY <2>2, <2>3, <2>4 DEF RwInv
<1>3. CASE CondRelock(t)
  <2>1. /\ pc[t] = "relock" /\ owner = None /\ owner' = t /\ pc' = [pc EXCEPT ![t] = "test"]
        /\ UNCHANGED <<cvOwner, queue, walk, signaled>>
    BY <1>3 DEF CondRelock, At, Goto, Lock
  <2>2. RwTypes'
    BY <1>1, <2>1 DEF RwInv, RwTypes, CondTypes, ULabels
  <2>3. NodeInv'
    BY <2>1, NodesStay DEF RwInv, RwTypes, ULabels
  <2>4. ASSUME NobodyDowngrades'
        PROVE  RwMutexInv' /\ RwStateInv'
    <3>1. NobodyDowngrades
      BY <1>1, <2>4 DEF NobodyDowngrades
    <3>2. RwMutexInv' /\ Inside' = Inside
      BY <2>1, <3>1, RwAssumption DEF Inside, RwInv, RwTypes, CondTypes, RwMutexInv
    <3> QED
      BY <1>1, <3>1, <3>2, RwOutside
  <2> QED
    BY <2>2, <2>3, <2>4 DEF RwInv
<1>4. CASE CondBroadcastOne(t)
  <2>1. PICK u \in THREADS : u = Head(walk[t]) /\ pc[u] \in {"wait", "asleep"}
    BY <1>4, NodesOne, RwAssumption DEF RwInv, RwTypes
  <2>2. /\ walk[t] # <<>> /\ walk' = [walk EXCEPT ![t] = Tail(@)]
        /\ signaled' = signaled \cup {u} /\ UNCHANGED <<owner, cvOwner, queue>>
        /\ pc' = [pc EXCEPT ![u] = IF pc[u] = "asleep" THEN "relock" ELSE pc[u]]
    BY <1>4, <2>1 DEF CondBroadcastOne, AfterSignal
  <2>3. RwTypes'
    <3>1. walk' \in [THREADS -> Seq(THREADS)]
      BY <2>2 DEF RwInv, RwTypes, CondTypes
    <3>2. pc' \in [THREADS -> ULabels]
      BY <2>1, <2>2 DEF RwInv, RwTypes, CondTypes, ULabels
    <3> QED
      BY <1>1, <2>2, <3>1, <3>2 DEF RwInv, RwTypes, CondTypes
  <2>4. NodeInv'
    BY <1>4, NodesOne, RwAssumption DEF RwInv, RwTypes
  <2>5. ASSUME NobodyDowngrades'
        PROVE  RwMutexInv' /\ RwStateInv'
    <3>1. NobodyDowngrades
      BY <1>1, <2>5 DEF NobodyDowngrades
    <3>2. RwMutexInv' /\ Inside' = Inside
      BY <2>1, <2>2, <3>1 DEF Inside, RwInv, RwTypes, CondTypes, RwMutexInv
    <3> QED
      BY <1>1, <3>1, <3>2, RwOutside
  <2> QED
    BY <2>3, <2>4, <2>5 DEF RwInv
<1> QED
  BY <1>2, <1>3, <1>4 DEF RwCond

LEMMA RwInvStep == ASSUME RwInv, [RwNext]_rwVars PROVE RwInv'
<1>1. CASE UNCHANGED rwVars
  <2>1. UNCHANGED <<pc, owner, cvOwner, queue, walk, signaled, use, mode, status, num_reader>>
    BY <1>1 DEF rwVars, condVars
  <2> QED
    BY <2>1, NodesUnchanged DEF RwInv, RwTypes, CondTypes,
                RwMutexInv, RwStateInv, Inside, NobodyDowngrades
<1>2. CASE RwNext
  BY <1>2, RwLockStep, RwReadStep, RwWriteStep, RwBlockStep, RwAffirmStep, RwUnlockReadStep,
     RwUnlockWriteStep, RwDowngradeStep, RwWalkEndStep, RwUnlockedStep, RwCondStep
     DEF RwNext, RwStep
<1> QED
  BY <1>1, <1>2

\* A broadcast of a reader/writer lock, also one that is downgraded meanwhile,
\* reads only nodes of threads that are still in cond_wait.
THEOREM RwNodesAlive == RwSpec => []NodesAlive
<1>1. RwInit => RwInv
  BY RwInitInv
<1>2. RwInv /\ [RwNext]_rwVars => RwInv'
  BY RwInvStep
<1>3. RwInv => NodesAlive
  BY NodesAliveFromInv, RwAssumption DEF RwInv, RwTypes
<1> QED
  BY <1>1, <1>2, <1>3, PTL DEF RwSpec

\* Without downgrades a writer holds a reader/writer lock alone.
THEOREM RwWriterAlone == RwSpec => []WriterAlone
<1>1. RwInit => RwInv
  BY RwInitInv
<1>2. RwInv /\ [RwNext]_rwVars => RwInv'
  BY RwInvStep
<1>3. RwInv => WriterAlone
  <2> SUFFICES ASSUME RwInv, NobodyDowngrades, NEW t \in THREADS, NEW u \in THREADS,
                      pc[t] = "in", mode[t] = "WRITE", pc[u] = "in"
               PROVE  t = u
    BY DEF WriterAlone, At
  <2> QED
    BY DEF RwInv, RwTypes, RwStateInv, Inside
<1> QED
  BY <1>1, <1>2, <1>3, PTL DEF RwSpec

-----------------------------------------------------------------------------
(* Threads *)

ThrTypes ==
  /\ CondTypes
  /\ tcb \in [THREADS -> TCBS \cup {None}] /\ utid \in [TCBS -> THREADS \cup {None}]
  /\ work \in [THREADS -> TCBS \cup {None}] /\ freeTcbs \in Seq(TCBS)
  /\ tree \subseteq TCBS /\ mapped \subseteq TCBS
  /\ exited \subseteq TCBS /\ waiter \subseteq TCBS

\* A thread between two steps of one locked section holds tcb_lock.
ThrMutexInv == \A t \in THREADS : pc[t] \in {"insert", "test", "exit"} => owner = t

\* Where the blocks are: in the tree, free, or being set up.
BlockInv ==
  /\ \A i, j \in 1 .. Len(freeTcbs) : freeTcbs[i] = freeTcbs[j] => i = j
  /\ \A i \in 1 .. Len(freeTcbs) : freeTcbs[i] \notin tree \cup mapped \cup {mainTcb}
  /\ tree \subseteq mapped
  /\ \A b \in mapped : \/ b \in tree \cup {mainTcb}
                       \/ \E t \in THREADS : pc[t] = "insert" /\ work[t] = b
  /\ \A t \in THREADS : pc[t] = "insert" =>
       /\ work[t] \in mapped \ tree
       /\ \A i \in 1 .. Len(freeTcbs) : freeTcbs[i] # work[t]

InTree(t) == tcb[t] \in tree /\ utid[tcb[t]] = t

\* A thread's block is its own and in the tree, or its creator is still to put it
\* there.
OwnBlock ==
  /\ \A t, u \in THREADS : UsesStack(t) /\ UsesStack(u) /\ tcb[t] = tcb[u] => t = u
  /\ \A t \in THREADS : UsesStack(t) =>
       \/ InTree(t)
       \/ pc[t] = "begin" /\ \E c \in THREADS : pc[c] = "insert" /\ work[c] = tcb[t]
  /\ \A t \in THREADS : UsesStack(t) /\ tcb[t] \in exited => pc[t] = "exit"

Joins(t) == pc[t] \in {"wait", "asleep", "relock", "test"}

\* A block has one joiner, who goes on when its thread has exited.
JoinInv ==
  /\ \A t \in THREADS : Joins(t) => work[t] \in tree \cap waiter
  /\ \A t, u \in THREADS : Joins(t) /\ Joins(u) /\ work[t] = work[u] => t = u
  /\ \A t \in THREADS :
       (pc[t] \in {"relock", "test"} \/ (pc[t] = "wait" /\ t \in signaled)) => work[t] \in exited
  /\ \A b \in TCBS : queue[b] # <<>> => \E t \in THREADS :
       queue[b] = <<t>> /\ pc[t] \in {"wait", "asleep"} /\ t \notin signaled /\ work[t] = b

ThrInv == ThrTypes /\ ThrMutexInv /\ BlockInv /\ OwnBlock /\ JoinInv

LEMMA ThrInitInv == ASSUME ThrInit PROVE ThrInv
<1>1. ThrTypes /\ ThrMutexInv
  BY ThrAssumption DEF ThrInit, ThrTypes, CondTypes, ULabels, ThrMutexInv
<1>2. BlockInv /\ OwnBlock /\ JoinInv
  BY ThrAssumption DEF ThrInit, BlockInv, OwnBlock, JoinInv, Joins, InTree, UsesStack
<1> QED
  BY <1>1, <1>2 DEF ThrInv

LEMMA BeginStep == ASSUME ThrInv, NEW t \in THREADS, Begin(t) PROVE ThrInv'
<1>1. /\ pc[t] = "begin" /\ owner = None /\ pc' = [pc EXCEPT ![t] = "out"]
      /\ UNCHANGED <<owner, cvOwner, queue, walk, signaled, tcb, utid, tree, freeTcbs, mapped,
                     exited, waiter, work>>
  BY DEF Begin, At, Goto, tcbVars
<1>2. ThrTypes'
  BY <1>1 DEF ThrInv, ThrTypes, CondTypes, ULabels
<1>3. ThrMutexInv'
  BY <1>1, ThrAssumption DEF ThrInv, ThrTypes, CondTypes, ThrMutexInv
<1>4. BlockInv'
  BY <1>1 DEF ThrInv, ThrTypes, CondTypes, ThrMutexInv, BlockInv
<1>5. OwnBlock'
  BY <1>1, ThrAssumption DEF ThrInv, ThrTypes, CondTypes, ThrMutexInv, OwnBlock, UsesStack, InTree
<1>6. JoinInv'
  BY <1>1, ThrAssumption DEF ThrInv, ThrTypes, CondTypes, ThrMutexInv, JoinInv, Joins
<1> QED
  BY <1>2, <1>3, <1>4, <1>5, <1>6 DEF ThrInv

LEMMA CreateInsertStep == ASSUME ThrInv, NEW t \in THREADS, CreateInsert(t) PROVE ThrInv'
<1>1. PICK u \in THREADS :
        /\ pc[t] = "insert" /\ owner = t /\ owner' = None /\ tcb[u] = work[t] /\ pc[u] = "begin"
        /\ utid' = [utid EXCEPT ![work[t]] = u] /\ tree' = tree \cup {work[t]}
        /\ work' = [work EXCEPT ![t] = None] /\ pc' = [pc EXCEPT ![t] = "out"]
        /\ UNCHANGED <<cvOwner, queue, walk, signaled, tcb, freeTcbs, mapped, exited, waiter>>
  BY DEF CreateInsert, At, Unlock, Goto
<1>2. ThrTypes'
  BY <1>1 DEF ThrInv, ThrTypes, CondTypes, ULabels, BlockInv
<1>3. ThrMutexInv'
  BY <1>1, ThrAssumption DEF ThrInv, ThrTypes, CondTypes, ThrMutexInv
<1>4. BlockInv'
  BY <1>1 DEF ThrInv, ThrTypes, CondTypes, ThrMutexInv, BlockInv
<1>5. OwnBlock'
  <2>1. \A v \in THREADS : pc[v] = "insert" => v = t
    BY <1>1, ThrAssumption DEF ThrInv, ThrMutexInv
  <2>2. \A v \in THREADS : UsesStack(v)' => UsesStack(v)
    BY <1>1 DEF UsesStack, ThrInv, ThrTypes, CondTypes
  <2>3. ASSUME NEW v \in THREADS, NEW w \in THREADS, UsesStack(v)', UsesStack(w)', tcb'[v] = tcb'[w]
        PROVE  v = w
    BY <1>1, <2>2, <2>3 DEF ThrInv, OwnBlock
  <2>4. ASSUME NEW v \in THREADS, UsesStack(v)'
        PROVE  \/ InTree(v)'
               \/ pc'[v] = "begin" /\ \E c \in THREADS : pc'[c] = "insert" /\ work'[c] = tcb'[v]
    <3>1. UsesStack(v) /\ UsesStack(u) /\ pc'[v] = (IF v = t THEN "out" ELSE pc[v])
      BY <1>1, <2>2, <2>4 DEF UsesStack, ThrInv, ThrTypes, CondTypes
    <3>2. CASE InTree(v)
      BY <1>1, <3>2 DEF InTree, ThrInv, ThrTypes, BlockInv
    <3>3. CASE tcb[v] = work[t]
      <4>1. v = u
        BY <1>1, <3>1, <3>3 DEF ThrInv, OwnBlock
      <4> QED
        BY <1>1, <4>1, <3>3 DEF InTree, ThrInv, ThrTypes, BlockInv
    <3> QED
      BY <2>1, <3>1, <3>2, <3>3 DEF ThrInv, OwnBlock
  <2>5. ASSUME NEW v \in THREADS, UsesStack(v)', tcb'[v] \in exited'
        PROVE  pc'[v] = "exit"
    BY <1>1, <2>2, <2>5 DEF ThrInv, ThrTypes, CondTypes, OwnBlock
  <2> QED
    BY <2>3, <2>4, <2>5 DEF OwnBlock
<1>6. JoinInv'
  BY <1>1, ThrAssumption DEF ThrInv, ThrTypes, CondTypes, ThrMutexInv, JoinInv, Joins
<1> QED
  BY <1>2, <1>3, <1>4, <1>5, <1>6 DEF ThrInv

LEMMA JoinReapStep == ASSUME ThrInv, NEW t \in THREADS, JoinReap(t) PROVE ThrInv'
<1>1. /\ pc[t] = "test" /\ owner = t /\ owner' = None /\ tree' = tree \ {work[t]}
      /\ work' = [work EXCEPT ![t] = None] /\ pc' = [pc EXCEPT ![t] = "out"]
      /\ IF work[t] = mainTcb THEN UNCHANGED <<mapped, freeTcbs>>
         ELSE mapped' = mapped \ {work[t]} /\ freeTcbs' = <<work[t]>> \o freeTcbs
      /\ UNCHANGED <<cvOwner, queue, walk, signaled, tcb, utid, exited, waiter>>
  BY DEF JoinReap, At, Unlock, Goto
<1>2. ThrTypes'
  <2>1. work[t] \in TCBS
    BY <1>1 DEF ThrInv, ThrTypes, JoinInv, Joins
  <2>2. freeTcbs' \in Seq(TCBS)
    <3>1. PICK b \in TCBS : b = work[t]
      BY <2>1
    <3>2. freeTcbs' = freeTcbs \/ freeTcbs' = <<b>> \o freeTcbs
      BY <1>1, <3>1
    <3>3. freeTcbs \in Seq(TCBS)
      BY DEF ThrInv, ThrTypes
    <3>4. \A f \in Seq(TCBS) : <<b>> \o f \in Seq(TCBS)
      OBVIOUS
    <3> QED
      BY <3>2, <3>3, <3>4
  <2> QED
    BY <1>1, <2>2 DEF ThrInv, ThrTypes, CondTypes, ULabels
<1>3. ThrMutexInv'
  BY <1>1, ThrAssumption DEF ThrInv, ThrTypes, CondTypes, ThrMutexInv
<1>4. BlockInv'
  <2>1. work[t] \in tree /\ work[t] \in TCBS
    BY <1>1 DEF ThrInv, ThrTypes, JoinInv, Joins
  <2>2. \A v \in THREADS : pc[v] # "insert" /\ pc'[v] # "insert"
    BY <1>1 DEF ThrInv, ThrTypes, CondTypes, ThrMutexInv
  <2>3. CASE work[t] = mainTcb
    BY <1>1, <2>1, <2>2, <2>3 DEF ThrInv, ThrTypes, BlockInv
  <2>4. CASE work[t] # mainTcb
    <3>1. freeTcbs \in Seq(TCBS) /\ Len(freeTcbs) \in Nat
      BY DEF ThrInv, ThrTypes
    <3>2. /\ Len(freeTcbs') = Len(freeTcbs) + 1 /\ freeTcbs'[1] = work[t]
          /\ \A i \in 2 .. Len(freeTcbs') : /\ i - 1 \in 1 .. Len(freeTcbs)
                                          /\ freeTcbs'[i] = freeTcbs[i - 1]
      BY <1>1, <2>1, <2>4, <3>1
    <3>3. \A i, j \in 1 .. Len(freeTcbs') : freeTcbs'[i] = freeTcbs'[j] => i = j
      <4> SUFFICES ASSUME NEW i \in 1 .. Len(freeTcbs'), NEW j \in 1 .. Len(freeTcbs'),
                          freeTcbs'[i] = freeTcbs'[j]
                   PROVE  i = j
        OBVIOUS
      <4>1. i = 1 \/ i \in 2 .. Len(freeTcbs')
        BY <3>1, <3>2
      <4>2. j = 1 \/ j \in 2 .. Len(freeTcbs')
        BY <3>1, <3>2
      <4>3. \A k \in 1 .. Len(freeTcbs) : freeTcbs[k] # work[t]
        BY <2>1 DEF ThrInv, BlockInv
      <4>4. CASE i \in 2 .. Len(freeTcbs') /\ j \in 2 .. Len(freeTcbs')
        <5>1. /\ i - 1 \in 1 .. Len(freeTcbs) /\ j - 1 \in 1 .. Len(freeTcbs)
              /\ freeTcbs[i - 1] = freeTcbs[j - 1]
          BY <3>2, <4>4
        <5>2. i - 1 = j - 1
          BY <5>1 DEF ThrInv, BlockInv
        <5> QED
          BY <4>4, <5>2
      <4> QED
        BY <3>2, <4>1, <4>2, <4>3, <4>4
    <3>4. \A i \in 1 .. Len(freeTcbs') : freeTcbs'[i] \notin tree' \cup mapped' \cup {mainTcb}
      <4> SUFFICES ASSUME NEW i \in 1 .. Len(freeTcbs')
                   PROVE  freeTcbs'[i] \notin tree' \cup mapped' \cup {mainTcb}
        OBVIOUS
      <4>1. i = 1 \/ i \in 2 .. Len(freeTcbs')
        BY <3>1, <3>2
      <4> QED
        BY <1>1, <2>4, <3>2, <4>1 DEF ThrInv, BlockInv
    <3> QED
      BY <1>1, <2>2, <2>4, <3>3, <3>4 DEF ThrInv, BlockInv
  <2> QED
    BY <2>3, <2>4
<1>5. OwnBlock'
  <2>1. \A v \in THREADS : pc[v] = "insert" => v = t
    BY <1>1, ThrAssumption DEF ThrInv, ThrMutexInv
  <2>2. \A v \in THREADS : UsesStack(v)' => UsesStack(v)
    BY <1>1 DEF UsesStack, ThrInv, ThrTypes, CondTypes
  <2>3. ASSUME NEW v \in THREADS, NEW w \in THREADS, UsesStack(v)', UsesStack(w)', tcb'[v] = tcb'[w]
        PROVE  v = w
    BY <1>1, <2>2, <2>3 DEF ThrInv, OwnBlock
  <2>4. ASSUME NEW v \in THREADS, UsesStack(v)'
        PROVE  \/ InTree(v)'
               \/ pc'[v] = "begin" /\ \E c \in THREADS : pc'[c] = "insert" /\ work'[c] = tcb'[v]
    <3>1. UsesStack(v) /\ work[t] \in exited
      BY <1>1, <2>2, <2>4 DEF ThrInv, JoinInv
    <3>2. tcb[v] # work[t]
      <4>1. pc[v] # "exit"
        BY <1>1 DEF ThrInv, ThrMutexInv
      <4> QED
        BY <3>1, <4>1 DEF ThrInv, OwnBlock
    <3>3. InTree(v)
      BY <1>1, <2>1, <3>1 DEF ThrInv, OwnBlock
    <3> QED
      BY <1>1, <3>2, <3>3 DEF InTree
  <2>5. ASSUME NEW v \in THREADS, UsesStack(v)', tcb'[v] \in exited'
        PROVE  pc'[v] = "exit"
    BY <1>1, <2>2, <2>5 DEF ThrInv, ThrTypes, CondTypes, OwnBlock
  <2> QED
    BY <2>3, <2>4, <2>5 DEF OwnBlock
<1>6. JoinInv'
  BY <1>1, ThrAssumption DEF ThrInv, ThrTypes, CondTypes, ThrMutexInv, JoinInv, Joins
<1> QED
  BY <1>2, <1>3, <1>4, <1>5, <1>6 DEF ThrInv

LEMMA ExitUnlockStep == ASSUME ThrInv, NEW t \in THREADS, ExitUnlock(t) PROVE ThrInv'
<1>1. /\ pc[t] = "exit" /\ owner = t /\ owner' = None /\ pc' = [pc EXCEPT ![t] = "unlocked"]
      /\ UNCHANGED <<cvOwner, queue, walk, signaled, tcb, utid, tree, freeTcbs, mapped,
                     exited, waiter, work>>
  BY DEF ExitUnlock, At, Unlock, Goto, tcbVars
<1>2. ThrTypes'
  BY <1>1 DEF ThrInv, ThrTypes, CondTypes, ULabels
<1>3. ThrMutexInv'
  BY <1>1, ThrAssumption DEF ThrInv, ThrTypes, CondTypes, ThrMutexInv
<1>4. BlockInv'
  BY <1>1 DEF ThrInv, ThrTypes, CondTypes, ThrMutexInv, BlockInv
<1>5. OwnBlock'
  BY <1>1, ThrAssumption DEF ThrInv, ThrTypes, CondTypes, ThrMutexInv, OwnBlock, UsesStack, InTree
<1>6. JoinInv'
  BY <1>1, ThrAssumption DEF ThrInv, ThrTypes, CondTypes, ThrMutexInv, JoinInv, Joins
<1> QED
  BY <1>2, <1>3, <1>4, <1>5, <1>6 DEF ThrInv

LEMMA VanishStep == ASSUME ThrInv, NEW t \in THREADS, Vanish(t) PROVE ThrInv'
<1>1. /\ pc[t] \in {"unlocked", "vanish"} /\ pc' = [pc EXCEPT ![t] = "gone"]
      /\ tcb' = [tcb EXCEPT ![t] = None]
      /\ UNCHANGED <<owner, cvOwner, queue, walk, signaled, utid, tree, freeTcbs, mapped,
                     exited, waiter, work>>
  BY DEF Vanish, Goto
<1>2. ThrTypes'
  BY <1>1 DEF ThrInv, ThrTypes, CondTypes, ULabels
<1>3. ThrMutexInv'
  BY <1>1, ThrAssumption DEF ThrInv, ThrTypes, CondTypes, ThrMutexInv
<1>4. BlockInv'
  BY <1>1 DEF ThrInv, ThrTypes, CondTypes, ThrMutexInv, BlockInv
<1>5. OwnBlock'
  <2>1. /\ pc'[t] = "gone" /\ pc[t] # "insert"
        /\ \A v \in THREADS \ {t} : pc'[v] = pc[v] /\ tcb'[v] = tcb[v]
    BY <1>1 DEF ThrInv, ThrTypes, CondTypes, ULabels
  <2>2. \A v \in THREADS : UsesStack(v)' =>
          v # t /\ UsesStack(v) /\ pc'[v] = pc[v] /\ tcb'[v] = tcb[v] /\ InTree(v)' = InTree(v)
    BY <1>1, <2>1 DEF UsesStack, InTree
  <2>3. \A v, w \in THREADS : UsesStack(v)' /\ UsesStack(w)' /\ tcb'[v] = tcb'[w] => v = w
    BY <2>2 DEF ThrInv, OwnBlock
  <2>4. \A v \in THREADS : UsesStack(v)' =>
          \/ InTree(v)'
          \/ pc'[v] = "begin" /\ \E c \in THREADS : pc'[c] = "insert" /\ work'[c] = tcb'[v]
    BY <1>1, <2>1, <2>2 DEF ThrInv, OwnBlock
  <2>5. \A v \in THREADS : UsesStack(v)' /\ tcb'[v] \in exited' => pc'[v] = "exit"
    BY <1>1, <2>2 DEF ThrInv, OwnBlock
  <2> QED
    BY <2>3, <2>4, <2>5 DEF OwnBlock
<1>6. JoinInv'
  BY <1>1, ThrAssumption DEF ThrInv, ThrTypes, CondTypes, ThrMutexInv, JoinInv, Joins
<1> QED
  BY <1>2, <1>3, <1>4, <1>5, <1>6 DEF ThrInv

LEMMA ThrSleepStep == ASSUME ThrInv, NEW t \in THREADS, CondSleep(t), UNCHANGED tcbVars PROVE ThrInv'
<1>1. /\ pc[t] = "wait" /\ pc' = [pc EXCEPT ![t] = IF t \in signaled THEN "relock" ELSE "asleep"]
      /\ UNCHANGED <<owner, cvOwner, queue, walk, signaled, tcb, utid, tree, freeTcbs, mapped,
                     exited, waiter, work>>
  BY DEF CondSleep, At, Goto, tcbVars
<1>2. ThrTypes'
  BY <1>1 DEF ThrInv, ThrTypes, CondTypes, ULabels
<1>3. ThrMutexInv'
  BY <1>1, ThrAssumption DEF ThrInv, ThrTypes, CondTypes, ThrMutexInv
<1>4. BlockInv'
  BY <1>1 DEF ThrInv, ThrTypes, CondTypes, ThrMutexInv, BlockInv
<1>5. OwnBlock'
  BY <1>1, ThrAssumption DEF ThrInv, ThrTypes, CondTypes, ThrMutexInv, OwnBlock, UsesStack, InTree
<1>6. JoinInv'
  BY <1>1, ThrAssumption DEF ThrInv, ThrTypes, CondTypes, ThrMutexInv, JoinInv, Joins
<1> QED
  BY <1>2, <1>3, <1>4, <1>5, <1>6 DEF ThrInv

LEMMA ThrRelockStep == ASSUME ThrInv, NEW t \in THREADS, CondRelock(t), UNCHANGED tcbVars PROVE ThrInv'
<1>1. /\ pc[t] = "relock" /\ owner = None /\ owner' = t /\ pc' = [pc EXCEPT ![t] = "test"]
      /\ UNCHANGED <<cvOwner, queue, walk, signaled, tcb, utid, tree, freeTcbs, mapped,
                     exited, waiter, work>>
  BY DEF CondRelock, At, Lock, Goto, tcbVars
<1>2. ThrTypes'
  BY <1>1 DEF ThrInv, ThrTypes, CondTypes, ULabels
<1>3. ThrMutexInv'
  BY <1>1, ThrAssumption DEF ThrInv, ThrTypes, CondTypes, ThrMutexInv
<1>4. BlockInv'
  BY <1>1 DEF ThrInv, ThrTypes, CondTypes, ThrMutexInv, BlockInv
<1>5. OwnBlock'
  <2>2. \A v \in THREADS : UsesStack(v)' => UsesStack(v)
    BY <1>1 DEF UsesStack, ThrInv, ThrTypes, CondTypes
  <2>3. ASSUME NEW v \in THREADS, NEW w \in THREADS, UsesStack(v)', UsesStack(w)', tcb'[v] = tcb'[w]
        PROVE  v = w
    BY <1>1, <2>2, <2>3 DEF ThrInv, OwnBlock
  <2>4. ASSUME NEW v \in THREADS, UsesStack(v)'
        PROVE  \/ InTree(v)'
               \/ pc'[v] = "begin" /\ \E c \in THREADS : pc'[c] = "insert" /\ work'[c] = tcb'[v]
    <3>1. UsesStack(v) /\ \A c \in THREADS : pc[c] # "insert"
      BY <1>1, <2>2, <2>4, ThrAssumption DEF ThrInv, ThrMutexInv
    <3> QED
      BY <1>1, <3>1 DEF ThrInv, OwnBlock, InTree
  <2>5. ASSUME NEW v \in THREADS, UsesStack(v)', tcb'[v] \in exited'
        PROVE  pc'[v] = "exit"
    BY <1>1, <2>2, <2>5 DEF ThrInv, ThrTypes, CondTypes, OwnBlock
  <2> QED
    BY <2>3, <2>4, <2>5 DEF OwnBlock
<1>6. JoinInv'
  BY <1>1, ThrAssumption DEF ThrInv, ThrTypes, CondTypes, ThrMutexInv, JoinInv, Joins
<1> QED
  BY <1>2, <1>3, <1>4, <1>5, <1>6 DEF ThrInv

LEMMA JoinFailStep == ASSUME ThrInv, UNCHANGED thrVars PROVE ThrInv'
<1>1. UNCHANGED <<pc, owner, cvOwner, queue, walk, signaled, tcb, utid, tree, freeTcbs, mapped,
                  exited, waiter, work>>
  BY DEF thrVars, condVars, tcbVars
<1>2. ThrTypes' /\ ThrMutexInv' /\ BlockInv'
  BY <1>1 DEF ThrInv, ThrTypes, CondTypes, ThrMutexInv, BlockInv
<1>3. OwnBlock' /\ JoinInv'
  BY <1>1 DEF ThrInv, OwnBlock, UsesStack, InTree, JoinInv, Joins
<1> QED
  BY <1>2, <1>3 DEF ThrInv

\* When tcb_lock is free no block is being set up.
LEMMA NobodyInserts ==
  ASSUME ThrInv, owner = None
  PROVE  /\ \A v \in THREADS : pc[v] \notin {"insert", "test", "exit"}
         /\ \A v \in THREADS : UsesStack(v) => InTree(v) /\ tcb[v] \notin exited
         /\ \A b \in mapped : b \in tree \cup {mainTcb}
<1>1. \A v \in THREADS : pc[v] \notin {"insert", "test", "exit"}
  BY ThrAssumption DEF ThrInv, ThrMutexInv
<1>2. \A v \in THREADS : UsesStack(v) => InTree(v) /\ tcb[v] \notin exited
  BY <1>1 DEF ThrInv, OwnBlock
<1> QED
  BY <1>1, <1>2 DEF ThrInv, BlockInv

\* The block of a new thread is in nobody's hands, and off the free list.
LEMMA NewTcbsFresh ==
  ASSUME ThrInv, owner = None, NEW b \in NewTcbs
  PROVE  /\ b \in TCBS /\ b \notin tree \cup mapped \cup {mainTcb}
         /\ freeTcbs # <<>> => b = freeTcbs[1]
<1>1. CASE freeTcbs # <<>>
  <2>1. b = freeTcbs[1] /\ 1 \in 1 .. Len(freeTcbs) /\ b \in TCBS
    BY <1>1 DEF NewTcbs, ThrInv, ThrTypes
  <2> QED
    BY <2>1 DEF ThrInv, BlockInv
<1>2. CASE freeTcbs = <<>>
  <2>1. b \in TCBS /\ b \notin tree \cup {mainTcb}
    BY <1>2 DEF NewTcbs
  <2> QED
    BY <1>2, <2>1, NobodyInserts
<1> QED
  BY <1>1, <1>2

LEMMA CreateFailStep == ASSUME ThrInv, NEW t \in THREADS, CreateFail(t) PROVE ThrInv'
<1>1. PICK b \in NewTcbs : freeTcbs' = IF freeTcbs = <<>> THEN <<b>> ELSE freeTcbs
  BY DEF CreateFail
<1>2. /\ owner = None
      /\ UNCHANGED <<pc, owner, cvOwner, queue, walk, signaled, tcb, utid, tree, mapped, exited,
                     waiter, work>>
  BY DEF CreateFail, condVars
<1>3. b \in TCBS /\ b \notin tree \cup mapped \cup {mainTcb}
  BY <1>2, NewTcbsFresh
<1>4. ThrTypes' /\ ThrMutexInv'
  BY <1>1, <1>2, <1>3 DEF ThrInv, ThrTypes, CondTypes, ThrMutexInv
<1>5. BlockInv'
  <2>1. \A v \in THREADS : pc'[v] # "insert"
    BY <1>2, NobodyInserts
  <2>2. CASE freeTcbs = <<>>
    <3>1. freeTcbs' = <<b>> /\ Len(<<b>>) = 1 /\ <<b>>[1] = b
      BY <1>1, <2>2
    <3>2. \A i \in 1 .. Len(freeTcbs') : i = 1 /\ freeTcbs'[i] = b
      BY <3>1
    <3> QED
      BY <1>2, <1>3, <2>1, <3>2 DEF ThrInv, BlockInv
  <2>3. CASE freeTcbs # <<>>
    BY <1>1, <1>2, <2>1, <2>3 DEF ThrInv, BlockInv
  <2> QED
    BY <2>2, <2>3
<1>6. OwnBlock' /\ JoinInv'
  BY <1>2 DEF ThrInv, OwnBlock, UsesStack, InTree, JoinInv, Joins
<1> QED
  BY <1>4, <1>5, <1>6 DEF ThrInv

LEMMA CreateForkStep == ASSUME ThrInv, NEW t \in THREADS, CreateFork(t) PROVE ThrInv'
<1>1. PICK b \in NewTcbs, u \in THREADS :
        /\ pc[u] = "unused" /\ mapped' = mapped \cup {b}
        /\ freeTcbs' = IF freeTcbs = <<>> THEN <<>> ELSE Tail(freeTcbs)
        /\ exited' = exited \ {b} /\ waiter' = waiter \ {b}
        /\ tcb' = [tcb EXCEPT ![u] = b] /\ work' = [work EXCEPT ![t] = b]
        /\ pc' = [pc EXCEPT ![t] = "insert", ![u] = "begin"]
  BY DEF CreateFork, At
<1>2. /\ pc[t] = "out" /\ owner = None /\ owner' = t
      /\ UNCHANGED <<cvOwner, queue, walk, signaled, utid, tree>>
  BY DEF CreateFork, At, Lock
<1>3. b \in TCBS /\ b \notin tree \cup mapped \cup {mainTcb} /\ (freeTcbs # <<>> => b = freeTcbs[1])
  BY <1>2, NewTcbsFresh
<1>4. /\ pc \in [THREADS -> ULabels] /\ t # u /\ pc'[t] = "insert" /\ pc'[u] = "begin"
      /\ \A v \in THREADS \ {t, u} : pc'[v] = pc[v]
      /\ pc' \in [THREADS -> ULabels]
  BY <1>1, <1>2 DEF ThrInv, ThrTypes, CondTypes, ULabels
<1>5. /\ tcb' \in [THREADS -> TCBS \cup {None}] /\ tcb'[u] = b
      /\ \A v \in THREADS \ {u} : tcb'[v] = tcb[v]
      /\ work' \in [THREADS -> TCBS \cup {None}] /\ work'[t] = b
      /\ \A v \in THREADS \ {t} : work'[v] = work[v]
  BY <1>1, <1>3 DEF ThrInv, ThrTypes
<1>6. /\ freeTcbs' \in Seq(TCBS) /\ Len(freeTcbs') \in Nat
      /\ \A i \in 1 .. Len(freeTcbs') :
           /\ i + 1 \in 1 .. Len(freeTcbs) /\ freeTcbs # <<>> /\ freeTcbs'[i] = freeTcbs[i + 1]
  <2>1. freeTcbs \in Seq(TCBS)
    BY DEF ThrInv, ThrTypes
  <2> QED
    BY <1>1, <2>1
<1>7. ThrTypes'
  BY <1>1, <1>2, <1>3, <1>4, <1>5, <1>6, ThrAssumption DEF ThrInv, ThrTypes, CondTypes
<1>8. ThrMutexInv'
  BY <1>2, <1>4, NobodyInserts DEF ThrMutexInv
<1>9. BlockInv'
  <2>1. \A i \in 1 .. Len(freeTcbs') : freeTcbs'[i] # b
    <3> SUFFICES ASSUME NEW i \in 1 .. Len(freeTcbs'), freeTcbs'[i] = b
                 PROVE  FALSE
      OBVIOUS
    <3>1. i + 1 \in 1 .. Len(freeTcbs) /\ freeTcbs[i + 1] = freeTcbs[1] /\ 1 \in 1 .. Len(freeTcbs)
      BY <1>3, <1>6 DEF ThrInv, ThrTypes
    <3>2. i + 1 = 1 /\ i \in Nat \ {0}
      BY <1>6, <3>1 DEF ThrInv, BlockInv
    <3> QED
      BY <3>2
  <2>2. \A i, j \in 1 .. Len(freeTcbs') : freeTcbs'[i] = freeTcbs'[j] => i = j
    <3> SUFFICES ASSUME NEW i \in 1 .. Len(freeTcbs'), NEW j \in 1 .. Len(freeTcbs'),
                        freeTcbs'[i] = freeTcbs'[j]
                 PROVE  i = j
      OBVIOUS
    <3>1. i + 1 = j + 1
      BY <1>6 DEF ThrInv, BlockInv
    <3> QED
      BY <1>6, <3>1
  <2>3. \A i \in 1 .. Len(freeTcbs') : freeTcbs'[i] \notin tree' \cup mapped' \cup {mainTcb}
    <3> SUFFICES ASSUME NEW i \in 1 .. Len(freeTcbs')
                 PROVE  freeTcbs'[i] \notin tree \cup mapped \cup {b} \cup {mainTcb}
      BY <1>1, <1>2
    <3>1. freeTcbs[i + 1] \notin tree \cup mapped \cup {mainTcb}
      BY <1>6 DEF ThrInv, BlockInv
    <3> QED
      BY <1>6, <2>1, <3>1
  <2>4. \A c \in mapped' : \/ c \in tree' \cup {mainTcb}
                           \/ \E v \in THREADS : pc'[v] = "insert" /\ work'[v] = c
    <3>1. \A c \in mapped : c \in tree \cup {mainTcb}
      BY <1>2, NobodyInserts
    <3> QED
      BY <1>1, <1>2, <1>4, <1>5, <3>1
  <2>5. \A v \in THREADS : pc'[v] = "insert" => v = t
    BY <1>2, <1>4, NobodyInserts
  <2>6. tree' \subseteq mapped'
    BY <1>1, <1>2 DEF ThrInv, BlockInv
  <2>7. work'[t] \in mapped' \ tree' /\ \A i \in 1 .. Len(freeTcbs') : freeTcbs'[i] # work'[t]
    BY <1>1, <1>2, <1>3, <1>5, <2>1
  <2> QED
    BY <2>2, <2>3, <2>4, <2>5, <2>6, <2>7 DEF BlockInv
<1>10. OwnBlock'
  <2>1. \A v \in THREADS \ {u} : UsesStack(v)' => UsesStack(v)
    BY <1>2, <1>4 DEF UsesStack
  <2>2. \A v \in THREADS \ {u} : UsesStack(v)' => /\ InTree(v) /\ tcb[v] \notin exited
                                                /\ tcb'[v] = tcb[v] /\ tcb[v] # b
    BY <1>2, <1>3, <1>5, <2>1, NobodyInserts DEF InTree
  <2>3. \A v, w \in THREADS : UsesStack(v)' /\ UsesStack(w)' /\ tcb'[v] = tcb'[w] => v = w
    BY <1>5, <2>1, <2>2 DEF ThrInv, OwnBlock
  <2>4. \A v \in THREADS : UsesStack(v)' =>
          \/ InTree(v)'
          \/ pc'[v] = "begin" /\ \E c \in THREADS : pc'[c] = "insert" /\ work'[c] = tcb'[v]
    BY <1>2, <1>4, <1>5, <2>2 DEF InTree
  <2>5. \A v \in THREADS : UsesStack(v)' => tcb'[v] \notin exited'
    BY <1>1, <1>5, <2>2
  <2> QED
    BY <2>3, <2>4, <2>5 DEF OwnBlock
<1>11. JoinInv'
  <2>1. \A v \in THREADS : Joins(v)' => Joins(v) /\ v # t /\ v # u /\ pc'[v] = pc[v] /\ work'[v] = work[v]
    BY <1>4, <1>5 DEF Joins
  <2>2. \A v \in THREADS : Joins(v) => v # t /\ v # u /\ work[v] # b
    BY <1>1, <1>2, <1>3 DEF ThrInv, JoinInv, Joins
  <2>3. \A v \in THREADS : Joins(v)' => work'[v] \in tree' \cap waiter'
    BY <1>1, <1>2, <2>1, <2>2 DEF ThrInv, JoinInv
  <2>4. \A v, w \in THREADS : Joins(v)' /\ Joins(w)' /\ work'[v] = work'[w] => v = w
    BY <2>1 DEF ThrInv, JoinInv
  <2>5. \A v \in THREADS :
          (pc'[v] \in {"relock", "test"} \/ (pc'[v] = "wait" /\ v \in signaled')) => work'[v] \in exited'
    BY <1>1, <1>2, <2>1, <2>2 DEF ThrInv, JoinInv, Joins
  <2>6. \A c \in TCBS : queue'[c] # <<>> => \E v \in THREADS :
          queue'[c] = <<v>> /\ pc'[v] \in {"wait", "asleep"} /\ v \notin signaled' /\ work'[v] = c
    <3> SUFFICES ASSUME NEW c \in TCBS, queue[c] # <<>>
                 PROVE  \E v \in THREADS : queue[c] = <<v>> /\ pc'[v] \in {"wait", "asleep"}
                                           /\ v \notin signaled /\ work'[v] = c
      BY <1>2
    <3>1. PICK v \in THREADS :
            queue[c] = <<v>> /\ pc[v] \in {"wait", "asleep"} /\ v \notin signaled /\ work[v] = c
      BY DEF ThrInv, JoinInv
    <3>2. v # t /\ v # u
      BY <1>1, <1>2, <3>1
    <3> QED
      BY <1>4, <1>5, <3>1, <3>2
  <2> QED
    BY <2>3, <2>4, <2>5, <2>6 DEF JoinInv
<1> QED
  BY <1>7, <1>8, <1>9, <1>10, <1>11 DEF ThrInv

\* Whoever joins keeps its own block, and nobody waited for the block it joins.
LEMMA JoinStep == ASSUME ThrInv, NEW t \in THREADS, Join(t) PROVE ThrInv'
<1>1. PICK b \in tree \ waiter :
        /\ JoinExited(t, b) \/ JoinWait(t, b)
        /\ waiter' = waiter \cup {b} /\ work' = [work EXCEPT ![t] = b]
  BY DEF Join
<1>2. /\ pc[t] = "out" /\ owner = None /\ UNCHANGED <<tcb, utid, tree, freeTcbs, mapped, exited>>
  BY <1>1 DEF Join, At, JoinExited, JoinWait, Lock
<1>3. PICK l \in {"test", "wait"} :
        /\ pc' = [pc EXCEPT ![t] = l] /\ UNCHANGED <<cvOwner, walk>>
        /\ l = "test" => b \in exited /\ owner' = t /\ UNCHANGED <<queue, signaled>>
        /\ l = "wait" => /\ owner' = None /\ signaled' = signaled \ {t}
                         /\ queue' = [queue EXCEPT ![b] = Append(@, t)]
  BY <1>1, <1>2 DEF JoinExited, JoinWait, Lock, Goto
<1>4. /\ pc \in [THREADS -> ULabels] /\ pc' \in [THREADS -> ULabels] /\ pc'[t] = l
      /\ \A v \in THREADS \ {t} : pc'[v] = pc[v]
  BY <1>3 DEF ThrInv, ThrTypes, CondTypes, ULabels
<1>5. /\ b \in TCBS /\ b \in CVS /\ work' \in [THREADS -> TCBS \cup {None}] /\ work'[t] = b
      /\ \A v \in THREADS \ {t} : work'[v] = work[v]
  BY <1>1, ThrAssumption DEF ThrInv, ThrTypes
<1>6. \A v \in THREADS : Joins(v) => v # t /\ work[v] # b
  BY <1>1, <1>2 DEF ThrInv, JoinInv, Joins
<1>7. queue[b] = <<>>
  BY <1>5, <1>6 DEF ThrInv, JoinInv, Joins
<1>8. /\ \A c \in CVS \ {b} : queue'[c] = queue[c]
      /\ queue'[b] = (IF l = "test" THEN <<>> ELSE <<t>>)
      /\ queue' \in [CVS -> Seq(THREADS)] /\ signaled' \subseteq THREADS
  <2>1. queue \in [CVS -> Seq(THREADS)] /\ signaled \subseteq THREADS
    BY DEF ThrInv, ThrTypes, CondTypes
  <2>2. CASE l = "test"
    BY <1>3, <1>7, <2>1, <2>2
  <2>3. CASE l = "wait"
    <3>1. Append(<<>>, t) = <<t>> /\ <<t>> \in Seq(THREADS)
      OBVIOUS
    <3>2. queue' = [queue EXCEPT ![b] = <<t>>] /\ signaled' = signaled \ {t}
      BY <1>3, <1>7, <2>3, <3>1
    <3> QED
      BY <1>5, <2>1, <2>3, <3>1, <3>2
  <2> QED
    BY <2>2, <2>3
<1>9. ThrTypes'
  BY <1>1, <1>2, <1>3, <1>4, <1>5, <1>8, ThrAssumption DEF ThrInv, ThrTypes, CondTypes
<1>10. ThrMutexInv'
  BY <1>2, <1>3, <1>4, NobodyInserts DEF ThrMutexInv
<1>11. BlockInv'
  <2>1. \A v \in THREADS : pc'[v] # "insert"
    BY <1>2, <1>4, NobodyInserts
  <2>2. \A c \in mapped : c \in tree \cup {mainTcb}
    BY <1>2, NobodyInserts
  <2> QED
    BY <1>2, <2>1, <2>2 DEF ThrInv, BlockInv
<1>12. OwnBlock'
  <2>1. \A v \in THREADS : UsesStack(v)' => UsesStack(v) /\ tcb'[v] = tcb[v]
    BY <1>2, <1>4 DEF UsesStack
  <2>2. \A v \in THREADS : UsesStack(v)' => InTree(v)' /\ tcb'[v] \notin exited'
    BY <1>2, <2>1, NobodyInserts DEF InTree
  <2> QED
    BY <2>1, <2>2 DEF ThrInv, OwnBlock
<1>13. JoinInv'
  <2>1. \A v \in THREADS \ {t} : Joins(v)' => Joins(v) /\ work'[v] = work[v] /\ work[v] # b
    BY <1>4, <1>5, <1>6 DEF Joins
  <2>2. \A v \in THREADS : Joins(v)' => work'[v] \in tree' \cap waiter'
    BY <1>1, <1>2, <1>5, <2>1 DEF ThrInv, JoinInv
  <2>3. \A v, w \in THREADS : Joins(v)' /\ Joins(w)' /\ work'[v] = work'[w] => v = w
    BY <1>5, <2>1 DEF ThrInv, JoinInv
  <2>4. ASSUME NEW v \in THREADS,
               pc'[v] \in {"relock", "test"} \/ (pc'[v] = "wait" /\ v \in signaled')
        PROVE  work'[v] \in exited'
    <3>1. CASE v = t
      BY <1>2, <1>3, <1>4, <1>5, <2>4, <3>1
    <3>2. CASE v # t
      BY <1>2, <1>3, <1>4, <1>5, <2>4, <3>2 DEF ThrInv, JoinInv
    <3> QED
      BY <3>1, <3>2
  <2>5. ASSUME NEW c \in TCBS, queue'[c] # <<>>
        PROVE  \E v \in THREADS : queue'[c] = <<v>> /\ pc'[v] \in {"wait", "asleep"}
                                  /\ v \notin signaled' /\ work'[v] = c
    <3>1. CASE c = b
      BY <1>3, <1>4, <1>5, <1>8, <2>5, <3>1
    <3>2. CASE c # b
      <4>1. queue'[c] = queue[c]
        BY <1>8, <3>2, ThrAssumption
      <4>2. PICK v \in THREADS :
              queue[c] = <<v>> /\ pc[v] \in {"wait", "asleep"} /\ v \notin signaled /\ work[v] = c
        BY <2>5, <4>1 DEF ThrInv, JoinInv
      <4>3. v # t
        BY <1>2, <4>2
      <4> QED
        BY <1>3, <1>4, <1>5, <4>1, <4>2, <4>3
    <3> QED
      BY <3>1, <3>2
  <2>6. \A v \in THREADS :
          (pc'[v] \in {"relock", "test"} \/ (pc'[v] = "wait" /\ v \in signaled')) => work'[v] \in exited'
    BY <2>4
  <2>7. \A c \in TCBS : queue'[c] # <<>> => \E v \in THREADS :
          queue'[c] = <<v>> /\ pc'[v] \in {"wait", "asleep"} /\ v \notin signaled' /\ work'[v] = c
    BY <2>5
  <2> QED
    BY <2>2, <2>3, <2>6, <2>7 DEF JoinInv
<1> QED
  BY <1>9, <1>10, <1>11, <1>12, <1>13 DEF ThrInv

\* The one joiner of the thread that exits, if it waits, is the one it signals.
LEMMA ExitStep == ASSUME ThrInv, NEW t \in THREADS, Exit(t) PROVE ThrInv'
<1>1. /\ pc[t] = "out" /\ owner = None /\ owner' = t /\ exited' = exited \cup {tcb[t]}
      /\ UNCHANGED <<cvOwner, walk, tcb, utid, tree, freeTcbs, mapped, waiter, work>>
  BY DEF Exit, At, Lock
<1>2. UsesStack(t) /\ tcb[t] \in tree /\ tcb[t] \in TCBS /\ tcb[t] \in CVS
  BY <1>1, NobodyInserts, ThrAssumption DEF UsesStack, InTree, ThrInv, ThrTypes
<1>3. PICK b \in TCBS : b = tcb[t] /\ CondSignal(t, b, "exit")
  BY <1>2 DEF Exit
<1>4. \A c \in TCBS : queue[c] # <<>> => \E v \in THREADS :
        queue[c] = <<v>> /\ pc[v] \in {"wait", "asleep"} /\ v \notin signaled /\ work[v] = c
  BY DEF ThrInv, JoinInv
<1>5. \/ /\ queue[b] = <<>> /\ pc' = [pc EXCEPT ![t] = "exit"] /\ UNCHANGED <<queue, signaled>>
      \/ \E u \in THREADS :
           /\ queue[b] = <<u>> /\ pc[u] \in {"wait", "asleep"} /\ work[u] = b
           /\ queue' = [queue EXCEPT ![b] = <<>>] /\ signaled' = signaled \cup {u}
           /\ pc' = [pc EXCEPT ![u] = IF pc[u] = "asleep" THEN "relock" ELSE pc[u], ![t] = "exit"]
  <2>1. CASE queue[b] = <<>>
    BY <1>3, <2>1 DEF CondSignal, Goto
  <2>2. CASE queue[b] # <<>>
    <3>1. PICK u \in THREADS :
            queue[b] = <<u>> /\ pc[u] \in {"wait", "asleep"} /\ work[u] = b
      BY <1>4, <2>2
    <3>2. Head(queue[b]) = u /\ Tail(queue[b]) = <<>>
      BY <3>1
    <3>3. /\ queue' = [queue EXCEPT ![b] = <<>>] /\ signaled' = signaled \cup {u}
          /\ pc' = [pc EXCEPT ![u] = AfterSignal(u), ![t] = "exit"]
      BY <1>3, <2>2, <3>2 DEF CondSignal
    <3> QED
      BY <3>1, <3>3 DEF AfterSignal
  <2> QED
    BY <2>1, <2>2
<1>6. /\ pc \in [THREADS -> ULabels] /\ queue \in [CVS -> Seq(THREADS)] /\ b \in CVS
      /\ signaled \subseteq THREADS
  BY <1>2, <1>3 DEF ThrInv, ThrTypes, CondTypes
<1>7. /\ pc' \in [THREADS -> ULabels] /\ pc'[t] = "exit"
      /\ \A v \in THREADS \ {t} : \/ pc'[v] = pc[v] /\ (v \in signaled' => v \in signaled)
                                  \/ work[v] = b /\ pc[v] \in {"wait", "asleep"}
                                     /\ pc'[v] \in {"relock", "wait"}
  BY <1>1, <1>5, <1>6 DEF ULabels
<1>8. /\ queue' \in [CVS -> Seq(THREADS)] /\ signaled' \subseteq THREADS /\ queue'[b] = <<>>
      /\ \A c \in CVS \ {b} : queue'[c] = queue[c]
  <2>1. <<>> \in Seq(THREADS)
    OBVIOUS
  <2> QED
    BY <1>5, <1>6, <2>1
<1>9. ThrTypes'
  BY <1>1, <1>2, <1>7, <1>8 DEF ThrInv, ThrTypes, CondTypes
<1>10. ThrMutexInv'
  BY <1>1, <1>7, NobodyInserts DEF ThrMutexInv
<1>11. BlockInv'
  <2>1. \A v \in THREADS : pc'[v] # "insert"
    BY <1>1, <1>7, NobodyInserts
  <2>2. \A c \in mapped : c \in tree \cup {mainTcb}
    BY <1>1, NobodyInserts
  <2> QED
    BY <1>1, <2>1, <2>2 DEF ThrInv, BlockInv
<1>12. OwnBlock'
  <2>1. \A v \in THREADS : UsesStack(v)' => UsesStack(v)
    BY <1>2, <1>7 DEF UsesStack
  <2>2. \A v \in THREADS : UsesStack(v)' => InTree(v)'
    BY <1>1, <2>1, NobodyInserts DEF InTree
  <2>3. \A v, w \in THREADS : UsesStack(v)' /\ UsesStack(w)' /\ tcb'[v] = tcb'[w] => v = w
    BY <1>1, <2>1 DEF ThrInv, OwnBlock
  <2>4. \A v \in THREADS : UsesStack(v)' /\ tcb'[v] \in exited' => pc'[v] = "exit"
    <3> SUFFICES ASSUME NEW v \in THREADS, UsesStack(v)', tcb[v] \in exited \cup {tcb[t]}
                 PROVE  pc'[v] = "exit"
      BY <1>1
    <3>1. tcb[v] = tcb[t]
      BY <1>1, <2>1, NobodyInserts
    <3>2. v = t
      BY <1>2, <2>1, <3>1 DEF ThrInv, OwnBlock
    <3> QED
      BY <1>7, <3>2
  <2> QED
    BY <2>2, <2>3, <2>4 DEF OwnBlock
<1>13. JoinInv'
  <2>1. \A v \in THREADS : Joins(v)' => Joins(v) /\ v # t
    BY <1>7 DEF Joins
  <2>2. \A v \in THREADS : Joins(v)' => work'[v] \in tree' \cap waiter'
    BY <1>1, <2>1 DEF ThrInv, JoinInv
  <2>3. \A v, w \in THREADS : Joins(v)' /\ Joins(w)' /\ work'[v] = work'[w] => v = w
    BY <1>1, <2>1 DEF ThrInv, JoinInv
  <2>4. ASSUME NEW v \in THREADS,
               pc'[v] \in {"relock", "test"} \/ (pc'[v] = "wait" /\ v \in signaled')
        PROVE  work'[v] \in exited'
    <3>1. v # t
      BY <1>7, <2>4
    <3>2. CASE work[v] = b
      BY <1>1, <1>3, <3>2
    <3>3. CASE pc'[v] = pc[v] /\ (v \in signaled' => v \in signaled)
      BY <1>1, <2>4, <3>3 DEF ThrInv, JoinInv
    <3> QED
      BY <1>7, <3>1, <3>2, <3>3
  <2>5. ASSUME NEW c \in TCBS, queue'[c] # <<>>
        PROVE  \E v \in THREADS : queue'[c] = <<v>> /\ pc'[v] \in {"wait", "asleep"}
                                  /\ v \notin signaled' /\ work'[v] = c
    <3>1. c # b /\ queue'[c] = queue[c]
      BY <1>8, <2>5, ThrAssumption
    <3>2. PICK v \in THREADS :
            queue[c] = <<v>> /\ pc[v] \in {"wait", "asleep"} /\ v \notin signaled /\ work[v] = c
      BY <1>4, <2>5, <3>1
    <3>3. v # t /\ work[v] # b
      BY <1>1, <3>1, <3>2
    <3>4. pc'[v] = pc[v] /\ (v \in signaled' => v \in signaled)
      BY <1>7, <3>3
    <3> QED
      BY <1>1, <3>1, <3>2, <3>4
  <2>6. \A v \in THREADS :
          (pc'[v] \in {"relock", "test"} \/ (pc'[v] = "wait" /\ v \in signaled')) => work'[v] \in exited'
    BY <2>4
  <2>7. \A c \in TCBS : queue'[c] # <<>> => \E v \in THREADS :
          queue'[c] = <<v>> /\ pc'[v] \in {"wait", "asleep"} /\ v \notin signaled' /\ work'[v] = c
    BY <2>5
  <2> QED
    BY <2>2, <2>3, <2>6, <2>7 DEF JoinInv
<1> QED
  BY <1>9, <1>10, <1>11, <1>12, <1>13 DEF ThrInv

LEMMA ThrInvStep == ASSUME ThrInv, [ThrNext]_thrVars PROVE ThrInv'
<1>1. CASE UNCHANGED thrVars
  BY <1>1, JoinFailStep
<1>2. CASE ThrNext
  <2>1. PICK t \in THREADS :
          \/ CreateFork(t) \/ CreateInsert(t) \/ CreateFail(t) \/ Begin(t)
          \/ JoinFail(t) \/ Join(t) \/ JoinReap(t)
          \/ Exit(t) \/ ExitUnlock(t) \/ Vanish(t) \/ ThrCond(t)
    BY <1>2 DEF ThrNext
  <2>2. CASE JoinFail(t)
    BY <2>2, JoinFailStep DEF JoinFail
  <2>3. CASE ThrCond(t)
    BY <2>3, ThrSleepStep, ThrRelockStep DEF ThrCond
  <2> QED
    BY <2>1, <2>2, <2>3, CreateForkStep, CreateInsertStep, CreateFailStep, BeginStep, JoinStep,
       JoinReapStep, ExitStep, ExitUnlockStep, VanishStep
<1> QED
  BY <1>1, <1>2

\* A thread that may still touch its stack has one, and has it for itself.
THEOREM ThrStackIsOwn == ThrSpec => []StackIsOwn
<1>1. ThrInit => ThrInv
  BY ThrInitInv
<1>2. ThrInv /\ [ThrNext]_thrVars => ThrInv'
  BY ThrInvStep
<1>3. ThrInv => StackIsOwn
  BY DEF ThrInv, BlockInv, OwnBlock, InTree, StackIsOwn
<1> QED
  BY <1>1, <1>2, <1>3, PTL DEF ThrSpec

\* A control block is free, or in the tree under its thread's tid, or being set up.
THEOREM ThrTcbOnePlace == ThrSpec => []TcbOnePlace
<1>1. ThrInit => ThrInv
  BY ThrInitInv
<1>2. ThrInv /\ [ThrNext]_thrVars => ThrInv'
  BY ThrInvStep
<1>3. ThrInv => TcbOnePlace
  <2> SUFFICES ASSUME ThrInv PROVE TcbOnePlace
    OBVIOUS
  <2>1. freeTcbs \in Seq(TCBS)
    BY DEF ThrInv, ThrTypes
  <2>2. IsInjective(freeTcbs)
    BY <2>1 DEF IsInjective, ThrInv, BlockInv
  <2>3. Range(freeTcbs) \cap tree = {}
    BY <2>1 DEF Range, ThrInv, BlockInv
  <2>4. \A t \in THREADS : pc[t] \in {"out", "wait", "asleep", "relock", "test"} => InTree(t)
    BY DEF ThrInv, OwnBlock, UsesStack
  <2> QED
    BY <2>2, <2>3, <2>4 DEF TcbOnePlace, InTree
<1> QED
  BY <1>1, <1>2, <1>3, PTL DEF ThrSpec
=============================================================================
