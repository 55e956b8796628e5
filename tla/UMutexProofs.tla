------------------------------ MODULE UMutexProofs ------------------------------
(***************************************************************************)
(* Proofs about UMutex: for any number of threads, a free mutex is not     *)
(* left to sleepers, an unlocker touches only threads that are still in    *)
(* mutex_lock, and one thread at a time holds the lock.                    *)
(***************************************************************************)
EXTENDS UMutex, TLAPS, SequenceTheorems

UMConstants == None \notin THREADS

\* Threads that are linked into w_list, and those that have the lock.
Linked(t) == upc[t] \in {"try", "sleep", "asleep", "taken"}
Owns(t)   == upc[t] \in {"taken", "in"}

\* Somebody has still to look after the head of the list.
Coming == locked \/ \E t \in THREADS : upc[t] \in {"wake", "make_runnable"}

UMTypes ==
  /\ upc \in [THREADS -> {"out", "queue", "try", "sleep", "asleep", "taken", "in", "wake",
                          "make_runnable"}]
  /\ locked \in BOOLEAN /\ wLock \in BOOLEAN
  /\ wList \in Seq(THREADS) /\ resume \subseteq THREADS
  /\ waking \in [THREADS -> THREADS \cup {None}]

\* The list holds every linked thread, once.
ListInv ==
  /\ \A i, j \in 1 .. Len(wList) : wList[i] = wList[j] => i = j
  /\ \A t \in THREADS : Linked(t) <=> \E i \in 1 .. Len(wList) : wList[i] = t

\* The lock word and w_lock have one owner each.
LockInv ==
  /\ \A t \in THREADS : Owns(t) => locked
  /\ \A t, u \in THREADS : Owns(t) /\ Owns(u) => t = u
  /\ \A t \in THREADS : upc[t] = "make_runnable" => wLock
  /\ \A t, u \in THREADS : upc[t] = "make_runnable" /\ upc[u] = "make_runnable" => t = u

\* While an unlocker makes a thread runnable, that thread is the head, and told.
WakingInv ==
  \A t \in THREADS :
    /\ upc[t] = "make_runnable" <=> waking[t] # None
    /\ upc[t] = "make_runnable" => wList # <<>> /\ waking[t] = wList[1] /\ waking[t] \in resume

\* The head sleeps, or is about to, only if somebody will come or has told it.
HeadInv ==
  wList # <<>> /\ upc[wList[1]] \in {"sleep", "asleep"} =>
    Coming \/ (upc[wList[1]] = "sleep" /\ wList[1] \in resume)

UMInv == UMTypes /\ ListInv /\ LockInv /\ WakingInv /\ HeadInv

LEMMA UMInit_Inv == ASSUME UMConstants, UMInit PROVE UMInv
  <1>1. locked \in BOOLEAN /\ wLock \in BOOLEAN
    BY Zenon DEF UMInit
  <1>2. UMTypes
    BY <1>1 DEF UMConstants, UMInit, UMTypes
  <1>3. ListInv /\ LockInv
    BY DEF UMInit, ListInv, LockInv, Linked, Owns
  <1>4. WakingInv /\ HeadInv
    BY DEF UMConstants, UMInit, WakingInv, HeadInv
  <1>5. QED
    BY <1>2, <1>3, <1>4 DEF UMInv

\* Steps that leave the list alone.
LEMMA ListStays ==
  ASSUME UMInv, wList' = wList, \A t \in THREADS : Linked(t)' <=> Linked(t)
  PROVE  ListInv'
  BY DEF UMInv, ListInv

LEMMA LockEnter_Inv == ASSUME UMInv, NEW t \in THREADS, LockEnter(t) PROVE UMInv'
  <1>1. /\ upc[t] = "out" /\ upc' = [upc EXCEPT ![t] = "queue"] /\ resume' = resume \ {t}
        /\ UNCHANGED <<locked, wLock, wList, waking>>
    BY DEF LockEnter, Go
  <1>2. UMTypes'
    BY <1>1 DEF UMInv, UMTypes
  <1>3. ListInv'
    BY <1>1, ListStays DEF UMInv, UMTypes, Linked
  <1>4. LockInv'
    BY <1>1 DEF UMInv, UMTypes, LockInv, Owns
  <1>5. \A i \in 1 .. Len(wList) : wList[i] # t
    BY <1>1 DEF UMInv, ListInv, Linked
  <1>6. wList # <<>> => wList[1] \in THREADS /\ wList[1] # t
    BY <1>5 DEF UMInv, UMTypes
  <1>7. WakingInv'
    BY <1>1, <1>6 DEF UMInv, UMTypes, WakingInv
  <1>8. HeadInv'
    BY <1>1, <1>6 DEF UMInv, UMTypes, HeadInv, Coming
  <1>9. QED
    BY <1>2, <1>3, <1>4, <1>7, <1>8 DEF UMInv

LEMMA LockQueue_Inv == ASSUME UMInv, NEW t \in THREADS, LockQueue(t) PROVE UMInv'
  <1>1. /\ upc[t] = "queue" /\ upc' = [upc EXCEPT ![t] = "try"] /\ wList' = Append(wList, t)
        /\ UNCHANGED <<locked, wLock, resume, waking>>
    BY DEF LockQueue, Go
  <1>2. UMTypes'
    BY <1>1 DEF UMInv, UMTypes
  <1>3. \A i \in 1 .. Len(wList) : wList[i] # t
    BY <1>1 DEF UMInv, ListInv, Linked
  <1>4. ListInv'
    BY <1>1, <1>3 DEF UMInv, UMTypes, ListInv, Linked
  <1>5. LockInv'
    BY <1>1 DEF UMInv, UMTypes, LockInv, Owns
  <1>6. IF wList = <<>> THEN wList'[1] = t ELSE wList'[1] = wList[1] /\ wList[1] \in THREADS \ {t}
    BY <1>1, <1>3 DEF UMInv, UMTypes
  <1>7. wList' # <<>>
    BY <1>1 DEF UMInv, UMTypes
  <1>8. WakingInv'
    BY <1>1, <1>6, <1>7 DEF UMInv, UMTypes, WakingInv
  <1>9. HeadInv'
    BY <1>1, <1>6, <1>7 DEF UMInv, UMTypes, HeadInv, Coming
  <1>10. QED
    BY <1>2, <1>4, <1>5, <1>8, <1>9 DEF UMInv

LEMMA TryTake_Inv == ASSUME UMInv, NEW t \in THREADS, TryTake(t) PROVE UMInv'
  <1>1. /\ upc[t] = "try" /\ upc' = [upc EXCEPT ![t] = "taken"] /\ ~locked /\ locked' = TRUE
        /\ UNCHANGED <<wLock, wList, resume, waking>>
    BY DEF TryTake, Go
  <1>2. locked' \in BOOLEAN /\ locked'
    BY <1>1, Zenon
  <1>3. UMTypes'
    BY <1>1, <1>2 DEF UMInv, UMTypes
  <1>4. ListInv'
    BY <1>1, ListStays DEF UMInv, UMTypes, Linked
  <1>5. \A u \in THREADS : ~Owns(u)
    BY <1>1 DEF UMInv, LockInv
  <1>6. LockInv'
    BY <1>1, <1>2, <1>5 DEF UMInv, UMTypes, LockInv, Owns
  <1>7. WakingInv'
    BY <1>1 DEF UMInv, UMTypes, WakingInv
  <1>8. HeadInv'
    BY <1>2 DEF HeadInv, Coming
  <1>9. QED
    BY <1>3, <1>4, <1>6, <1>7, <1>8 DEF UMInv

\* Steps of a thread that stays in the list and outside the lock.
LEMMA WaiterStep ==
  ASSUME UMInv, NEW t \in THREADS, NEW to \in {"try", "sleep", "asleep"},
         upc[t] \in {"try", "sleep", "asleep"}, upc' = [upc EXCEPT ![t] = to],
         UNCHANGED <<locked, wLock, wList, resume, waking>>, HeadInv'
  PROVE  UMInv'
  <1>1. UMTypes'
    BY DEF UMInv, UMTypes
  <1>2. ListInv'
    BY ListStays DEF UMInv, UMTypes, Linked
  <1>3. LockInv'
    BY DEF UMInv, UMTypes, LockInv, Owns
  <1>4. WakingInv'
    BY DEF UMInv, UMTypes, WakingInv
  <1>5. QED
    BY <1>1, <1>2, <1>3, <1>4 DEF UMInv

LEMMA TryFail_Inv == ASSUME UMInv, NEW t \in THREADS, TryFail(t) PROVE UMInv'
  <1>1. HeadInv'
    BY DEF TryFail, HeadInv, Coming
  <1>2. QED
    BY <1>1, WaiterStep DEF TryFail, Go

LEMMA UDeschedule_Inv == ASSUME UMInv, NEW t \in THREADS, UDeschedule(t) PROVE UMInv'
  <1>1. /\ upc[t] = "sleep"
        /\ upc' = [upc EXCEPT ![t] = IF t \in resume THEN "try" ELSE "asleep"]
        /\ UNCHANGED <<locked, wLock, wList, resume, waking>>
    BY DEF UDeschedule, Go
  <1>2. HeadInv'
    BY <1>1 DEF UMInv, UMTypes, HeadInv, Coming
  <1>3. QED
    BY <1>1, <1>2, WaiterStep

LEMMA Nudge_Inv == ASSUME UMInv, NEW t \in THREADS, Nudge(t) PROVE UMInv'
  <1>1. /\ upc[t] = "asleep" /\ upc' = [upc EXCEPT ![t] = "try"]
        /\ UNCHANGED <<locked, wLock, wList, resume, waking>>
    BY DEF Nudge, Go
  <1>2. HeadInv'
    BY <1>1 DEF UMInv, UMTypes, HeadInv, Coming
  <1>3. QED
    BY <1>1, <1>2, WaiterStep

\* What is left of a sequence without its element i.
LEMMA RemoveAtParts ==
  ASSUME NEW S, NEW s \in Seq(S), NEW i \in 1 .. Len(s)
  PROVE  /\ RemoveAt(s, i) \in Seq(S) /\ Len(RemoveAt(s, i)) = Len(s) - 1
         /\ \A j \in 1 .. Len(s) - 1 : RemoveAt(s, i)[j] = IF j < i THEN s[j] ELSE s[j + 1]
  <1> DEFINE a == SubSeq(s, 1, i - 1)
             b == SubSeq(s, i + 1, Len(s))
  <1>1. a \in Seq(S) /\ Len(a) = i - 1 /\ \A j \in 1 .. i - 1 : a[j] = s[j]
    OBVIOUS
  <1>2. b \in Seq(S) /\ Len(b) = Len(s) - i /\ \A j \in 1 .. Len(s) - i : b[j] = s[i + j]
    <2>1. \A k \in i + 1 .. Len(s) : s[k] \in S
      OBVIOUS
    <2>2. b \in Seq(S) /\ Len(b) = (IF i + 1 <= Len(s) THEN Len(s) - (i + 1) + 1 ELSE 0)
          /\ \A j \in 1 .. Len(s) - (i + 1) + 1 : b[j] = s[(i + 1) + j - 1]
      BY <2>1, SubSeqProperties
    <2>3. QED
      BY <2>2
  <1>3. RemoveAt(s, i) = a \o b
    BY DEF RemoveAt
  <1> HIDE DEF a, b
  <1>4. a \o b \in Seq(S) /\ Len(a \o b) = Len(s) - 1
    <2>1. a \o b \in Seq(S) /\ Len(a \o b) = Len(a) + Len(b)
      BY <1>1, <1>2, ConcatProperties
    <2>2. QED
      BY <2>1, <1>1, <1>2
  <1>5. ASSUME NEW j \in 1 .. Len(s) - 1
        PROVE  (a \o b)[j] = IF j < i THEN s[j] ELSE s[j + 1]
    <2>1. CASE j < i
      BY <1>1, <1>2, <2>1
    <2>2. CASE ~(j < i)
      <3>1. (a \o b)[j] = b[j - (i - 1)]
        BY <1>1, <1>2, <2>2
      <3>2. j - (i - 1) \in 1 .. Len(s) - i
        BY <2>2
      <3>3. QED
        BY <1>2, <2>2, <3>1, <3>2
    <2>3. QED
      BY <2>1, <2>2, Zenon
  <1>6. QED
    BY <1>3, <1>4, <1>5

LEMMA Leave_Inv == ASSUME UMInv, NEW t \in THREADS, Leave(t) PROVE UMInv'
  <1>1. /\ upc[t] = "taken" /\ upc' = [upc EXCEPT ![t] = "in"] /\ ~wLock
        /\ UNCHANGED <<locked, wLock, resume, waking>>
    BY DEF Leave, Go
  <1>2. PICK i \in 1 .. Len(wList) : wList[i] = t /\ wList' = RemoveAt(wList, i)
    BY DEF Leave, UMInv, UMTypes
  <1>3. /\ wList' \in Seq(THREADS) /\ Len(wList') = Len(wList) - 1
        /\ \A j \in 1 .. Len(wList) - 1 :
             wList'[j] = IF j < i THEN wList[j] ELSE wList[j + 1]
    BY <1>2, RemoveAtParts DEF UMInv, UMTypes
  <1>4. \A j, k \in 1 .. Len(wList') : wList'[j] = wList'[k] => j = k
    <2>1. SUFFICES ASSUME NEW j \in 1 .. Len(wList'), NEW k \in 1 .. Len(wList'),
                          wList'[j] = wList'[k]
                   PROVE  j = k
      OBVIOUS
    <2>2. /\ j \in 1 .. Len(wList) /\ j + 1 \in 1 .. Len(wList)
          /\ k \in 1 .. Len(wList) /\ k + 1 \in 1 .. Len(wList)
          /\ j \in Int /\ k \in Int /\ i \in Int
      BY <1>3 DEF UMInv, UMTypes
    <2>3. wList'[j] = (IF j < i THEN wList[j] ELSE wList[j + 1])
          /\ wList'[k] = IF k < i THEN wList[k] ELSE wList[k + 1]
      BY <1>3
    <2>4. \A m, n \in 1 .. Len(wList) : wList[m] = wList[n] => m = n
      BY DEF UMInv, ListInv
    <2>5. CASE j < i /\ k < i
      BY <2>1, <2>2, <2>3, <2>4, <2>5
    <2>6. CASE ~(j < i) /\ ~(k < i)
      <3>1. j + 1 = k + 1
        BY <2>1, <2>2, <2>3, <2>4, <2>6
      <3>2. QED
        BY <2>2, <3>1
    <2>7. CASE j < i /\ ~(k < i)
      <3>1. j = k + 1
        BY <2>1, <2>2, <2>3, <2>4, <2>7
      <3>2. QED
        BY <2>2, <2>7, <3>1
    <2>8. CASE ~(j < i) /\ k < i
      <3>1. k = j + 1
        BY <2>1, <2>2, <2>3, <2>4, <2>8
      <3>2. QED
        BY <2>2, <2>8, <3>1
    <2>9. QED
      BY <2>5, <2>6, <2>7, <2>8
  <1>5. ASSUME NEW u \in THREADS
        PROVE  Linked(u)' <=> \E j \in 1 .. Len(wList') : wList'[j] = u
    <2>1. CASE u = t
      <3>1. \A j \in 1 .. Len(wList') : wList'[j] # t
        BY <1>2, <1>3 DEF UMInv, UMTypes, ListInv
      <3>2. ~Linked(u)'
        BY <1>1, <2>1 DEF Linked, UMInv, UMTypes
      <3>3. QED
        BY <2>1, <3>1, <3>2
    <2>2. CASE u # t
      <3>1. Linked(u)' <=> Linked(u)
        BY <1>1, <2>2 DEF Linked, UMInv, UMTypes
      <3>2. Linked(u) <=> \E k \in 1 .. Len(wList) : wList[k] = u
        BY DEF UMInv, ListInv
      <3>3. ASSUME NEW k \in 1 .. Len(wList), wList[k] = u
            PROVE  \E j \in 1 .. Len(wList') : wList'[j] = u
        <4>1. CASE k < i
          BY <1>3, <3>3, <4>1 DEF UMInv, UMTypes
        <4>2. CASE k > i
          <5>1. k - 1 \in 1 .. Len(wList') /\ wList'[k - 1] = u
            BY <1>3, <3>3, <4>2 DEF UMInv, UMTypes
          <5>2. QED
            BY <5>1
        <4>3. QED
          BY <1>2, <2>2, <3>3, <4>1, <4>2
      <3>4. ASSUME NEW j \in 1 .. Len(wList'), wList'[j] = u
            PROVE  \E k \in 1 .. Len(wList) : wList[k] = u
        <4>1. j \in 1 .. Len(wList) /\ j + 1 \in 1 .. Len(wList)
          BY <1>3 DEF UMInv, UMTypes
        <4>2. QED
          BY <1>3, <3>4, <4>1
      <3>5. QED
        BY <3>1, <3>2, <3>3, <3>4
    <2>3. QED
      BY <2>1, <2>2
  <1>6. UMTypes'
    BY <1>1, <1>3 DEF UMInv, UMTypes
  <1>7. LockInv'
    BY <1>1 DEF UMInv, UMTypes, LockInv, Owns
  <1>8. \A u \in THREADS : upc'[u] # "make_runnable" /\ waking'[u] = None
    BY <1>1 DEF UMInv, UMTypes, LockInv, WakingInv
  <1>9. WakingInv'
    BY <1>8 DEF WakingInv
  <1>10. HeadInv'
    BY <1>1 DEF UMInv, LockInv, Owns, HeadInv, Coming
  <1>11. QED
    BY <1>4, <1>5, <1>6, <1>7, <1>9, <1>10 DEF UMInv, ListInv

LEMMA Release_Inv == ASSUME UMInv, NEW t \in THREADS, Release(t) PROVE UMInv'
  <1>1. /\ upc[t] = "in" /\ upc' = [upc EXCEPT ![t] = "wake"] /\ locked' = FALSE
        /\ UNCHANGED <<wLock, wList, resume, waking>>
    BY DEF Release, Go
  <1>2. locked' \in BOOLEAN
    BY <1>1, Zenon
  <1>3. UMTypes'
    BY <1>1, <1>2 DEF UMInv, UMTypes
  <1>4. ListInv'
    BY <1>1, ListStays DEF UMInv, UMTypes, Linked
  <1>5. \A u \in THREADS : ~Owns(u)'
    BY <1>1 DEF UMInv, UMTypes, LockInv, Owns
  <1>6. LockInv'
    BY <1>1, <1>5 DEF UMInv, UMTypes, LockInv
  <1>7. WakingInv'
    BY <1>1 DEF UMInv, UMTypes, WakingInv
  <1>8. HeadInv'
    BY <1>1 DEF UMInv, UMTypes, HeadInv, Coming
  <1>9. QED
    BY <1>3, <1>4, <1>6, <1>7, <1>8 DEF UMInv

LEMMA WakeFirst_Inv == ASSUME UMConstants, UMInv, NEW t \in THREADS, WakeFirst(t) PROVE UMInv'
  <1>1. /\ upc[t] = "wake" /\ ~wLock /\ UNCHANGED <<locked, wList>>
        /\ \A u \in THREADS : upc[u] # "make_runnable" /\ waking[u] = None
    BY DEF WakeFirst, Go, UMInv, LockInv, WakingInv
  <1>2. CASE wList = <<>>
    <2>1. /\ upc' = [upc EXCEPT ![t] = "out"] /\ waking' = [waking EXCEPT ![t] = None]
          /\ resume' = resume /\ wLock' = FALSE
      BY <1>2 DEF WakeFirst, Go
    <2>2. wLock' \in BOOLEAN
      BY <2>1, Zenon
    <2>3. UMTypes' /\ ListInv'
      BY <1>1, <2>1, <2>2, ListStays DEF UMInv, UMTypes, Linked
    <2>4. LockInv' /\ WakingInv' /\ HeadInv'
      BY <1>1, <1>2, <2>1 DEF UMInv, UMTypes, LockInv, Owns, WakingInv, HeadInv
    <2>5. QED
      BY <2>3, <2>4 DEF UMInv
  <1>3. CASE wList # <<>>
    <2>1. Head(wList) = wList[1] /\ wList[1] \in THREADS
      BY <1>3 DEF UMInv, UMTypes
    <2>2. /\ upc' = [upc EXCEPT ![t] = "make_runnable"]
          /\ waking' = [waking EXCEPT ![t] = wList[1]]
          /\ resume' = resume \cup {wList[1]} /\ wLock' = TRUE
      BY <1>3, <2>1 DEF WakeFirst, Go
    <2>3. wLock' \in BOOLEAN /\ wLock'
      BY <2>2, Zenon
    <2>4. UMTypes' /\ ListInv'
      BY <1>1, <2>1, <2>2, <2>3, ListStays DEF UMInv, UMTypes, Linked
    <2>5. LockInv'
      BY <1>1, <2>2, <2>3 DEF UMInv, UMTypes, LockInv, Owns
    <2>6. WakingInv'
      BY <1>1, <1>3, <2>1, <2>2 DEF UMConstants, UMInv, UMTypes, WakingInv
    <2>7. HeadInv'
      BY <2>2 DEF UMInv, UMTypes, HeadInv, Coming
    <2>8. QED
      BY <2>4, <2>5, <2>6, <2>7 DEF UMInv
  <1>4. QED
    BY <1>2, <1>3

LEMMA WakeRunnable_Inv == ASSUME UMConstants, UMInv, NEW t \in THREADS, WakeRunnable(t) PROVE UMInv'
  <1> DEFINE h == wList[1]
  <1>1. /\ upc[t] = "make_runnable" /\ wList # <<>> /\ waking[t] = h /\ h \in resume
        /\ h \in THREADS /\ Linked(h) /\ h # t /\ 1 \in 1 .. Len(wList)
    BY DEF WakeRunnable, UMInv, UMTypes, WakingInv, ListInv, Linked
  <1>2. /\ upc' = [upc EXCEPT ![h] = IF upc[h] = "asleep" THEN "try" ELSE upc[h], ![t] = "out"]
        /\ waking' = [waking EXCEPT ![t] = None] /\ wLock' = FALSE
        /\ UNCHANGED <<locked, wList, resume>>
    BY <1>1 DEF WakeRunnable, Awakened
  <1>3. wLock' \in BOOLEAN
    BY <1>2, Zenon
  <1>4. UMTypes'
    BY <1>1, <1>2, <1>3 DEF UMInv, UMTypes
  <1>5. ListInv'
    BY <1>1, <1>2, ListStays DEF UMInv, UMTypes, Linked
  <1>6. \A u \in THREADS : upc'[u] # "make_runnable"
    BY <1>1, <1>2 DEF UMInv, UMTypes, LockInv, Linked
  <1>7. \A u \in THREADS : Owns(u)' <=> Owns(u)
    BY <1>1, <1>2 DEF UMInv, UMTypes, Owns, Linked
  <1>8. LockInv'
    BY <1>2, <1>6, <1>7 DEF UMInv, LockInv
  <1>9. \A u \in THREADS : waking'[u] = None
    BY <1>1, <1>2 DEF UMInv, UMTypes, LockInv, WakingInv
  <1>10. WakingInv'
    BY <1>6, <1>9 DEF WakingInv
  <1>11. upc'[h] # "asleep"
    BY <1>1, <1>2 DEF UMInv, UMTypes
  <1>12. HeadInv'
    BY <1>1, <1>2, <1>11 DEF HeadInv
  <1>13. QED
    BY <1>4, <1>5, <1>8, <1>10, <1>12 DEF UMInv

LEMMA UMStep_Inv == ASSUME UMConstants, UMInv, [UMNext]_mutexVars PROVE UMInv'
  <1>1. ASSUME NEW t \in THREADS, LockEnter(t) \/ UMStep(t) \/ Nudge(t) PROVE UMInv'
    BY <1>1, LockEnter_Inv, LockQueue_Inv, TryTake_Inv, TryFail_Inv, UDeschedule_Inv, Leave_Inv,
       Release_Inv, WakeFirst_Inv, WakeRunnable_Inv, Nudge_Inv DEF UMStep
  <1>2. CASE UNCHANGED mutexVars
    BY <1>2 DEF mutexVars, UMInv, UMTypes, ListInv, LockInv, WakingInv, HeadInv, Coming, Linked, Owns
  <1>3. QED
    BY <1>1, <1>2 DEF UMNext

THEOREM UMInvariance == ASSUME UMConstants PROVE UMSpec => []UMInv
  <1>1. UMInit => UMInv
    BY UMInit_Inv
  <1>2. UMInv /\ [UMNext]_mutexVars => UMInv'
    BY UMStep_Inv
  <1>3. QED
    BY <1>1, <1>2, PTL DEF UMSpec

-----------------------------------------------------------------------------
\* A free user mutex is not left to sleepers: no wake-up of mutex_unlock is lost
\* between a waiter's look at the lock word and its deschedule (mutex_lock.S).
THEOREM UserNobodyForgotten == ASSUME UMConstants PROVE UMSpec => []NobodyForgotten
  <1>1. ASSUME UMInv PROVE NobodyForgotten
    <2>1. SUFFICES ASSUME NEW t \in THREADS, upc[t] = "asleep", ~Coming
                   PROVE  upc[Head(wList)] \in {"try", "sleep"}
      BY DEF NobodyForgotten, Coming
    <2>2. PICK i \in 1 .. Len(wList) : wList[i] = t
      BY <2>1, <1>1 DEF UMInv, ListInv, Linked
    <2>3. wList # <<>> /\ 1 \in 1 .. Len(wList) /\ Head(wList) = wList[1] /\ wList[1] \in THREADS
      BY <1>1, <2>2 DEF UMInv, UMTypes
    <2>4. Linked(wList[1]) /\ upc[wList[1]] # "taken"
      BY <1>1, <2>1, <2>3 DEF UMInv, ListInv, LockInv, Owns, Coming
    <2>5. upc[wList[1]] # "asleep"
      BY <1>1, <2>1, <2>3 DEF UMInv, HeadInv
    <2>6. QED
      BY <2>3, <2>4, <2>5 DEF Linked
  <1>2. QED
    BY <1>1, UMInvariance, PTL

\* mutex_unlock writes to control blocks of threads that are in mutex_lock, which
\* thr_join cannot free.
THEOREM UserWakesOnlyWaiters == ASSUME UMConstants PROVE UMSpec => []WakesOnlyWaiters
  <1>1. UMInv => WakesOnlyWaiters
    BY DEF UMInv, UMTypes, WakingInv, WakesOnlyWaiters, Range
  <1>2. QED
    BY <1>1, UMInvariance, PTL

\* One thread at a time is between mutex_lock's exchange and mutex_unlock's store.
THEOREM UserMutualExclusion ==
  ASSUME UMConstants PROVE UMSpec => [](\A t, u \in THREADS : Owns(t) /\ Owns(u) => t = u)
  <1>1. UMInv => \A t, u \in THREADS : Owns(t) /\ Owns(u) => t = u
    BY DEF UMInv, LockInv
  <1>2. QED
    BY <1>1, UMInvariance, PTL
=============================================================================
