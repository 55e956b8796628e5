----------------------------- MODULE AllocProofs -----------------------------
(***************************************************************************)
(* Proofs about what the kernel hands out and takes back.  Identifiers, in *)
(* KTid: as long as one thread creates threads at a time, alloc_tid hands  *)
(* out only free ones.  Pages, in KPages: none is lost or given out twice, *)
(* and an allocation fails only when no run of pages is free.  The frames  *)
(* of a guest's shadow page tables, in KShadow: every listed record is     *)
(* counted, and no frame is lost.  For any sizes of the memory, bins,      *)
(* records and identifiers.                                                *)
(***************************************************************************)
EXTENDS KTid, KPages, KShadow, TLAPS, WellFoundedInduction, FiniteSetTheorems,
        SequenceTheorems

-----------------------------------------------------------------------------
(* Sequences without repetitions, and least elements. *)

Distinct(s) == \A i, j \in 1 .. Len(s) : s[i] = s[j] => i = j

\* An element taken out of a sequence.
LEMMA RemoveAtElements ==
  ASSUME NEW S, NEW s \in Seq(S), NEW i \in 1 .. Len(s)
  PROVE  /\ RemoveAt(s, i) \in Seq(S)
         /\ Len(RemoveAt(s, i)) = Len(s) - 1
         /\ \A j \in 1 .. Len(s) - 1 :
              RemoveAt(s, i)[j] = IF j < i THEN s[j] ELSE s[j + 1]
<1> DEFINE a == SubSeq(s, 1, i - 1)
           b == SubSeq(s, i + 1, Len(s))
<1>1. a \in Seq(S) /\ Len(a) = i - 1 /\ \A j \in 1 .. i - 1 : a[j] = s[j]
  OBVIOUS
<1>2. /\ b \in Seq(S) /\ Len(b) = Len(s) - i
      /\ \A j \in 1 .. Len(s) - i : b[j] = s[i + j]
  OBVIOUS
<1>3. RemoveAt(s, i) = a \o b
  BY DEF RemoveAt
<1> HIDE DEF a, b
<1>4. /\ a \o b \in Seq(S) /\ Len(a \o b) = Len(a) + Len(b)
      /\ \A j \in 1 .. Len(a) + Len(b) :
           (a \o b)[j] = IF j <= Len(a) THEN a[j] ELSE b[j - Len(a)]
  BY <1>1, <1>2, ConcatProperties
<1>5. Len(s) \in Nat /\ Len(a) + Len(b) = Len(s) - 1
  BY <1>1, <1>2
<1>6. ASSUME NEW j \in 1 .. Len(s) - 1
      PROVE  (a \o b)[j] = IF j < i THEN s[j] ELSE s[j + 1]
  <2>1. CASE j < i
    BY <1>1, <1>4, <1>5, <2>1
  <2>2. CASE ~(j < i)
    <3>1. (a \o b)[j] = b[j - (i - 1)]
      BY <1>1, <1>4, <1>5, <2>2
    <3>2. j - (i - 1) \in 1 .. Len(s) - i /\ i + (j - (i - 1)) = j + 1
      BY <1>5, <2>2
    <3>3. b[j - (i - 1)] = s[j + 1]
      BY <1>2, <3>2
    <3> QED
      BY <2>2, <3>1, <3>3
  <2> QED
    BY <2>1, <2>2
<1> QED
  BY <1>3, <1>4, <1>5, <1>6

\* Taking one element out of a sequence without repetitions.
LEMMA RemoveDistinct ==
  ASSUME NEW S, NEW s \in Seq(S), Distinct(s), NEW i \in 1 .. Len(s)
  PROVE  /\ RemoveAt(s, i) \in Seq(S) /\ Distinct(RemoveAt(s, i))
         /\ Range(RemoveAt(s, i)) = Range(s) \ {s[i]}
<1> DEFINE r == RemoveAt(s, i)
<1>1. /\ r \in Seq(S) /\ Len(r) = Len(s) - 1
      /\ \A j \in 1 .. Len(s) - 1 : r[j] = IF j < i THEN s[j] ELSE s[j + 1]
  BY RemoveAtElements
<1> HIDE DEF r
<1>2. Distinct(r)
  BY <1>1 DEF Distinct
<1>3. ASSUME NEW x \in Range(r) PROVE x \in Range(s) \ {s[i]}
  BY <1>1 DEF Distinct, Range
<1>4. ASSUME NEW x \in Range(s) \ {s[i]} PROVE x \in Range(r)
  <2>1. PICK j \in 1 .. Len(s) : s[j] = x /\ j # i
    BY DEF Range
  <2>2. CASE j < i
    BY <1>1, <2>1, <2>2 DEF Range
  <2>3. CASE j > i
    <3>1. j - 1 \in 1 .. Len(r) /\ r[j - 1] = s[j]
      BY <1>1, <2>3
    <3> QED
      BY <2>1, <3>1, <1>1 DEF Range
  <2> QED
    BY <2>1, <2>2, <2>3
<1>5. Range(r) = Range(s) \ {s[i]}
  BY <1>3, <1>4
<1> QED
  BY <1>1, <1>2, <1>5 DEF r

\* An element put in front of a sequence that lacks it.
LEMMA ConsDistinct ==
  ASSUME NEW S, NEW q \in Seq(S), Distinct(q), NEW x \in S, x \notin Range(q)
  PROVE  /\ <<x>> \o q \in Seq(S) /\ Distinct(<<x>> \o q)
         /\ Range(<<x>> \o q) = Range(q) \cup {x}
<1> DEFINE r == <<x>> \o q
<1>1. \A y \in S : <<y>> \in Seq(S) /\ Len(<<y>>) = 1 /\ <<y>>[1] = y
  OBVIOUS
<1>2. /\ r \in Seq(S) /\ Len(r) = 1 + Len(q)
      /\ \A i \in 1 .. 1 + Len(q) : r[i] = IF i <= 1 THEN x ELSE q[i - 1]
  <2>1. PICK o \in Seq(S) : o = <<x>> /\ Len(o) = 1 /\ o[1] = x
    BY <1>1
  <2>2. /\ o \o q \in Seq(S) /\ Len(o \o q) = Len(o) + Len(q)
        /\ \A i \in 1 .. Len(o) + Len(q) :
             (o \o q)[i] = IF i <= Len(o) THEN o[i] ELSE q[i - Len(o)]
    BY ConcatProperties
  <2>3. \A i \in 1 .. 1 + Len(q) : i <= 1 => i = 1
    OBVIOUS
  <2> QED
    BY <2>1, <2>2, <2>3
<1> HIDE DEF r
<1>3. Len(q) \in Nat
  OBVIOUS
<1>4. \A i \in 1 .. Len(q) : r[i + 1] = q[i] /\ i + 1 \in 1 .. Len(r)
  BY <1>2, <1>3
<1>5. r[1] = x /\ 1 \in 1 .. Len(r)
  BY <1>2, <1>3
<1>6. \A i \in 1 .. Len(r) : i # 1 => i - 1 \in 1 .. Len(q) /\ r[i] = q[i - 1]
  BY <1>2, <1>3
<1>7. \A i \in 1 .. Len(q) : q[i] # x
  BY DEF Range
<1>8. Distinct(r)
  <2>1. SUFFICES ASSUME NEW i \in 1 .. Len(r), NEW j \in 1 .. Len(r), r[i] = r[j]
                 PROVE  i = j
    BY DEF Distinct
  <2>2. CASE i = 1 \/ j = 1
    BY <1>5, <1>6, <1>7, <2>1, <2>2
  <2>3. CASE i # 1 /\ j # 1
    <3>1. /\ i - 1 \in 1 .. Len(q) /\ j - 1 \in 1 .. Len(q) /\ q[i - 1] = q[j - 1]
      BY <1>6, <2>1, <2>3
    <3>2. i - 1 = j - 1
      BY <3>1 DEF Distinct
    <3> QED
      BY <1>2, <1>3, <3>2
  <2> QED
    BY <2>2, <2>3
<1>9. Range(r) = Range(q) \cup {x}
  <2>1. ASSUME NEW y \in Range(r) PROVE y \in Range(q) \cup {x}
    <3>1. PICK i \in 1 .. Len(r) : r[i] = y
      BY <1>2 DEF Range
    <3> QED
      BY <1>5, <1>6, <3>1 DEF Range
  <2>2. ASSUME NEW y \in Range(q) PROVE y \in Range(r)
    <3>1. PICK i \in 1 .. Len(q) : q[i] = y
      BY DEF Range
    <3>2. i + 1 \in DOMAIN r /\ r[i + 1] = y
      BY <1>2, <1>4, <3>1
    <3> QED
      BY <3>2 DEF Range
  <2>3. x \in Range(r)
    BY <1>2, <1>5 DEF Range
  <2> QED
    BY <2>1, <2>2, <2>3
<1> QED
  BY <1>2, <1>8, <1>9 DEF r

\* A set of naturals has a least element.
LEMMA NatMin ==
  ASSUME NEW S, S \subseteq Nat, S # {}
  PROVE  Min(S) \in S /\ \A y \in S : Min(S) <= y
  <1> DEFINE R == {ss \in Nat \X Nat : ss[1] < ss[2]}
  <1>1. IsWellFoundedOn(R, Nat)
    BY NatLessThanWellFounded, Zenon DEF OpToRel
  <1>2. \E x \in S : \A y \in S : ~(<<y, x>> \in R)
    <2> HIDE DEF R
    <2> QED BY <1>1, WFMin
  <1>3. \E x \in S : \A y \in S : x <= y
    <2>1. PICK x \in S : \A y \in S : ~(<<y, x>> \in R)
      BY <1>2
    <2>2. ASSUME NEW y \in S PROVE x <= y
      <3>1. x \in Nat /\ y \in Nat
        OBVIOUS
      <3>2. ~(y < x)
        BY <2>1, <3>1
      <3>3. QED
        BY <3>1, <3>2
    <2>3. QED
      BY <2>2
  <1>4. QED
    BY <1>3, Zenon DEF Min

-----------------------------------------------------------------------------
(* Identifiers. *)

\* One creator, and identifiers for the two threads the kernel starts with.
TidConstants == (\A c, d \in CALLERS : c = d) /\ MaxTid \in Nat /\ IdlePid \in 1 .. MaxTid

TidTypes ==
  /\ keys \subseteq Tids /\ INIT_PID \in keys
  /\ tid \in 1 .. MaxTid + 1 /\ next_check \in 1 .. MaxTid + 1
  /\ step \in [CALLERS -> {"idle", "take", "store", "add"}]
  /\ got \in [CALLERS -> Int]

\* No thread has an identifier of the gap.
GapFree == tid <= next_check /\ \A k \in keys : ~(tid <= k /\ k < next_check)

\* Where c is in alloc_tid and in what follows it.
CallerInv(c) ==
  /\ step[c] = "take" => tid < next_check
  /\ step[c] = "store" => got[c] = tid /\ tid < next_check
  /\ step[c] = "add" => got[c] = tid - 1 /\ got[c] \in Tids \ keys

TidInv == TidTypes /\ GapFree /\ \A c \in CALLERS : CallerInv(c)

-----------------------------------------------------------------------------
LEMMA KeysAreTids ==
  ASSUME TidConstants, TidTypes
  PROVE  \A k \in keys : k \in Nat /\ 1 <= k /\ k <= MaxTid
  BY DEF TidConstants, TidTypes, Tids

\* The search finds the last key before a gap.
LEMMA GapStarts ==
  ASSUME TidConstants, TidTypes
  PROVE  GapStart \in keys /\ GapStart + 1 \notin keys
  <1> DEFINE absent == {q \in 1 .. MaxTid + 1 : q \notin keys}
             last   == Min(absent) - 1
             starts == {p \in keys : p + 1 \notin keys}
  <1>1. absent \subseteq Nat /\ MaxTid + 1 \in absent /\ 1 \notin absent
    BY DEF TidConstants, TidTypes, Tids, INIT_PID
  <1>2. Min(absent) \in absent /\ \A q \in absent : Min(absent) <= q
    <2> HIDE DEF absent
    <2> QED BY <1>1, NatMin
  <1>3. last \in keys /\ last + 1 \notin keys
    <2>1. PICK m \in absent : m = Min(absent)
      BY <1>2
    <2>2. m \in 2 .. MaxTid + 1 /\ m - 1 \notin absent /\ m \notin keys
      BY <1>1, <1>2, <2>1 DEF TidConstants
    <2>3. QED
      BY <2>1, <2>2 DEF TidConstants
  <1>4. starts \subseteq Nat
    BY KeysAreTids
  <1>5. Min(starts) \in starts
    <2>1. last \in starts
      BY <1>3
    <2> HIDE DEF starts, last
    <2> QED BY <2>1, <1>4, NatMin
  <1>6. QED
    BY <1>5, Zenon DEF GapStart

\* The gap after p ends before the next key.
LEMMA GapEnds ==
  ASSUME TidConstants, TidTypes, NEW p \in keys, p + 1 \notin keys, p # MaxTid
  PROVE  /\ GapEnd(p) \in 1 .. MaxTid + 1 /\ p + 1 < GapEnd(p)
         /\ \A k \in keys : ~(p + 1 <= k /\ k < GapEnd(p))
  <1>1. Later(p) \subseteq Nat
    BY KeysAreTids DEF Later
  <1>2. CASE Later(p) = {}
    BY <1>2, KeysAreTids DEF GapEnd, Later, TidConstants
  <1>3. CASE Later(p) # {}
    <2>1. Min(Later(p)) \in Later(p) /\ \A q \in Later(p) : Min(Later(p)) <= q
      BY <1>1, <1>3, NatMin
    <2>2. GapEnd(p) = Min(Later(p))
      BY <1>3 DEF GapEnd
    <2>3. GapEnd(p) \in Later(p) /\ \A q \in Later(p) : GapEnd(p) <= q
      BY <2>1, <2>2, Zenon
    <2>4. QED
      BY <2>3, KeysAreTids DEF Later, TidConstants
  <1>4. QED
    BY <1>2, <1>3

-----------------------------------------------------------------------------
LEMMA TidInit_Inv == TidConstants /\ TidInit => TidInv
  BY DEF TidConstants, TidInit, TidInv, TidTypes, GapFree, CallerInv, Tids, INIT_PID

LEMMA AllocCheck_Inv ==
  ASSUME TidConstants, TidInv, NEW c \in CALLERS, AllocCheck(c) PROVE TidInv'
  <1>1. /\ step' = [step EXCEPT ![c] = "take"] /\ UNCHANGED <<keys, got>>
        /\ \A d \in CALLERS : d = c
    BY DEF AllocCheck, TidConstants
  <1>2. CASE tid # next_check
    <2>1. UNCHANGED <<tid, next_check>>
      BY <1>2 DEF AllocCheck
    <2>2. QED
      BY <1>1, <1>2, <2>1 DEF TidInv, TidTypes, GapFree, CallerInv, Tids, TidConstants
  <1>3. CASE tid = next_check
    <2>1. tid' = GapStart + 1 /\ next_check' = GapEnd(GapStart) /\ GapStart # MaxTid
      BY <1>3 DEF AllocCheck, TidInv, TidTypes
    <2>2. GapStart \in keys /\ GapStart + 1 \notin keys
      BY GapStarts DEF TidInv
    <2>3. /\ GapEnd(GapStart) \in 1 .. MaxTid + 1 /\ GapStart + 1 < GapEnd(GapStart)
          /\ \A k \in keys : ~(GapStart + 1 <= k /\ k < GapEnd(GapStart))
      BY <2>1, <2>2, GapEnds DEF TidInv
    <2>4. QED
      BY <1>1, <2>1, <2>2, <2>3 DEF TidInv, TidTypes, GapFree, CallerInv, Tids, TidConstants
  <1>4. QED
    BY <1>2, <1>3

LEMMA TidStep == ASSUME TidConstants, TidInv, [TidNext]_tidVars PROVE TidInv'
  <1>1. ASSUME NEW c \in CALLERS, AllocCheck(c) PROVE TidInv'
    BY <1>1, AllocCheck_Inv
  <1>2. ASSUME NEW c \in CALLERS, AllocTake(c) PROVE TidInv'
    BY <1>2 DEF AllocTake, TidInv, TidTypes, GapFree, CallerInv, TidConstants
  <1>3. ASSUME NEW c \in CALLERS, AllocStore(c) PROVE TidInv'
    BY <1>3 DEF AllocStore, TidInv, TidTypes, GapFree, CallerInv, Tids, TidConstants
  <1>4. ASSUME NEW c \in CALLERS, TidAdd(c) PROVE TidInv'
    BY <1>4 DEF TidAdd, TidInv, TidTypes, GapFree, CallerInv, Tids, TidConstants
  <1>5. ASSUME NEW k \in Tids, TidRemove(k) PROVE TidInv'
    BY <1>5 DEF TidRemove, TidInv, TidTypes, GapFree, CallerInv, Tids, INIT_PID
  <1>6. CASE UNCHANGED tidVars
    BY <1>6 DEF tidVars, TidInv, TidTypes, GapFree, CallerInv
  <1>7. QED
    BY <1>1, <1>2, <1>3, <1>4, <1>5, <1>6 DEF TidNext

\* alloc_tid returns an identifier that no thread has, and nobody takes it before
\* the new thread enters the tree, also after the counter has wrapped to reuse gaps.
THEOREM TidsFresh == ASSUME TidConstants PROVE TidSpec => []FreshTid
  <1>1. TidInit => TidInv
    BY TidInit_Inv
  <1>2. TidInv /\ [TidNext]_tidVars => TidInv'
    BY TidStep
  <1>3. TidInv => FreshTid
    BY DEF TidInv, TidTypes, GapFree, CallerInv, FreshTid, Tids, TidConstants
  <1>4. QED
    BY <1>1, <1>2, <1>3, PTL DEF TidSpec

-----------------------------------------------------------------------------
(* Pages. *)

Chunk == {c \in Pages \X Sizes : c[1] + c[2] <= NumPages}
End(c) == c[1] + c[2] - 1
Apart(c, d) == End(c) < d[1] \/ End(d) < c[1]

Pools == [inuse : [-1 .. NumPages -> {TRUE, FALSE}], bins : [Bins -> Seq(Pages)],
          head : [Pages -> 0 .. NumPages], foot : [Pages -> 0 .. NumPages]]

\* The chunks of C do not overlap, and cover the pages.
Tiled(C) ==
  /\ C \subseteq Chunk
  /\ \A c, d \in C : c # d => Apart(c, d)
  /\ \A p \in Pages : \E c \in C : c[1] <= p /\ p <= End(c)

\* The bins hold the chunks F, each once and with its size at both ends.
BinsHold(m, F) ==
  /\ \A b \in Bins : Distinct(m.bins[b])
  /\ \A b \in Bins : \A pn \in Range(m.bins[b]) :
       b = FindBin(m.head[pn]) /\ <<pn, m.head[pn]>> \in F
  /\ \A c \in F : /\ c[1] \in Range(m.bins[FindBin(c[2])])
                  /\ m.head[c[1]] = c[2] /\ m.foot[End(c)] = c[2]

\* The bits at the ends of a chunk tell whether it is one of H, handed out, or of F, free.
BitsTell(m, H, F) ==
  /\ m.inuse[-1] = TRUE /\ m.inuse[NumPages] = TRUE
  /\ \A c \in H : m.inuse[c[1]] = TRUE /\ m.inuse[End(c)] = TRUE
  /\ \A c \in F : m.inuse[c[1]] = FALSE /\ m.inuse[End(c)] = FALSE

\* No free chunk follows another.
Coalesced(F) == \A c, d \in F : End(c) + 1 # d[1]

PoolInv(m, H, F) ==
  /\ m \in Pools /\ BinsHold(m, F) /\ BitsTell(m, H, F)
  /\ Tiled(H \cup F) /\ H \cap F = {} /\ Coalesced(F)

PageInv == PoolInv(mm, chunks, FreeChunks)

-----------------------------------------------------------------------------
LEMMA PageNumbers ==
  /\ NumPages \in Nat /\ NumPages >= 1 /\ NumBins \in Nat /\ NumBins >= 1
  /\ \A p : p \in Pages <=> p \in Int /\ 0 <= p /\ p < NumPages
  /\ \A s : s \in Sizes <=> s \in Int /\ 1 <= s /\ s <= NumPages
  /\ \A b : b \in Bins <=> b \in Int /\ 0 <= b /\ b < NumBins
  BY PageAssumption DEF Pages, Sizes, Bins

LEMMA ChunkFacts ==
  ASSUME NEW c \in Chunk
  PROVE  /\ c = <<c[1], c[2]>> /\ c[1] \in Int /\ c[2] \in Int /\ 0 <= c[1] /\ 1 <= c[2]
         /\ c[1] + c[2] <= NumPages /\ End(c) = c[1] + c[2] - 1
         /\ c[1] \in Pages /\ c[2] \in Sizes /\ End(c) \in Pages
<1>1. c \in Pages \X Sizes /\ c[1] + c[2] <= NumPages
  BY DEF Chunk
<1>2. /\ c = <<c[1], c[2]>> /\ c[1] \in Pages /\ c[2] \in Sizes
  BY <1>1
<1>3. /\ c[1] \in Int /\ c[2] \in Int /\ 0 <= c[1] /\ 1 <= c[2]
  BY <1>2, PageNumbers
<1> QED
  BY <1>1, <1>2, <1>3, PageNumbers DEF End

LEMMA ApartEnds ==
  ASSUME NEW c \in Chunk, NEW d \in Chunk, Apart(c, d)
  PROVE  /\ Apart(d, c) /\ c # d
         /\ c[1] # d[1] /\ End(c) # End(d) /\ c[1] # End(d) /\ End(c) # d[1]
  BY ChunkFacts DEF Apart

\* The bin of a size.
LEMMA FindBinLargest ==
  ASSUME NEW size \in Int, size >= 1
  PROVE  /\ FindBin(size) \in Bins /\ 2 ^ FindBin(size) <= size
         /\ \A i \in Bins : 2 ^ i <= size => i <= FindBin(size)
<1> DEFINE ok == {i \in Bins : 2 ^ i <= size}
           over == {n \in Nat : \E i \in ok : n = NumBins - i}
<1>1. 0 \in ok
  <2>1. 2 ^ 0 = 1
    OBVIOUS
  <2> QED
    BY <2>1, PageNumbers
<1>2. NumBins \in over
  <2>1. NumBins = NumBins - 0 /\ NumBins \in Nat
    BY PageNumbers
  <2> HIDE DEF ok
  <2> QED
    BY <1>1, <2>1
<1> HIDE DEF ok
<1>3. PICK n \in over : \A k \in over : n <= k
  <2>1. over \subseteq Nat /\ over # {}
    BY <1>2
  <2> HIDE DEF over
  <2> QED
    BY <2>1, NatMin
<1>4. PICK i \in ok : n = NumBins - i
  OBVIOUS
<1>5. ok \subseteq Bins
  BY DEF ok
<1>6. ASSUME NEW j \in ok PROVE i >= j
  <2>1. i \in Int /\ j \in Int /\ 0 <= j /\ j < NumBins
    BY <1>5, PageNumbers
  <2>2. NumBins - j \in over
    BY <2>1, PageNumbers
  <2> QED
    BY <1>3, <1>4, <2>1, <2>2, PageNumbers
<1>7. Max(ok) \in ok /\ \A j \in ok : Max(ok) >= j
  <2>1. \E x \in ok : \A y \in ok : x >= y
    BY <1>6
  <2> QED
    BY <2>1, Zenon DEF Max
<1>8. FindBin(size) = Max(ok)
  BY DEF FindBin, ok
<1>9. Max(ok) \in Bins /\ 2 ^ Max(ok) <= size
  BY <1>7 DEF ok
<1>10. ASSUME NEW j \in Bins, 2 ^ j <= size PROVE j <= Max(ok)
  <2>1. j \in ok
    BY <1>10 DEF ok
  <2>2. j \in Int /\ Max(ok) \in Int
    BY <1>9, PageNumbers
  <2> QED
    BY <1>7, <2>1, <2>2
<1> QED
  BY <1>8, <1>9, <1>10

LEMMA FindBinGrows ==
  ASSUME NEW small \in Int, NEW large \in Int, 1 <= small, small <= large
  PROVE  FindBin(small) <= FindBin(large)
<1>1. PICK i \in Bins : i = FindBin(small) /\ 2 ^ i <= small
  BY FindBinLargest
<1>2. large >= 1 /\ i \in Nat
  BY <1>1, PageNumbers
<1>3. 2 ^ i \in Int
  BY <1>2
<1>4. 2 ^ i <= large
  BY <1>1, <1>3
<1> QED
  BY <1>1, <1>2, <1>4, FindBinLargest

-----------------------------------------------------------------------------
(* The operations on the bins. *)

\* The chunk c, the i-th of the bin b, is taken out.
Takes(m, F, b, i, c, r) ==
  /\ m \in Pools /\ F \subseteq Chunk /\ BinsHold(m, F)
  /\ b \in Bins /\ i \in 1 .. Len(m.bins[b])
  /\ c = <<m.bins[b][i], m.head[m.bins[b][i]]>>
  /\ r = [m EXCEPT !.bins[b] = RemoveAt(@, i)]

LEMMA TakeOut ==
  ASSUME NEW m, NEW F, NEW b, NEW i, NEW c, NEW r, Takes(m, F, b, i, c, r)
  PROVE  /\ c \in F
         /\ r \in Pools /\ r.inuse = m.inuse /\ r.head = m.head /\ r.foot = m.foot
         /\ BinsHold(r, F \ {c})
<1> DEFINE q == RemoveAt(m.bins[b], i)
           pn == m.bins[b][i]
<1>0. /\ m \in Pools /\ F \subseteq Chunk /\ BinsHold(m, F)
      /\ b \in Bins /\ i \in 1 .. Len(m.bins[b])
      /\ c = <<pn, m.head[pn]>> /\ r = [m EXCEPT !.bins[b] = RemoveAt(@, i)]
  BY DEF Takes
<1>1. /\ m.inuse \in [-1 .. NumPages -> {TRUE, FALSE}] /\ m.bins \in [Bins -> Seq(Pages)]
      /\ m.head \in [Pages -> 0 .. NumPages] /\ m.foot \in [Pages -> 0 .. NumPages]
      /\ m = [inuse |-> m.inuse, bins |-> m.bins, head |-> m.head, foot |-> m.foot]
  BY <1>0 DEF Pools
<1>2. m.bins[b] \in Seq(Pages) /\ Distinct(m.bins[b])
  BY <1>0, <1>1 DEF BinsHold
<1>3. /\ q \in Seq(Pages) /\ Distinct(q) /\ Range(q) = Range(m.bins[b]) \ {pn}
  BY <1>0, <1>2, RemoveDistinct
<1>4. pn \in Range(m.bins[b]) /\ pn \in Pages
  BY <1>0, <1>2 DEF Range
<1>5. c \in F /\ b = FindBin(c[2]) /\ c[1] = pn /\ c[2] = m.head[pn]
  BY <1>0, <1>4 DEF BinsHold
<1>6. r = [m EXCEPT !.bins = [m.bins EXCEPT ![b] = q]]
  BY <1>0, <1>1
<1> HIDE DEF q, pn
<1>7. /\ r.inuse = m.inuse /\ r.head = m.head /\ r.foot = m.foot
      /\ r.bins = [m.bins EXCEPT ![b] = q]
      /\ r = [inuse |-> r.inuse, bins |-> r.bins, head |-> r.head, foot |-> r.foot]
  BY <1>0, <1>1, <1>6
<1>8. r.bins \in [Bins -> Seq(Pages)]
  BY <1>0, <1>1, <1>3, <1>7
<1>9. r \in Pools
  BY <1>0, <1>1, <1>7, <1>8 DEF Pools
<1>10. \A a \in Bins : r.bins[a] = IF a = b THEN q ELSE m.bins[a]
  BY <1>0, <1>1, <1>7
<1>11. ASSUME NEW a \in Bins PROVE Distinct(r.bins[a])
  BY <1>0, <1>3, <1>10 DEF BinsHold
<1>12. ASSUME NEW a \in Bins, NEW p \in Range(r.bins[a])
       PROVE  a = FindBin(r.head[p]) /\ <<p, r.head[p]>> \in F \ {c}
  <2>1. p \in Range(m.bins[a])
    BY <1>0, <1>3, <1>10
  <2>2. a = FindBin(m.head[p]) /\ <<p, m.head[p]>> \in F
    BY <1>0, <2>1 DEF BinsHold
  <2>3. p # pn
    <3>1. CASE a = b
      BY <1>0, <1>3, <1>10, <3>1
    <3>2. CASE a # b
      BY <1>0, <1>5, <2>2, <3>2
    <3> QED
      BY <1>0, <3>1, <3>2
  <2> QED
    BY <1>0, <1>7, <2>2, <2>3
<1>13. ASSUME NEW d \in F \ {c}
       PROVE  /\ d[1] \in Range(r.bins[FindBin(d[2])])
              /\ r.head[d[1]] = d[2] /\ r.foot[End(d)] = d[2]
  <2>1. /\ d[1] \in Range(m.bins[FindBin(d[2])])
        /\ m.head[d[1]] = d[2] /\ m.foot[End(d)] = d[2]
    BY <1>0 DEF BinsHold
  <2>2. d = <<d[1], d[2]>> /\ FindBin(d[2]) \in Bins
    BY <1>0, ChunkFacts, FindBinLargest
  <2>3. d[1] # pn
    BY <1>0, <2>1, <2>2
  <2>4. d[1] \in Range(r.bins[FindBin(d[2])])
    BY <1>0, <1>3, <1>10, <2>1, <2>2, <2>3
  <2> QED
    BY <1>0, <1>7, <2>1, <2>4
<1>14. BinsHold(r, F \ {c})
  BY <1>0, <1>11, <1>12, <1>13 DEF BinsHold
<1> QED
  BY <1>0, <1>4, <1>5, <1>7, <1>9, <1>14

\* No other bit than those of a and z is changed.
SameBits(r, m, a, z) ==
  \A p \in -1 .. NumPages : p # a /\ p # z => r.inuse[p] = m.inuse[p]

\* A chunk c that overlaps none of the others, F, is put into its bin.
Puts(m, F, c, r) ==
  /\ m \in Pools /\ F \subseteq Chunk /\ BinsHold(m, F) /\ c \in Chunk
  /\ \A d \in F : Apart(c, d)
  /\ r = AddToBins(m, c[1], c[2])

LEMMA PutIn ==
  ASSUME NEW m, NEW F, NEW c, NEW r, Puts(m, F, c, r)
  PROVE  /\ r \in Pools /\ BinsHold(r, F \cup {c})
         /\ r.inuse[c[1]] = FALSE /\ r.inuse[End(c)] = FALSE
         /\ SameBits(r, m, c[1], End(c))
<1>0. /\ m \in Pools /\ F \subseteq Chunk /\ BinsHold(m, F) /\ c \in Chunk
      /\ \A d \in F : Apart(c, d)
      /\ r = AddToBins(m, c[1], c[2])
  BY DEF Puts
<1>1. /\ m.inuse \in [-1 .. NumPages -> {TRUE, FALSE}] /\ m.bins \in [Bins -> Seq(Pages)]
      /\ m.head \in [Pages -> 0 .. NumPages] /\ m.foot \in [Pages -> 0 .. NumPages]
      /\ m = [inuse |-> m.inuse, bins |-> m.bins, head |-> m.head, foot |-> m.foot]
  BY <1>0 DEF Pools
<1>2. /\ c = <<c[1], c[2]>> /\ c[1] \in Pages /\ c[2] \in Int /\ c[2] >= 1
      /\ End(c) = c[1] + c[2] - 1 /\ End(c) \in Pages /\ c[2] \in 0 .. NumPages
      /\ c[1] \in -1 .. NumPages /\ End(c) \in -1 .. NumPages
  BY <1>0, ChunkFacts, PageNumbers
<1>3. PICK b \in Bins : b = FindBin(c[2])
  BY <1>0, <1>2, FindBinLargest
<1> DEFINE q == <<c[1]>> \o m.bins[b]
<1>4. /\ r.inuse = [m.inuse EXCEPT ![c[1]] = FALSE, ![End(c)] = FALSE]
      /\ r.bins = [m.bins EXCEPT ![b] = q]
      /\ r.head = [m.head EXCEPT ![c[1]] = c[2]]
      /\ r.foot = [m.foot EXCEPT ![End(c)] = c[2]]
      /\ r = [inuse |-> r.inuse, bins |-> r.bins, head |-> r.head, foot |-> r.foot]
  BY <1>0, <1>1, <1>2, <1>3 DEF AddToBins
<1>5. c[1] \notin Range(m.bins[b])
  <2>1. SUFFICES ASSUME c[1] \in Range(m.bins[b]) PROVE FALSE
    OBVIOUS
  <2>2. PICK d \in F : d = <<c[1], m.head[c[1]]>>
    BY <1>0, <2>1 DEF BinsHold
  <2>3. d \in Chunk /\ Apart(c, d) /\ d[1] = c[1]
    BY <1>0, <2>2
  <2> QED
    BY <1>0, <2>3, ApartEnds
<1>6. m.bins[b] \in Seq(Pages) /\ Distinct(m.bins[b])
  BY <1>0, <1>1 DEF BinsHold
<1>7. q \in Seq(Pages) /\ Distinct(q) /\ Range(q) = Range(m.bins[b]) \cup {c[1]}
  BY <1>0, <1>2, <1>5, <1>6, ConsDistinct
<1> HIDE DEF q
<1>8. /\ r.inuse \in [-1 .. NumPages -> {TRUE, FALSE}]
      /\ r.inuse[c[1]] = FALSE /\ r.inuse[End(c)] = FALSE
      /\ SameBits(r, m, c[1], End(c))
  BY <1>0, <1>1, <1>2, <1>4 DEF SameBits
<1>9. /\ r.bins \in [Bins -> Seq(Pages)]
      /\ \A a \in Bins : r.bins[a] = IF a = b THEN q ELSE m.bins[a]
  BY <1>0, <1>1, <1>4, <1>7
<1>10. /\ r.head \in [Pages -> 0 .. NumPages]
       /\ \A p \in Pages : r.head[p] = IF p = c[1] THEN c[2] ELSE m.head[p]
  BY <1>0, <1>1, <1>2, <1>4
<1>11. /\ r.foot \in [Pages -> 0 .. NumPages]
       /\ \A p \in Pages : r.foot[p] = IF p = End(c) THEN c[2] ELSE m.foot[p]
  BY <1>0, <1>1, <1>2, <1>4
<1>12. r \in Pools
  BY <1>0, <1>4, <1>8, <1>9, <1>10, <1>11 DEF Pools
<1>13. ASSUME NEW a \in Bins PROVE Distinct(r.bins[a])
  BY <1>0, <1>7, <1>9 DEF BinsHold
<1>14. ASSUME NEW a \in Bins, NEW p \in Range(r.bins[a])
       PROVE  a = FindBin(r.head[p]) /\ <<p, r.head[p]>> \in F \cup {c}
  <2>1. CASE a = b /\ p = c[1]
    BY <1>0, <1>2, <1>3, <1>10, <2>1
  <2>2. CASE ~(a = b /\ p = c[1])
    <3>1. p \in Range(m.bins[a])
      BY <1>0, <1>7, <1>9, <2>2
    <3>2. a = FindBin(m.head[p]) /\ <<p, m.head[p]>> \in F
      BY <1>0, <3>1 DEF BinsHold
    <3>3. PICK d \in F : d = <<p, m.head[p]>>
      BY <1>0, <3>2
    <3>4. d \in Chunk /\ Apart(c, d) /\ d[1] = p
      BY <1>0, <3>3
    <3>5. p # c[1] /\ p \in Pages
      BY <1>0, <3>4, ApartEnds, ChunkFacts
    <3> QED
      BY <1>0, <1>10, <3>2, <3>5
  <2> QED
    BY <1>0, <2>1, <2>2
<1>15. ASSUME NEW d \in F \cup {c}
       PROVE  /\ d[1] \in Range(r.bins[FindBin(d[2])])
              /\ r.head[d[1]] = d[2] /\ r.foot[End(d)] = d[2]
  <2>1. CASE d = c
    BY <1>0, <1>2, <1>3, <1>7, <1>9, <1>10, <1>11, <2>1
  <2>2. CASE d # c
    <3>1. d \in F /\ d \in Chunk /\ Apart(c, d)
      BY <1>0, <2>2
    <3>2. d[1] # c[1] /\ End(d) # End(c) /\ d[1] \in Pages /\ End(d) \in Pages
          /\ d[2] \in Int /\ d[2] >= 1
      BY <1>0, <3>1, ApartEnds, ChunkFacts
    <3>3. FindBin(d[2]) \in Bins
      BY <1>0, <3>2, FindBinLargest
    <3>4. /\ d[1] \in Range(m.bins[FindBin(d[2])])
          /\ m.head[d[1]] = d[2] /\ m.foot[End(d)] = d[2]
      BY <1>0, <3>1 DEF BinsHold
    <3> QED
      BY <1>0, <1>7, <1>9, <1>10, <1>11, <3>2, <3>3, <3>4
  <2> QED
    BY <1>0, <2>1, <2>2
<1>16. BinsHold(r, F \cup {c})
  BY <1>0, <1>13, <1>14, <1>15 DEF BinsHold
<1> QED
  BY <1>0, <1>8, <1>12, <1>16

\* What the owner of a chunk writes into it does not touch the free ones.
LEMMA ScribbleKeeps ==
  ASSUME NEW m \in Pools, NEW F \in SUBSET Chunk, BinsHold(m, F),
         NEW c \in Chunk, \A d \in F : Apart(c, d), NEW r, r = Scribble(m, c[1], c[2])
  PROVE  r \in Pools /\ BinsHold(r, F) /\ r.inuse = m.inuse
<1>1. /\ m.inuse \in [-1 .. NumPages -> {TRUE, FALSE}] /\ m.bins \in [Bins -> Seq(Pages)]
      /\ m.head \in [Pages -> 0 .. NumPages] /\ m.foot \in [Pages -> 0 .. NumPages]
      /\ m = [inuse |-> m.inuse, bins |-> m.bins, head |-> m.head, foot |-> m.foot]
  BY DEF Pools
<1>2. PICK own : own = c[1] .. c[1] + c[2] - 1
  OBVIOUS
<1>3. /\ r.inuse = m.inuse /\ r.bins = m.bins
      /\ r.head = [p \in Pages |-> IF p \in own THEN 0 ELSE m.head[p]]
      /\ r.foot = [p \in Pages |-> IF p \in own THEN 0 ELSE m.foot[p]]
      /\ r = [inuse |-> r.inuse, bins |-> r.bins, head |-> r.head, foot |-> r.foot]
  BY <1>1, <1>2 DEF Scribble
<1>4. /\ r.head \in [Pages -> 0 .. NumPages] /\ r.foot \in [Pages -> 0 .. NumPages]
  <2>1. 0 \in 0 .. NumPages
    BY PageNumbers
  <2> QED
    BY <1>1, <1>3, <2>1
<1>5. r \in Pools
  BY <1>1, <1>3, <1>4 DEF Pools
<1>6. ASSUME NEW d \in F
      PROVE  r.head[d[1]] = m.head[d[1]] /\ r.foot[End(d)] = m.foot[End(d)]
  <2>1. Apart(c, d) /\ d \in Chunk
    OBVIOUS
  <2>2. d[1] \notin own /\ End(d) \notin own /\ d[1] \in Pages /\ End(d) \in Pages
    BY <1>2, <2>1, ChunkFacts DEF Apart
  <2> QED
    BY <1>3, <2>2
<1>7. ASSUME NEW a \in Bins, NEW p \in Range(r.bins[a])
      PROVE  a = FindBin(r.head[p]) /\ <<p, r.head[p]>> \in F
  <2>1. a = FindBin(m.head[p]) /\ <<p, m.head[p]>> \in F
    BY <1>3 DEF BinsHold
  <2>2. PICK d \in F : d = <<p, m.head[p]>>
    BY <2>1
  <2>3. r.head[p] = m.head[p]
    BY <1>6, <2>2
  <2> QED
    BY <2>1, <2>3
<1>8. BinsHold(r, F)
  <2>1. \A a \in Bins : Distinct(r.bins[a])
    BY <1>3 DEF BinsHold
  <2>2. \A d \in F : /\ d[1] \in Range(r.bins[FindBin(d[2])])
                     /\ r.head[d[1]] = d[2] /\ r.foot[End(d)] = d[2]
    BY <1>3, <1>6 DEF BinsHold
  <2> QED
    BY <1>7, <2>1, <2>2 DEF BinsHold
<1> QED
  BY <1>3, <1>5, <1>8

LEMMA RemoveKeeps ==
  ASSUME NEW m \in Pools, NEW F \in SUBSET Chunk, BinsHold(m, F), NEW c \in F,
         NEW r, r = RemoveFromBins(m, c[1])
  PROVE  /\ r \in Pools /\ r.inuse = m.inuse /\ r.head = m.head /\ r.foot = m.foot
         /\ BinsHold(r, F \ {c})
<1>1. c = <<c[1], c[2]>> /\ c[2] \in Int /\ c[2] >= 1
  BY ChunkFacts
<1>2. PICK b \in Bins : b = FindBin(c[2])
  BY <1>1, FindBinLargest
<1>3. m.head[c[1]] = c[2] /\ c[1] \in Range(m.bins[b])
  BY <1>2 DEF BinsHold
<1>4. m.bins[b] \in Seq(Pages)
  BY DEF Pools
<1>5. PICK i : i = PlaceIn(m.bins[b], c[1])
  OBVIOUS
<1>6. i \in DOMAIN m.bins[b] /\ m.bins[b][i] = c[1]
  <2>1. \E j \in DOMAIN m.bins[b] : m.bins[b][j] = c[1]
    BY <1>3 DEF Range
  <2> QED
    BY <1>5, <2>1, Zenon DEF PlaceIn
<1>7. i \in 1 .. Len(m.bins[b])
  BY <1>4, <1>6
<1>8. r = [m EXCEPT !.bins[b] = RemoveAt(@, i)]
  BY <1>2, <1>3, <1>4, <1>5 DEF RemoveFromBins, Pools
<1>9. c[1] = m.bins[b][i] /\ c = <<c[1], m.head[c[1]]>>
  BY <1>1, <1>3, <1>6
<1>10. Takes(m, F, b, i, c, r)
  BY <1>7, <1>8, <1>9 DEF Takes
<1> QED
  BY <1>10, TakeOut

\* The bits at the ends of a chunk handed out.
Marked(m, a, z) == [m EXCEPT !.inuse = [@ EXCEPT ![a] = TRUE, ![z] = TRUE]]

Marks(m, F, a, z, r) ==
  m \in Pools /\ BinsHold(m, F) /\ a \in Pages /\ z \in Pages /\ r = Marked(m, a, z)

LEMMA MarkKeeps ==
  ASSUME NEW m, NEW F, NEW a, NEW z, NEW r, Marks(m, F, a, z, r)
  PROVE  /\ r \in Pools /\ BinsHold(r, F)
         /\ r.inuse[a] = TRUE /\ r.inuse[z] = TRUE
         /\ SameBits(r, m, a, z)
<1>1. /\ m.inuse \in [-1 .. NumPages -> {TRUE, FALSE}] /\ m.bins \in [Bins -> Seq(Pages)]
      /\ m.head \in [Pages -> 0 .. NumPages] /\ m.foot \in [Pages -> 0 .. NumPages]
      /\ m = [inuse |-> m.inuse, bins |-> m.bins, head |-> m.head, foot |-> m.foot]
  BY DEF Marks, Pools
<1>2. /\ r.inuse = [m.inuse EXCEPT ![a] = TRUE, ![z] = TRUE]
      /\ r.bins = m.bins /\ r.head = m.head /\ r.foot = m.foot
      /\ r = [inuse |-> r.inuse, bins |-> r.bins, head |-> r.head, foot |-> r.foot]
  BY <1>1 DEF Marks, Marked
<1>3. a \in -1 .. NumPages /\ z \in -1 .. NumPages
  BY PageNumbers DEF Marks
<1>4. /\ r.inuse \in [-1 .. NumPages -> {TRUE, FALSE}]
      /\ r.inuse[a] = TRUE /\ r.inuse[z] = TRUE
      /\ SameBits(r, m, a, z)
  BY <1>1, <1>2, <1>3 DEF SameBits
<1>5. r \in Pools
  BY <1>1, <1>2, <1>4 DEF Pools
<1>6. BinsHold(r, F)
  <2>1. r.bins = m.bins /\ r.head = m.head /\ r.foot = m.foot
    BY <1>2
  <2> QED
    BY <2>1 DEF Marks, BinsHold
<1> QED
  BY <1>4, <1>5, <1>6

-----------------------------------------------------------------------------
(* Tilings. *)

\* A chunk is cut in two.
Splits(C, c, size, d, e) ==
  /\ Tiled(C) /\ c \in C /\ size \in Int /\ 1 <= size /\ size < c[2]
  /\ d = <<c[1], size>> /\ e = <<c[1] + size, c[2] - size>>

LEMMA Split ==
  ASSUME NEW C, NEW c, NEW size, NEW d, NEW e, Splits(C, c, size, d, e)
  PROVE  /\ d \in Chunk /\ e \in Chunk /\ Apart(d, e) /\ End(e) = End(c) /\ End(d) + 1 = e[1]
         /\ \A x \in C \ {c} : Apart(d, x) /\ Apart(e, x)
         /\ Tiled((C \ {c}) \cup {d, e})
<1>0. /\ Tiled(C) /\ c \in C /\ size \in Int /\ 1 <= size /\ size < c[2]
      /\ d = <<c[1], size>> /\ e = <<c[1] + size, c[2] - size>>
  BY DEF Splits
<1>1. c \in Chunk /\ C \subseteq Chunk
  BY <1>0 DEF Tiled
<1>2. /\ c[1] \in Int /\ c[2] \in Int /\ 0 <= c[1] /\ 1 <= c[2] /\ c[1] + c[2] <= NumPages
      /\ End(c) = c[1] + c[2] - 1
  BY <1>0, <1>1, ChunkFacts
<1>3. /\ d[1] = c[1] /\ d[2] = size /\ e[1] = c[1] + size /\ e[2] = c[2] - size
      /\ End(d) = c[1] + size - 1 /\ End(e) = c[1] + c[2] - 1
  BY <1>0, <1>2 DEF End
<1>4. d \in Chunk /\ e \in Chunk
  <2>1. /\ d[1] \in Pages /\ d[2] \in Sizes /\ e[1] \in Pages /\ e[2] \in Sizes
        /\ d[1] + d[2] <= NumPages /\ e[1] + e[2] <= NumPages
    BY <1>0, <1>2, <1>3, PageNumbers
  <2> QED
    BY <1>0, <1>3, <2>1 DEF Chunk
<1>5. Apart(d, e) /\ Apart(e, d) /\ End(e) = End(c) /\ End(d) + 1 = e[1]
  BY <1>0, <1>2, <1>3 DEF Apart
<1>6. ASSUME NEW x \in C \ {c}
      PROVE  Apart(d, x) /\ Apart(e, x) /\ Apart(x, d) /\ Apart(x, e)
  <2>1. Apart(c, x)
    BY <1>0 DEF Tiled
  <2>2. x[1] \in Int /\ End(x) \in Int
    BY <1>0, <1>1, ChunkFacts, PageNumbers
  <2> QED
    BY <1>0, <1>2, <1>3, <2>1, <2>2 DEF Apart
<1> DEFINE D == (C \ {c}) \cup {d, e}
<1>7. \A x, y \in D : x # y => Apart(x, y)
  <2>1. \A x, y \in C \ {c} : x # y => Apart(x, y)
    BY <1>0 DEF Tiled
  <2> QED
    BY <1>0, <1>5, <1>6, <2>1
<1>8. ASSUME NEW p \in Pages PROVE \E x \in D : x[1] <= p /\ p <= End(x)
  <2>1. PICK x \in C : x[1] <= p /\ p <= End(x)
    BY <1>0 DEF Tiled
  <2>2. CASE x # c
    BY <1>0, <2>1, <2>2
  <2>3. CASE x = c
    <3>1. p \in Int
      BY <1>0, PageNumbers
    <3>2. (d[1] <= p /\ p <= End(d)) \/ (e[1] <= p /\ p <= End(e))
      BY <1>0, <1>2, <1>3, <2>1, <2>3, <3>1
    <3> QED
      BY <1>0, <3>2
  <2> QED
    BY <1>0, <2>2, <2>3
<1>9. D \subseteq Chunk
  BY <1>0, <1>1, <1>4
<1>10. Tiled(D)
  BY <1>0, <1>7, <1>8, <1>9 DEF Tiled
<1> QED
  BY <1>0, <1>4, <1>5, <1>6, <1>10

\* Two chunks, one behind the other, become one.
Joins(c, d, e) == End(c) + 1 = d[1] /\ e = <<c[1], c[2] + d[2]>>

LEMMA Join ==
  ASSUME NEW C, Tiled(C), NEW c \in C, NEW d \in C, NEW e, Joins(c, d, e)
  PROVE  /\ e \in Chunk /\ End(e) = End(d) /\ c # d
         /\ \A x \in C \ {c, d} : Apart(e, x)
         /\ Tiled((C \ {c, d}) \cup {e})
<1>0. End(c) + 1 = d[1] /\ e = <<c[1], c[2] + d[2]>>
  BY DEF Joins
<1>1. c \in Chunk /\ d \in Chunk /\ C \subseteq Chunk
  BY <1>0 DEF Tiled
<1>2. /\ c[1] \in Int /\ c[2] \in Int /\ 0 <= c[1] /\ 1 <= c[2] /\ c[1] + c[2] <= NumPages
      /\ End(c) = c[1] + c[2] - 1
      /\ d[1] \in Int /\ d[2] \in Int /\ 0 <= d[1] /\ 1 <= d[2] /\ d[1] + d[2] <= NumPages
      /\ End(d) = d[1] + d[2] - 1
  BY <1>0, <1>1, ChunkFacts
<1>3. e[1] = c[1] /\ e[2] = c[2] + d[2] /\ End(e) = c[1] + c[2] + d[2] - 1
  BY <1>0, <1>2 DEF End
<1>4. e \in Chunk /\ End(e) = End(d) /\ c # d
  <2>1. e[1] \in Pages /\ e[2] \in Sizes /\ e[1] + e[2] <= NumPages
    BY <1>0, <1>2, <1>3, PageNumbers
  <2>2. e \in Chunk
    BY <1>0, <1>3, <2>1 DEF Chunk
  <2>3. End(e) = End(d)
    BY <1>0, <1>2, <1>3
  <2>4. c[1] # d[1]
    BY <1>0, <1>2
  <2> QED
    BY <1>0, <2>2, <2>3, <2>4
<1>5. ASSUME NEW x \in C \ {c, d} PROVE Apart(e, x) /\ Apart(x, e)
  <2>1. Apart(c, x) /\ Apart(d, x)
    BY <1>0 DEF Tiled
  <2>2. x[1] \in Int /\ x[2] \in Int /\ x[2] >= 1 /\ End(x) = x[1] + x[2] - 1
    BY <1>0, <1>1, ChunkFacts
  <2> QED
    BY <1>0, <1>2, <1>3, <2>1, <2>2 DEF Apart
<1> DEFINE D == (C \ {c, d}) \cup {e}
<1>6. \A x, y \in D : x # y => Apart(x, y)
  <2>1. \A x, y \in C \ {c, d} : x # y => Apart(x, y)
    BY <1>0 DEF Tiled
  <2> QED
    BY <1>0, <1>5, <2>1
<1>7. ASSUME NEW p \in Pages PROVE \E x \in D : x[1] <= p /\ p <= End(x)
  <2>1. PICK x \in C : x[1] <= p /\ p <= End(x)
    BY <1>0 DEF Tiled
  <2>2. CASE x # c /\ x # d
    BY <1>0, <2>1, <2>2
  <2>3. CASE x = c \/ x = d
    <3>1. p \in Int
      BY <1>0, PageNumbers
    <3>2. e[1] <= p /\ p <= End(e)
      BY <1>0, <1>2, <1>3, <2>1, <2>3, <3>1
    <3> QED
      BY <1>0, <3>2
  <2> QED
    BY <1>0, <2>2, <2>3
<1>8. D \subseteq Chunk
  BY <1>0, <1>1, <1>4
<1>9. Tiled(D)
  BY <1>0, <1>6, <1>7, <1>8 DEF Tiled
<1> QED
  BY <1>0, <1>4, <1>5, <1>9

\* The chunk that holds the page before, or after, another chunk ends, or starts, there.
LEMMA Neighbours ==
  ASSUME NEW C, Tiled(C), NEW c \in C
  PROVE  /\ c[1] # 0 => \E d \in C : d # c /\ End(d) = c[1] - 1
         /\ End(c) + 1 # NumPages => \E d \in C : d # c /\ d[1] = End(c) + 1
<1>1. C \subseteq Chunk
  BY DEF Tiled
<1>2. /\ c[1] \in Int /\ c[2] \in Int /\ 0 <= c[1] /\ 1 <= c[2] /\ c[1] + c[2] <= NumPages
      /\ End(c) = c[1] + c[2] - 1
  BY <1>1, ChunkFacts
<1>3. ASSUME NEW p \in Pages, p = c[1] - 1 PROVE \E d \in C : d # c /\ End(d) = c[1] - 1
  <2>1. PICK d \in C : d[1] <= p /\ p <= End(d)
    BY DEF Tiled
  <2>2. d[1] \in Int /\ End(d) \in Int
    BY <1>1, ChunkFacts, PageNumbers
  <2>3. d # c
    BY <1>2, <1>3, <2>1
  <2>4. Apart(d, c)
    BY <2>3 DEF Tiled
  <2> QED
    BY <1>2, <1>3, <2>1, <2>2, <2>3, <2>4 DEF Apart
<1>4. ASSUME NEW p \in Pages, p = End(c) + 1 PROVE \E d \in C : d # c /\ d[1] = End(c) + 1
  <2>1. PICK d \in C : d[1] <= p /\ p <= End(d)
    BY DEF Tiled
  <2>2. d[1] \in Int /\ End(d) \in Int
    BY <1>1, ChunkFacts, PageNumbers
  <2>3. d # c
    BY <1>2, <1>4, <2>1
  <2>4. Apart(d, c)
    BY <2>3 DEF Tiled
  <2> QED
    BY <1>2, <1>4, <2>1, <2>2, <2>3, <2>4 DEF Apart
<1>5. c[1] # 0 => c[1] - 1 \in Pages
  BY <1>2, PageNumbers
<1>6. End(c) + 1 # NumPages => End(c) + 1 \in Pages
  BY <1>2, PageNumbers
<1> QED
  BY <1>3, <1>4, <1>5, <1>6

-----------------------------------------------------------------------------
(* The operations. *)

\* The bins hold exactly the free chunks.
LEMMA HeldAreFree ==
  ASSUME NEW m, NEW F \in SUBSET Chunk, BinsHold(m, F)
  PROVE  {<<pn, m.head[pn]>> : pn \in UNION {Range(m.bins[b]) : b \in Bins}} = F
<1> DEFINE X == {<<pn, m.head[pn]>> : pn \in UNION {Range(m.bins[b]) : b \in Bins}}
<1>1. ASSUME NEW c \in X PROVE c \in F
  <2>1. PICK pn \in UNION {Range(m.bins[b]) : b \in Bins} : c = <<pn, m.head[pn]>>
    OBVIOUS
  <2>2. PICK b \in Bins : pn \in Range(m.bins[b])
    OBVIOUS
  <2> QED
    BY <2>1, <2>2 DEF BinsHold
<1>2. ASSUME NEW c \in F PROVE c \in X
  <2>1. c = <<c[1], c[2]>> /\ FindBin(c[2]) \in Bins
    BY ChunkFacts, FindBinLargest
  <2>2. c[1] \in Range(m.bins[FindBin(c[2])]) /\ m.head[c[1]] = c[2]
    BY DEF BinsHold
  <2>3. c[1] \in UNION {Range(m.bins[b]) : b \in Bins}
    BY <2>1, <2>2
  <2> QED
    BY <2>1, <2>2, <2>3
<1> QED
  BY <1>1, <1>2

\* Whatever set the bins hold, it is FreeChunks.
LEMMA PageInvFrom ==
  ASSUME NEW F, PoolInv(mm', chunks', F) PROVE PageInv'
<1>1. F \in SUBSET Chunk /\ BinsHold(mm', F)
  BY DEF PoolInv, Tiled
<1>2. FreeChunks' = F
  BY <1>1, HeldAreFree DEF FreeChunks
<1> QED
  BY <1>2 DEF PageInv

LEMMA PageInit_Inv == PageInit => PageInv
<1> SUFFICES ASSUME PageInit PROVE PageInv
  OBVIOUS
<1> DEFINE m == [inuse |-> [p \in -1 .. NumPages |-> p \notin Pages],
                 bins |-> [b \in Bins |-> <<>>],
                 head |-> [p \in Pages |-> 0], foot |-> [p \in Pages |-> 0]]
<1>1. /\ m \in Pools /\ m.inuse[-1] = TRUE /\ m.inuse[NumPages] = TRUE
      /\ \A b \in Bins : m.bins[b] = <<>>
  <2>1. [p \in -1 .. NumPages |-> p \notin Pages] \in [-1 .. NumPages -> {TRUE, FALSE}]
    OBVIOUS
  <2>2. /\ [b \in Bins |-> <<>>] \in [Bins -> Seq(Pages)]
        /\ [p \in Pages |-> 0] \in [Pages -> 0 .. NumPages]
    BY PageNumbers
  <2>3. m \in Pools
    BY <2>1, <2>2 DEF Pools
  <2>4. -1 \in -1 .. NumPages /\ NumPages \in -1 .. NumPages /\ -1 \notin Pages
        /\ NumPages \notin Pages
    BY PageNumbers
  <2> QED
    BY <2>3, <2>4
<1>2. mm = AddToBins(m, 0, NumPages) /\ chunks = {}
  BY DEF PageInit
<1> HIDE DEF m
<1>3. BinsHold(m, {})
  BY <1>1 DEF BinsHold, Distinct, Range
<1>4. PICK c \in Chunk : c[1] = 0 /\ c[2] = NumPages /\ End(c) = NumPages - 1
  <2>1. /\ 0 \in Pages /\ NumPages \in Sizes /\ 0 + NumPages <= NumPages
        /\ 0 + NumPages - 1 = NumPages - 1
    BY PageNumbers
  <2>2. <<0, NumPages>> \in Chunk
    BY <2>1 DEF Chunk
  <2> QED
    BY <2>1, <2>2 DEF End
<1>5. /\ mm \in Pools /\ BinsHold(mm, {} \cup {c})
      /\ mm.inuse[c[1]] = FALSE /\ mm.inuse[End(c)] = FALSE
      /\ SameBits(mm, m, c[1], End(c))
  <2>1. PICK E \in SUBSET Chunk : E = {}
    OBVIOUS
  <2>2. PICK z \in Pools : z = m
    BY <1>1
  <2>3. mm = AddToBins(z, c[1], c[2]) /\ BinsHold(z, E)
    BY <1>2, <1>3, <1>4, <2>1, <2>2
  <2>4. \A d \in E : Apart(c, d)
    BY <2>1
  <2>5. Puts(z, E, c, mm)
    BY <2>3, <2>4 DEF Puts
  <2>6. /\ mm \in Pools /\ BinsHold(mm, E \cup {c})
        /\ mm.inuse[c[1]] = FALSE /\ mm.inuse[End(c)] = FALSE
        /\ SameBits(mm, z, c[1], End(c))
    BY <2>5, PutIn
  <2> QED
    BY <2>1, <2>2, <2>6
<1>6. BinsHold(mm, {c})
  <2>1. {} \cup {c} = {c}
    OBVIOUS
  <2> QED
    BY <1>5, <2>1
<1>7. BitsTell(mm, {}, {c})
  <2>1. /\ -1 \in -1 .. NumPages /\ NumPages \in -1 .. NumPages
        /\ c[1] \in -1 .. NumPages /\ End(c) \in -1 .. NumPages
        /\ -1 # c[1] /\ -1 # End(c) /\ NumPages # c[1] /\ NumPages # End(c)
    BY <1>4, PageNumbers
  <2> QED
    BY <1>1, <1>5, <2>1 DEF BitsTell, SameBits
<1>8. Tiled({c})
  <2>1. \A p \in Pages : c[1] <= p /\ p <= End(c)
    BY <1>4, PageNumbers
  <2> QED
    BY <2>1 DEF Tiled
<1>9. Coalesced({c})
  BY <1>4, PageNumbers DEF Coalesced
<1>10. FreeChunks = {c}
  BY <1>6, HeldAreFree DEF FreeChunks
<1>11. PoolInv(mm, chunks, {c})
  BY <1>2, <1>5, <1>6, <1>7, <1>8, <1>9 DEF PoolInv
<1> QED
  BY <1>10, <1>11 DEF PageInv

\* The state of the bins when size pages have been cut off c, which was taken out.
CutOff(rest, c, size) ==
  IF c[2] = size THEN rest ELSE AddToBins(rest, c[1] + size, c[2] - size)

\* Which chunk an allocation takes.
LEMMA AllocTakes ==
  ASSUME NEW m \in Pools, NEW F \in SUBSET Chunk, BinsHold(m, F), NEW size \in Sizes,
         UsableBins(m, size) # {}, NEW r, r = AllocFromBin(m, Min(UsableBins(m, size)), size)
  PROVE  \E c \in F, rest \in Pools :
           /\ c[2] >= size /\ r.pn = c[1]
           /\ rest.inuse = m.inuse /\ BinsHold(rest, F \ {c})
           /\ r.mm = Marked(CutOff(rest, c, size), c[1], c[1] + size - 1)
<1>1. UsableBins(m, size) \subseteq Nat
  BY PageNumbers DEF UsableBins
<1>2. PICK b \in UsableBins(m, size) : b = Min(UsableBins(m, size))
  BY <1>1, NatMin
<1>3. b \in Bins /\ Fits(m, b, size) # {}
  BY DEF UsableBins
<1>4. m.bins[b] \in Seq(Pages)
  BY <1>3 DEF Pools
<1>5. Fits(m, b, size) \subseteq Nat
  BY <1>4 DEF Fits
<1>6. PICK i \in Fits(m, b, size) : i = Min(Fits(m, b, size))
  BY <1>3, <1>5, NatMin
<1>7. i \in 1 .. Len(m.bins[b]) /\ m.head[m.bins[b][i]] >= size
  BY <1>4 DEF Fits
<1>8. PICK pn : pn = m.bins[b][i]
  OBVIOUS
<1>9. PICK c : c = <<pn, m.head[pn]>>
  OBVIOUS
<1>10. PICK rest : rest = [m EXCEPT !.bins[b] = RemoveAt(@, i)]
  OBVIOUS
<1>11. b \in Bins /\ i \in 1 .. Len(m.bins[b])
  BY <1>3, <1>7
<1>12. /\ c \in F /\ rest \in Pools /\ rest.inuse = m.inuse /\ BinsHold(rest, F \ {c})
  <2>1. Takes(m, F, b, i, c, rest)
    BY <1>8, <1>9, <1>10, <1>11 DEF Takes
  <2> QED
    BY <2>1, TakeOut
<1>13. c[1] = pn /\ c[2] = m.head[pn] /\ c[2] >= size
  BY <1>7, <1>8, <1>9
<1>14. r = AllocFromBin(m, b, size)
  BY <1>2
<1>15. /\ r.pn = c[1]
       /\ r.mm = Marked(CutOff(rest, c, size), c[1], c[1] + size - 1)
  <2>1. PICK cut : cut = IF m.head[pn] = size THEN rest
                         ELSE AddToBins(rest, pn + size, m.head[pn] - size)
    OBVIOUS
  <2>2. r = [pn |-> pn, mm |-> [cut EXCEPT !.inuse = [@ EXCEPT ![pn] = TRUE,
                                                               ![pn + size - 1] = TRUE]]]
    BY <1>6, <1>8, <1>10, <1>14, <2>1 DEF AllocFromBin
  <2>3. cut = CutOff(rest, c, size)
    BY <1>13, <2>1 DEF CutOff
  <2>4. r.pn = pn /\ r.mm = Marked(cut, pn, pn + size - 1)
    BY <2>2 DEF Marked
  <2> QED
    BY <1>13, <2>3, <2>4
<1> QED
  BY <1>12, <1>13, <1>15

LEMMA Alloc_Inv ==
  ASSUME PageInv, NEW size \in Sizes, AllocUserPages(size) PROVE PageInv'
<1>1. PICK H, F : H = chunks /\ F = FreeChunks
  OBVIOUS
<1>2. /\ mm \in Pools /\ BinsHold(mm, F) /\ BitsTell(mm, H, F)
      /\ Tiled(H \cup F) /\ H \cap F = {} /\ Coalesced(F)
  BY <1>1 DEF PageInv, PoolInv
<1>3. F \in SUBSET Chunk /\ H \in SUBSET Chunk
  BY <1>2 DEF Tiled
<1>4. PICK r : r = AllocFromBin(mm, Min(UsableBins(mm, size)), size)
  OBVIOUS
<1>5. /\ UsableBins(mm, size) # {}
      /\ mm' = Scribble(r.mm, r.pn, size) /\ chunks' = H \cup {<<r.pn, size>>}
  BY <1>1, <1>4 DEF AllocUserPages
<1>6. PICK c \in F, rest \in Pools :
        /\ c[2] >= size /\ r.pn = c[1]
        /\ rest.inuse = mm.inuse /\ BinsHold(rest, F \ {c})
        /\ r.mm = Marked(CutOff(rest, c, size), c[1], c[1] + size - 1)
  BY <1>2, <1>3, <1>4, <1>5, AllocTakes
<1>7. /\ c \in Chunk /\ c = <<c[1], c[2]>> /\ c[1] \in Int /\ c[2] \in Int /\ 0 <= c[1] /\ 1 <= c[2]
      /\ c[1] + c[2] <= NumPages /\ End(c) = c[1] + c[2] - 1
  BY <1>3, ChunkFacts
<1>8. size \in Int /\ 1 <= size /\ size <= NumPages
  BY PageNumbers
<1>9. PICK new : new = <<c[1], size>>
  OBVIOUS
<1>10. new[1] = c[1] /\ new[2] = size /\ End(new) = c[1] + size - 1
  BY <1>9 DEF End
\* What remains is to find the free chunks that are left, and the state before the
\* owner writes into the new one.
<1>11. SUFFICES ASSUME NEW G, NEW cut \in Pools, NEW m,
                       m = Marked(cut, new[1], End(new)),
                       r.mm = m, G \in SUBSET Chunk, BinsHold(cut, G), new \in Chunk,
                       \A d \in G : Apart(new, d),
                       BitsTell(cut, H, G), \A d \in H : Apart(new, d),
                       Tiled((H \cup {new}) \cup G), H \cap G = {}, Coalesced(G)
                PROVE  PageInv'
  <2>1. CASE c[2] = size
    <3>1. PICK G : G = F \ {c}
      OBVIOUS
    <3>2. new = c
      BY <1>7, <1>9, <2>1
    <3>3. r.mm = Marked(rest, new[1], End(new))
      BY <1>6, <1>10, <2>1 DEF CutOff
    <3>4. BinsHold(rest, G) /\ G \in SUBSET Chunk /\ H \cap G = {}
      BY <1>2, <1>3, <1>6, <3>1
    <3>5. BitsTell(rest, H, G)
      BY <1>2, <1>6, <3>1 DEF BitsTell
    <3>6. \A d \in (H \cup F) \ {c} : Apart(c, d)
      BY <1>2 DEF Tiled
    <3>7. (H \cup {new}) \cup G = H \cup F /\ c \notin H
      BY <1>2, <3>1, <3>2
    <3>8. Tiled((H \cup {new}) \cup G)
      BY <1>2, <3>7
    <3>9. (\A d \in G : Apart(new, d)) /\ (\A d \in H : Apart(new, d))
      BY <3>1, <3>2, <3>6, <3>7
    <3>10. Coalesced(G)
      BY <1>2, <3>1 DEF Coalesced
    <3> QED
      BY <1>7, <1>11, <3>2, <3>3, <3>4, <3>5, <3>8, <3>9, <3>10
  <2>2. CASE c[2] # size
    <3>1. PICK e, G : e = <<c[1] + size, c[2] - size>> /\ G = (F \ {c}) \cup {e}
      OBVIOUS
    <3>2. size < c[2]
      BY <1>6, <1>7, <1>8, <2>2
    <3>3. /\ new \in Chunk /\ e \in Chunk /\ Apart(new, e) /\ End(e) = End(c)
          /\ End(new) + 1 = e[1]
          /\ \A x \in (H \cup F) \ {c} : Apart(new, x) /\ Apart(e, x)
          /\ Tiled(((H \cup F) \ {c}) \cup {new, e})
      <4>1. PICK C : C = H \cup F
        OBVIOUS
      <4>2. Tiled(C) /\ c \in C
        BY <1>2, <4>1
      <4>3. /\ new \in Chunk /\ e \in Chunk /\ Apart(new, e) /\ End(e) = End(c)
            /\ End(new) + 1 = e[1]
            /\ \A x \in C \ {c} : Apart(new, x) /\ Apart(e, x)
            /\ Tiled((C \ {c}) \cup {new, e})
        <5>1. Splits(C, c, size, new, e)
          BY <1>8, <1>9, <3>1, <3>2, <4>2 DEF Splits
        <5> QED
          BY <5>1, Split
      <4> QED
        BY <4>1, <4>3
    <3>4. c \notin H
      BY <1>2
    <3>5. ((H \cup F) \ {c}) \cup {new, e} = (H \cup {new}) \cup G
      BY <3>1, <3>4
    <3>6. PICK cut : cut = AddToBins(rest, c[1] + size, c[2] - size)
      OBVIOUS
    <3>7. e[1] = c[1] + size /\ e[2] = c[2] - size
      BY <3>1
    <3>8. cut = AddToBins(rest, e[1], e[2])
      BY <3>6, <3>7
    <3>9. /\ cut \in Pools /\ BinsHold(cut, (F \ {c}) \cup {e})
          /\ cut.inuse[e[1]] = FALSE /\ cut.inuse[End(e)] = FALSE
          /\ SameBits(cut, rest, e[1], End(e))
      <4>1. PICK D : D = F \ {c} /\ D \in SUBSET Chunk
        BY <1>3
      <4>2. BinsHold(rest, D) /\ e \in Chunk /\ \A d \in D : Apart(e, d)
        BY <1>6, <3>3, <4>1
      <4>3. /\ cut \in Pools /\ BinsHold(cut, D \cup {e})
            /\ cut.inuse[e[1]] = FALSE /\ cut.inuse[End(e)] = FALSE
            /\ SameBits(cut, rest, e[1], End(e))
        <5>1. Puts(rest, D, e, cut)
          BY <3>8, <4>1, <4>2 DEF Puts
        <5> QED
          BY <5>1, PutIn
      <4> QED
        BY <4>1, <4>3
    <3>10. G \in SUBSET Chunk /\ BinsHold(cut, G)
      BY <1>3, <3>1, <3>3, <3>9
    <3>11. \A d \in H : Apart(new, d) /\ Apart(e, d)
      BY <3>3, <3>4
    <3>12. \A d \in G : Apart(new, d)
      BY <3>1, <3>3
    <3>13. H \cap G = {}
      <4>1. e \notin H
        BY <1>3, <3>3, <3>11, ApartEnds
      <4> QED
        BY <1>2, <3>1, <4>1
    <3>14. BitsTell(cut, H, G)
      <4>1. /\ \A d \in Chunk : d[1] \in -1 .. NumPages /\ End(d) \in -1 .. NumPages
            /\ \A d \in Chunk : d[1] # -1 /\ End(d) # -1 /\ d[1] # NumPages /\ End(d) # NumPages
            /\ -1 \in -1 .. NumPages /\ NumPages \in -1 .. NumPages
        BY ChunkFacts, PageNumbers
      <4>2. cut.inuse[-1] = TRUE /\ cut.inuse[NumPages] = TRUE
        BY <1>2, <1>6, <3>3, <3>9, <4>1 DEF BitsTell, SameBits
      <4>3. ASSUME NEW d \in H PROVE cut.inuse[d[1]] = TRUE /\ cut.inuse[End(d)] = TRUE
        <5>1. /\ d[1] # e[1] /\ d[1] # End(e) /\ End(d) # e[1] /\ End(d) # End(e)
          BY <1>3, <3>3, <3>11, ApartEnds
        <5>2. mm.inuse[d[1]] = TRUE /\ mm.inuse[End(d)] = TRUE /\ d \in Chunk
          BY <1>2, <1>3 DEF BitsTell
        <5> QED
          BY <1>6, <3>9, <4>1, <5>1, <5>2 DEF SameBits
      <4>4. ASSUME NEW d \in G PROVE cut.inuse[d[1]] = FALSE /\ cut.inuse[End(d)] = FALSE
        <5>1. CASE d = e
          BY <3>3, <3>9, <4>1, <5>1
        <5>2. CASE d # e
          <6>1. d \in F /\ d \in Chunk
            BY <1>3, <3>1, <5>2
          <6>2. mm.inuse[d[1]] = FALSE /\ mm.inuse[End(d)] = FALSE
            BY <1>2, <6>1 DEF BitsTell
          <6> QED
            BY <1>6, <3>9, <4>1, <6>1, <6>2 DEF SameBits
        <5> QED
          BY <5>1, <5>2
      <4> QED
        BY <4>2, <4>3, <4>4 DEF BitsTell
    <3>15. Coalesced(G)
      <4>1. ASSUME NEW x \in F \ {c} PROVE End(e) + 1 # x[1] /\ End(x) + 1 # e[1]
        <5>1. End(c) + 1 # x[1]
          BY <1>2 DEF Coalesced
        <5>2. Apart(c, x) /\ x \in Chunk
          BY <1>2, <1>3 DEF Tiled
        <5>3. x[1] \in Int /\ End(x) \in Int
          BY <5>2, ChunkFacts, PageNumbers
        <5> QED
          BY <1>7, <1>8, <3>2, <3>3, <3>7, <5>1, <5>2, <5>3, ChunkFacts DEF Apart
      <4>2. End(e) + 1 # e[1]
        BY <3>3, ChunkFacts
      <4> QED
        BY <1>2, <3>1, <4>1, <4>2 DEF Coalesced
    <3>16. r.mm = Marked(cut, new[1], End(new))
      BY <1>6, <1>10, <2>2, <3>6 DEF CutOff
    <3>17. Tiled((H \cup {new}) \cup G)
      BY <3>3, <3>5
    <3> QED
      BY <1>11, <3>3, <3>9, <3>10, <3>11, <3>12, <3>13, <3>14, <3>15, <3>16, <3>17
  <2> QED
    BY <2>1, <2>2
<1>12. new[1] \in Pages /\ End(new) \in Pages /\ new[1] = r.pn /\ new[2] = size
  BY <1>6, <1>10, <1>11, ChunkFacts
<1>13. /\ m \in Pools /\ BinsHold(m, G)
       /\ m.inuse[new[1]] = TRUE /\ m.inuse[End(new)] = TRUE
       /\ SameBits(m, cut, new[1], End(new))
  <2>1. PICK a \in Pages, z \in Pages : a = new[1] /\ z = End(new)
    BY <1>12
  <2>2. Marks(cut, G, a, z, m)
    BY <1>11, <2>1 DEF Marks
  <2>3. /\ m \in Pools /\ BinsHold(m, G)
        /\ m.inuse[a] = TRUE /\ m.inuse[z] = TRUE
        /\ SameBits(m, cut, a, z)
    BY <2>2, MarkKeeps
  <2> QED
    BY <2>1, <2>3
<1>14. mm' \in Pools /\ BinsHold(mm', G) /\ mm'.inuse = m.inuse
  <2>1. mm' = Scribble(m, new[1], new[2])
    BY <1>5, <1>11, <1>12
  <2> QED
    BY <1>11, <1>13, <2>1, ScribbleKeeps
<1>15. chunks' = H \cup {new}
  BY <1>5, <1>6, <1>9
<1>16. BitsTell(mm', H \cup {new}, G)
  <2>1. /\ \A d \in Chunk : d[1] \in -1 .. NumPages /\ End(d) \in -1 .. NumPages
        /\ \A d \in Chunk : d[1] # -1 /\ End(d) # -1 /\ d[1] # NumPages /\ End(d) # NumPages
        /\ -1 \in -1 .. NumPages /\ NumPages \in -1 .. NumPages
    BY ChunkFacts, PageNumbers
  <2>2. mm'.inuse[-1] = TRUE /\ mm'.inuse[NumPages] = TRUE
    BY <1>11, <1>13, <1>14, <2>1 DEF BitsTell, SameBits
  <2>3. ASSUME NEW d \in H \cup {new} PROVE mm'.inuse[d[1]] = TRUE /\ mm'.inuse[End(d)] = TRUE
    <3>1. CASE d = new
      BY <1>11, <1>13, <1>14, <2>1, <3>1
    <3>2. CASE d # new
      <4>1. d \in H /\ d \in Chunk
        BY <1>3, <3>2
      <4>2. cut.inuse[d[1]] = TRUE /\ cut.inuse[End(d)] = TRUE
        BY <1>11, <4>1 DEF BitsTell
      <4> QED
        BY <1>13, <1>14, <2>1, <4>1, <4>2 DEF SameBits
    <3> QED
      BY <3>1, <3>2
  <2>4. ASSUME NEW d \in G PROVE mm'.inuse[d[1]] = FALSE /\ mm'.inuse[End(d)] = FALSE
    <3>1. d \in Chunk /\ Apart(new, d)
      BY <1>11
    <3>2. d[1] # new[1] /\ d[1] # End(new) /\ End(d) # new[1] /\ End(d) # End(new)
      BY <1>11, <3>1, ApartEnds
    <3>3. cut.inuse[d[1]] = FALSE /\ cut.inuse[End(d)] = FALSE
      BY <1>11 DEF BitsTell
    <3> QED
      BY <1>13, <1>14, <2>1, <3>1, <3>2, <3>3 DEF SameBits
  <2> QED
    BY <2>2, <2>3, <2>4 DEF BitsTell
<1>17. (H \cup {new}) \cap G = {}
  <2>1. new \notin G
    BY <1>11, ApartEnds
  <2> QED
    BY <1>11, <2>1
<1>18. PoolInv(mm', chunks', G)
  BY <1>11, <1>14, <1>15, <1>16, <1>17 DEF PoolInv
<1> QED
  BY <1>18, PageInvFrom

\* No bit outside the pages, and what the bits tell of a chunk.
LEMMA BitRange ==
  /\ \A d \in Chunk : /\ d[1] \in -1 .. NumPages /\ End(d) \in -1 .. NumPages
                      /\ d[1] # -1 /\ End(d) # -1 /\ d[1] # NumPages /\ End(d) # NumPages
  /\ -1 \in -1 .. NumPages /\ NumPages \in -1 .. NumPages
  BY ChunkFacts, PageNumbers

\* The chunk that ends before c, or starts after it, is free if the bit there says so.
LEMMA FreeNeighbours ==
  ASSUME NEW m, NEW H, NEW F, PoolInv(m, H, F), NEW c \in H
  PROVE  /\ m.inuse[c[1] - 1] = TRUE => \A d \in F : End(d) + 1 # c[1]
         /\ m.inuse[c[1] - 1] # TRUE => \E d \in F : End(d) + 1 = c[1]
         /\ m.inuse[End(c) + 1] = TRUE => \A d \in F : d[1] # End(c) + 1
         /\ m.inuse[End(c) + 1] # TRUE => \E d \in F : d[1] = End(c) + 1
<1>1. BitsTell(m, H, F) /\ Tiled(H \cup F) /\ F \subseteq Chunk /\ H \subseteq Chunk
  BY DEF PoolInv, Tiled
<1>2. /\ c \in Chunk /\ c[1] \in Int /\ End(c) \in Int
  BY <1>1, ChunkFacts, PageNumbers
<1>3. ASSUME NEW d \in F, End(d) + 1 = c[1] PROVE m.inuse[c[1] - 1] # TRUE
  <2>1. End(d) \in Int
    BY <1>1, ChunkFacts, PageNumbers
  <2>2. End(d) = c[1] - 1
    BY <1>2, <1>3, <2>1
  <2> QED
    BY <1>1, <2>2 DEF BitsTell
<1>4. ASSUME NEW d \in F, d[1] = End(c) + 1 PROVE m.inuse[End(c) + 1] # TRUE
  BY <1>1, <1>4 DEF BitsTell
<1>5. PICK C : C = H \cup F
  OBVIOUS
<1>6. /\ c[1] # 0 => \E d \in C : d # c /\ End(d) = c[1] - 1
      /\ End(c) + 1 # NumPages => \E d \in C : d # c /\ d[1] = End(c) + 1
  <2>1. Tiled(C) /\ c \in C
    BY <1>1, <1>5
  <2> QED
    BY <2>1, Neighbours
<1>7. ASSUME m.inuse[c[1] - 1] # TRUE PROVE \E d \in F : End(d) + 1 = c[1]
  <2>1. c[1] # 0
    <3>1. SUFFICES ASSUME c[1] = 0 PROVE FALSE
      OBVIOUS
    <3>2. c[1] - 1 = -1
      BY <3>1
    <3> QED
      BY <1>1, <1>7, <3>2 DEF BitsTell
  <2>2. PICK d \in C : End(d) = c[1] - 1
    BY <1>6, <2>1
  <2>3. d \notin H
    BY <1>1, <1>7, <2>2 DEF BitsTell
  <2>4. d \in F
    BY <1>5, <2>3
  <2> QED
    BY <1>2, <2>2, <2>4
<1>8. ASSUME m.inuse[End(c) + 1] # TRUE PROVE \E d \in F : d[1] = End(c) + 1
  <2>1. End(c) + 1 # NumPages
    BY <1>1, <1>8 DEF BitsTell
  <2>2. PICK d \in C : d[1] = End(c) + 1
    BY <1>6, <2>1
  <2>3. d \notin H
    BY <1>1, <1>8, <2>2 DEF BitsTell
  <2> QED
    BY <1>5, <2>2, <2>3
<1> QED
  BY <1>3, <1>4, <1>7, <1>8

\* The state while a chunk is given back: j is neither handed out nor in a bin.
Between(m, H, F, j) ==
  /\ m \in Pools /\ BinsHold(m, F) /\ BitsTell(m, H, F)
  /\ F \subseteq Chunk /\ H \subseteq Chunk /\ j \in Chunk /\ j \notin H /\ j \notin F
  /\ Tiled((H \cup F) \cup {j}) /\ H \cap F = {} /\ Coalesced(F)

\* The free chunk d next to j is taken out of its bin and joined with j.
Merges(m, H, F, j, d, e, r) ==
  /\ Between(m, H, F, j) /\ d \in F /\ r = RemoveFromBins(m, d[1])
  /\ Joins(d, j, e) \/ Joins(j, d, e)

LEMMA Merge ==
  ASSUME NEW m, NEW H, NEW F, NEW j, NEW d, NEW e, NEW r, Merges(m, H, F, j, d, e, r)
  PROVE  Between(r, H, F \ {d}, e) /\ r.inuse = m.inuse /\ r.head = m.head
<1>0. /\ Between(m, H, F, j) /\ d \in F /\ r = RemoveFromBins(m, d[1])
      /\ Joins(d, j, e) \/ Joins(j, d, e)
  BY DEF Merges
<1>1. /\ m \in Pools /\ BinsHold(m, F) /\ BitsTell(m, H, F)
      /\ F \subseteq Chunk /\ H \subseteq Chunk /\ j \in Chunk /\ j \notin H /\ j \notin F
      /\ Tiled((H \cup F) \cup {j}) /\ H \cap F = {} /\ Coalesced(F)
  BY <1>0 DEF Between
<1>2. /\ r \in Pools /\ r.inuse = m.inuse /\ r.head = m.head
      /\ BinsHold(r, F \ {d})
  <2>1. PICK G \in SUBSET Chunk : G = F
    BY <1>0, <1>1
  <2>2. d \in G /\ BinsHold(m, G)
    BY <1>0, <1>1, <2>1
  <2>3. /\ r \in Pools /\ r.inuse = m.inuse /\ r.head = m.head /\ r.foot = m.foot
        /\ BinsHold(r, G \ {d})
    BY <1>0, <1>1, <2>2, RemoveKeeps
  <2> QED
    BY <1>0, <2>1, <2>3
<1>3. PICK C : C = (H \cup F) \cup {j}
  OBVIOUS
<1>4. /\ e \in Chunk
      /\ \A x \in C \ {d, j} : Apart(e, x)
      /\ Tiled((C \ {d, j}) \cup {e})
  <2>1. Tiled(C) /\ d \in C /\ j \in C
    BY <1>0, <1>1, <1>3
  <2>2. CASE Joins(d, j, e)
    BY <1>0, <2>1, <2>2, Join
  <2>3. CASE Joins(j, d, e)
    <3>1. {d, j} = {j, d}
      OBVIOUS
    <3> QED
      BY <1>0, <2>1, <2>3, <3>1, Join
  <2> QED
    BY <1>0, <2>2, <2>3
<1>5. C \ {d, j} = H \cup (F \ {d})
  BY <1>0, <1>1, <1>3
<1>6. e \notin H /\ e \notin F \ {d}
  <2>1. C \subseteq Chunk
    BY <1>0, <1>1, <1>3
  <2> QED
    BY <1>0, <1>4, <1>5, <2>1, ApartEnds
<1>7. BitsTell(r, H, F \ {d})
  BY <1>0, <1>1, <1>2 DEF BitsTell
<1>8. Coalesced(F \ {d})
  BY <1>0, <1>1 DEF Coalesced
<1>9. Tiled((H \cup (F \ {d})) \cup {e})
  BY <1>0, <1>4, <1>5
<1> QED
  BY <1>0, <1>1, <1>2, <1>4, <1>6, <1>7, <1>8, <1>9 DEF Between

\* The chunk is put into a bin when no free one touches it any more.
LEMMA GiveBack ==
  ASSUME NEW m, NEW H, NEW F, NEW j, Between(m, H, F, j),
         \A d \in F : End(d) + 1 # j[1] /\ End(j) + 1 # d[1],
         NEW r, r = AddToBins(m, j[1], j[2])
  PROVE  PoolInv(r, H, F \cup {j})
<1>1. /\ m \in Pools /\ BinsHold(m, F) /\ BitsTell(m, H, F)
      /\ F \subseteq Chunk /\ H \subseteq Chunk /\ j \in Chunk /\ j \notin H /\ j \notin F
      /\ Tiled((H \cup F) \cup {j}) /\ H \cap F = {} /\ Coalesced(F)
  BY DEF Between
<1>2. \A d \in H \cup F : Apart(j, d)
  BY <1>1 DEF Tiled
<1>3. Puts(m, F, j, r)
  BY <1>1, <1>2 DEF Puts
<1>4. /\ r \in Pools /\ BinsHold(r, F \cup {j})
      /\ r.inuse[j[1]] = FALSE /\ r.inuse[End(j)] = FALSE
      /\ SameBits(r, m, j[1], End(j))
  BY <1>3, PutIn
<1>5. BitsTell(r, H, F \cup {j})
  <2>1. r.inuse[-1] = TRUE /\ r.inuse[NumPages] = TRUE
    BY <1>1, <1>4, BitRange DEF BitsTell, SameBits
  <2>2. ASSUME NEW d \in H PROVE r.inuse[d[1]] = TRUE /\ r.inuse[End(d)] = TRUE
    <3>1. d \in Chunk /\ Apart(j, d)
      BY <1>1, <1>2
    <3>2. d[1] # j[1] /\ d[1] # End(j) /\ End(d) # j[1] /\ End(d) # End(j)
      BY <1>1, <3>1, ApartEnds
    <3>3. m.inuse[d[1]] = TRUE /\ m.inuse[End(d)] = TRUE
      BY <1>1 DEF BitsTell
    <3> QED
      BY <1>4, <3>1, <3>2, <3>3, BitRange DEF SameBits
  <2>3. ASSUME NEW d \in F \cup {j} PROVE r.inuse[d[1]] = FALSE /\ r.inuse[End(d)] = FALSE
    <3>1. CASE d = j
      BY <1>4, <3>1
    <3>2. CASE d # j
      <4>1. d \in F /\ d \in Chunk /\ Apart(j, d)
        BY <1>1, <1>2, <3>2
      <4>2. d[1] # j[1] /\ d[1] # End(j) /\ End(d) # j[1] /\ End(d) # End(j)
        BY <1>1, <4>1, ApartEnds
      <4>3. m.inuse[d[1]] = FALSE /\ m.inuse[End(d)] = FALSE
        BY <1>1, <4>1 DEF BitsTell
      <4> QED
        BY <1>4, <4>1, <4>2, <4>3, BitRange DEF SameBits
    <3> QED
      BY <3>1, <3>2
  <2> QED
    BY <2>1, <2>2, <2>3 DEF BitsTell
<1>6. Coalesced(F \cup {j})
  <2>1. End(j) + 1 # j[1]
    BY <1>1, ChunkFacts
  <2> QED
    BY <1>1, <2>1 DEF Coalesced
<1>7. H \cap (F \cup {j}) = {} /\ H \cup (F \cup {j}) = (H \cup F) \cup {j}
  BY <1>1
<1> QED
  BY <1>1, <1>4, <1>5, <1>6, <1>7 DEF PoolInv

LEMMA Free_Inv ==
  ASSUME PageInv, NEW c, FreeUserPages(c) PROVE PageInv'
<1>1. PICK F : F = FreeChunks
  OBVIOUS
<1>2. PICK H : H = chunks \ {c}
  OBVIOUS
<1>3. PoolInv(mm, chunks, F) /\ c \in chunks
  BY <1>1 DEF PageInv, FreeUserPages
<1>4. Between(mm, H, F, c)
  <2>1. /\ mm \in Pools /\ BinsHold(mm, F) /\ BitsTell(mm, chunks, F)
        /\ Tiled(chunks \cup F) /\ chunks \cap F = {} /\ Coalesced(F)
    BY <1>3 DEF PoolInv
  <2>2. (H \cup F) \cup {c} = chunks \cup F
    BY <1>2, <1>3
  <2>3. BitsTell(mm, H, F)
    BY <1>2, <2>1 DEF BitsTell
  <2>4. F \subseteq Chunk /\ H \subseteq Chunk /\ c \in Chunk
    BY <1>2, <1>3, <2>1 DEF Tiled
  <2> QED
    BY <1>2, <1>3, <2>1, <2>2, <2>3, <2>4 DEF Between
<1>5. /\ c \in Chunk /\ c = <<c[1], c[2]>> /\ c[1] \in Int /\ c[2] \in Int /\ c[2] >= 1
      /\ End(c) = c[1] + c[2] - 1
  <2>1. c \in Chunk
    BY <1>4 DEF Between
  <2> QED
    BY <2>1, ChunkFacts
<1>6. /\ mm.inuse[c[1] - 1] = TRUE => \A d \in F : End(d) + 1 # c[1]
      /\ mm.inuse[c[1] - 1] # TRUE => \E d \in F : End(d) + 1 = c[1]
      /\ mm.inuse[End(c) + 1] = TRUE => \A d \in F : d[1] # End(c) + 1
      /\ mm.inuse[End(c) + 1] # TRUE => \E d \in F : d[1] = End(c) + 1
  BY <1>3, FreeNeighbours
<1>7. \A d \in F : /\ d = <<d[1], d[2]>> /\ d[1] \in Int /\ d[2] \in Int /\ d[2] >= 1
                   /\ End(d) = d[1] + d[2] - 1
                   /\ mm.head[d[1]] = d[2] /\ mm.foot[End(d)] = d[2]
  <2>1. F \subseteq Chunk /\ BinsHold(mm, F)
    BY <1>4 DEF Between
  <2> QED
    BY <2>1, ChunkFacts DEF BinsHold
<1> DEFINE before == IF mm.inuse[c[1] - 1] THEN 0 ELSE mm.foot[c[1] - 1]
           m == IF before = 0 THEN mm ELSE RemoveFromBins(mm, c[1] - before)
           r == MergeNext(m, c[1], c[2])
<1>8. mm' = AddToBins(r.mm, c[1] - before, r.size + before) /\ chunks' = H
  BY <1>2 DEF FreeUserPages
\* The chunk before is merged, if it is free.
<1>9. \E G, j :
        /\ Between(m, H, G, j) /\ G \subseteq F /\ m.inuse = mm.inuse /\ m.head = mm.head
        /\ j[1] = c[1] - before /\ j[2] = before + c[2] /\ End(j) = End(c)
        /\ \A d \in G : End(d) + 1 # j[1]
        /\ \A d \in F : d[1] = End(c) + 1 => d \in G
        /\ before \in Int
  <2>1. CASE mm.inuse[c[1] - 1] = TRUE
    <3>1. before = 0 /\ m = mm
      BY <2>1
    <3> HIDE DEF before, m
    <3>2. c[1] - before = c[1] /\ before + c[2] = c[2]
      BY <1>5, <3>1
    <3>3. \A d \in F : End(d) + 1 # c[1]
      BY <1>6, <2>1
    <3> WITNESS F, c
    <3> QED
      BY <1>4, <3>1, <3>2, <3>3
  <2>2. CASE mm.inuse[c[1] - 1] # TRUE
    <3>1. PICK d \in F : End(d) + 1 = c[1]
      BY <1>6, <2>2
    <3>2. d[1] \in Int /\ d[2] \in Int /\ d[2] >= 1 /\ End(d) = d[1] + d[2] - 1
          /\ mm.foot[End(d)] = d[2] /\ End(d) = c[1] - 1
      BY <1>5, <1>7, <3>1
    <3>3. mm.inuse[c[1] - 1] = FALSE
      <4>1. BitsTell(mm, H, F)
        BY <1>4 DEF Between
      <4> QED
        BY <3>2, <4>1 DEF BitsTell
    <3>4. before = d[2] /\ c[1] - before = d[1]
      BY <1>5, <3>1, <3>2, <3>3
    <3>5. m = RemoveFromBins(mm, d[1])
      BY <3>2, <3>4
    <3> HIDE DEF before, m
    <3>6. PICK e : e = <<d[1], d[2] + c[2]>>
      OBVIOUS
    <3>7. Between(m, H, F \ {d}, e) /\ m.inuse = mm.inuse /\ m.head = mm.head
      <4>1. Joins(d, c, e)
        BY <3>1, <3>6 DEF Joins
      <4>2. Merges(mm, H, F, c, d, e, m)
        BY <1>4, <3>5, <4>1 DEF Merges
      <4> QED
        BY <4>2, Merge
    <3>8. e[1] = d[1] /\ e[2] = d[2] + c[2] /\ End(e) = End(c)
      BY <1>5, <3>1, <3>2, <3>6 DEF End
    <3>9. \A x \in F \ {d} : End(x) + 1 # e[1]
      BY <1>4, <3>8 DEF Between, Coalesced
    <3>10. \A x \in F : x[1] = End(c) + 1 => x \in F \ {d}
      BY <1>5, <3>2
    <3>11. PICK G : G = F \ {d}
      OBVIOUS
    <3> WITNESS G, e
    <3> QED
      BY <3>2, <3>4, <3>7, <3>8, <3>9, <3>10, <3>11
  <2> QED
    BY <2>1, <2>2
<1> HIDE DEF before, m
<1>10. PICK G, j :
         /\ Between(m, H, G, j) /\ G \subseteq F /\ m.inuse = mm.inuse /\ m.head = mm.head
         /\ j[1] = c[1] - before /\ j[2] = before + c[2] /\ End(j) = End(c)
         /\ \A d \in G : End(d) + 1 # j[1]
         /\ \A d \in F : d[1] = End(c) + 1 => d \in G
         /\ before \in Int
  BY <1>9
<1>11. c[1] + c[2] = End(c) + 1
  BY <1>5
\* And so is the chunk after.
<1>12. \E K, e :
         /\ Between(r.mm, H, K, e) /\ e[1] = c[1] - before /\ e[2] = r.size + before
         /\ \A d \in K : End(d) + 1 # e[1] /\ End(e) + 1 # d[1]
  <2>1. CASE mm.inuse[End(c) + 1] = TRUE
    <3>1. r.mm = m /\ r.size = c[2]
      BY <1>10, <1>11, <2>1 DEF MergeNext
    <3> HIDE DEF r
    <3>2. \A d \in G : d[1] # End(j) + 1
      BY <1>6, <1>10, <2>1
    <3>3. j[2] = r.size + before
      BY <1>5, <1>10, <3>1
    <3> WITNESS G, j
    <3> QED
      BY <1>10, <3>1, <3>2, <3>3
  <2>2. CASE mm.inuse[End(c) + 1] # TRUE
    <3>1. PICK d \in F : d[1] = End(c) + 1
      BY <1>6, <2>2
    <3>2. d \in G /\ d[1] \in Int /\ d[2] \in Int /\ d[2] >= 1 /\ End(d) = d[1] + d[2] - 1
          /\ mm.head[d[1]] = d[2]
      BY <1>7, <1>10, <3>1
    <3>3. mm.inuse[End(c) + 1] = FALSE
      <4>1. BitsTell(mm, H, F)
        BY <1>4 DEF Between
      <4> QED
        BY <3>1, <4>1 DEF BitsTell
    <3>4. r.mm = RemoveFromBins(m, d[1]) /\ r.size = c[2] + d[2]
      BY <1>10, <1>11, <3>1, <3>2, <3>3 DEF MergeNext
    <3> HIDE DEF r
    <3>5. PICK e, n : e = <<j[1], j[2] + d[2]>> /\ n = r.mm
      OBVIOUS
    <3>6. Between(n, H, G \ {d}, e)
      <4>1. Between(m, H, G, j) /\ n = RemoveFromBins(m, d[1]) /\ d \in G
        BY <1>10, <3>2, <3>4, <3>5
      <4>2. Joins(j, d, e)
        BY <1>10, <3>1, <3>5 DEF Joins
      <4>3. Merges(m, H, G, j, d, e, n)
        BY <4>1, <4>2 DEF Merges
      <4> QED
        BY <4>3, Merge
    <3>7. e[1] = c[1] - before /\ e[2] = r.size + before
      BY <1>5, <1>10, <3>2, <3>4, <3>5
    <3>8. End(e) = End(d)
      BY <1>5, <1>10, <1>11, <3>1, <3>2, <3>4, <3>7 DEF End
    <3>9. \A x \in G \ {d} : End(x) + 1 # e[1] /\ End(e) + 1 # x[1]
      <4>1. \A x \in G \ {d} : End(x) + 1 # e[1]
        BY <1>10, <3>5
      <4>2. \A x \in G \ {d} : End(d) + 1 # x[1]
        BY <1>10, <3>2 DEF Between, Coalesced
      <4> QED
        BY <3>8, <4>1, <4>2
    <3>10. PICK K : K = G \ {d}
      OBVIOUS
    <3> WITNESS K, e
    <3> QED
      BY <3>5, <3>6, <3>7, <3>9, <3>10
  <2> QED
    BY <2>1, <2>2
<1>13. PICK K, e :
         /\ Between(r.mm, H, K, e) /\ e[1] = c[1] - before /\ e[2] = r.size + before
         /\ \A d \in K : End(d) + 1 # e[1] /\ End(e) + 1 # d[1]
  BY <1>12
<1> HIDE DEF r
<1>14. PICK n : n = r.mm
  OBVIOUS
<1>15. mm' = AddToBins(n, e[1], e[2]) /\ Between(n, H, K, e)
  BY <1>8, <1>13, <1>14
<1>16. PoolInv(mm', H, K \cup {e})
  BY <1>13, <1>15, GiveBack
<1>17. PICK L : L = K \cup {e}
  OBVIOUS
<1>18. PoolInv(mm', chunks', L)
  BY <1>8, <1>16, <1>17
<1> QED
  BY <1>18, PageInvFrom

LEMMA PageStep == PageInv /\ [PageNext]_pageVars => PageInv'
<1> SUFFICES ASSUME PageInv, [PageNext]_pageVars PROVE PageInv'
  OBVIOUS
<1>1. ASSUME NEW size \in Sizes, AllocUserPages(size) PROVE PageInv'
  BY <1>1, Alloc_Inv
<1>2. ASSUME NEW c, FreeUserPages(c) PROVE PageInv'
  BY <1>2, Free_Inv
<1>3. CASE UNCHANGED pageVars
  BY <1>3 DEF pageVars, PageInv, FreeChunks
<1> QED
  BY <1>1, <1>2, <1>3 DEF PageNext

-----------------------------------------------------------------------------
(* What the invariant says of the properties. *)

LEMMA PagesAreParted == PageInv => PagesPartition
<1> SUFFICES ASSUME PageInv PROVE PagesPartition
  OBVIOUS
<1>1. PICK F, C : F = FreeChunks /\ C = chunks \cup FreeChunks
  OBVIOUS
<1>2. /\ mm \in Pools /\ BinsHold(mm, F) /\ BitsTell(mm, chunks, F)
      /\ Tiled(C) /\ chunks \cap F = {} /\ C \subseteq Chunk
  BY <1>1 DEF PageInv, PoolInv, Tiled
<1>3. ASSUME NEW p \in Pages
      PROVE  Cardinality({c \in C : p \in c[1] .. c[1] + c[2] - 1}) = 1
  <2>1. PICK c \in C : c[1] <= p /\ p <= End(c)
    BY <1>2 DEF Tiled
  <2>2. p \in Int
    BY PageNumbers
  <2>3. \A d \in C : d[1] \in Int /\ d[2] \in Int /\ End(d) = d[1] + d[2] - 1
    BY <1>2, ChunkFacts
  <2>4. ASSUME NEW d \in C, p \in d[1] .. d[1] + d[2] - 1 PROVE d = c
    <3>1. SUFFICES ASSUME d # c PROVE FALSE
      OBVIOUS
    <3>2. Apart(d, c)
      BY <1>2, <3>1 DEF Tiled
    <3> QED
      BY <2>1, <2>2, <2>3, <2>4, <3>2 DEF Apart
  <2>5. p \in c[1] .. c[1] + c[2] - 1
    BY <2>1, <2>2, <2>3
  <2>6. {d \in C : p \in d[1] .. d[1] + d[2] - 1} = {c}
    BY <2>4, <2>5
  <2> QED
    BY <2>6, FS_Singleton
<1>4. ASSUME NEW b \in Bins
      PROVE  /\ IsInjective(mm.bins[b])
             /\ \A pn \in Range(mm.bins[b]) : b = FindBin(mm.head[pn])
  <2>1. mm.bins[b] \in Seq(Pages) /\ Distinct(mm.bins[b])
    BY <1>2 DEF Pools, BinsHold
  <2>2. IsInjective(mm.bins[b])
    BY <2>1 DEF Distinct, IsInjective
  <2> QED
    BY <1>2, <2>2 DEF BinsHold
<1>5. ASSUME NEW c \in F PROVE mm.foot[c[1] + c[2] - 1] = c[2]
  BY <1>2 DEF BinsHold, End
<1>6. ASSUME NEW c \in C, NEW p \in {c[1], c[1] + c[2] - 1}
      PROVE  mm.inuse[p] = (c \in chunks)
  <2>1. CASE c \in chunks
    <3>1. mm.inuse[p] = TRUE
      BY <1>2, <2>1 DEF BitsTell, End
    <3> QED
      BY <2>1, <3>1
  <2>2. CASE c \notin chunks
    <3>1. c \in F
      BY <1>1, <2>2
    <3>2. mm.inuse[p] = FALSE
      BY <1>2, <3>1 DEF BitsTell, End
    <3>3. FALSE = (c \in chunks)
      BY <2>2
    <3> QED
      BY <3>2, <3>3, Zenon
  <2> QED
    BY <2>1, <2>2
<1> QED
  BY <1>1, <1>3, <1>4, <1>5, <1>6 DEF PagesPartition

LEMMA FreeIsFound == PageInv => FailsOnlyWhenFull
<1> SUFFICES ASSUME PageInv, NEW size \in Sizes, UsableBins(mm, size) = {},
                    NEW pn \in 0 .. NumPages - size,
                    \A c \in chunks : ~(pn <= c[1] + c[2] - 1 /\ c[1] <= pn + size - 1)
             PROVE  FALSE
  BY DEF FailsOnlyWhenFull
<1>1. PICK F, C : F = FreeChunks /\ C = chunks \cup FreeChunks
  OBVIOUS
<1>2. /\ mm \in Pools /\ BinsHold(mm, F) /\ Tiled(C) /\ Coalesced(F) /\ C \subseteq Chunk
  BY <1>1 DEF PageInv, PoolInv, Tiled
<1>3. size \in Int /\ 1 <= size /\ pn \in Int /\ 0 <= pn /\ pn + size <= NumPages
      /\ NumPages \in Int
  BY PageNumbers
<1>4. \A d \in C : /\ d = <<d[1], d[2]>> /\ d[1] \in Int /\ d[2] \in Int /\ d[2] >= 1
                   /\ d[1] + d[2] <= NumPages /\ End(d) = d[1] + d[2] - 1
  BY <1>2, ChunkFacts
\* A chunk that touches the run of pages is free, and too small.
<1>5. ASSUME NEW d \in C, pn <= End(d), d[1] <= pn + size - 1
      PROVE  d \in F /\ d[2] < size
  <2>1. d \in F
    BY <1>1, <1>4, <1>5
  <2>2. ASSUME d[2] >= size PROVE FALSE
    <3>1. PICK b \in Bins : b = FindBin(d[2])
      BY <1>4, FindBinLargest
    <3>2. FindBin(size) <= b
      BY <1>3, <1>4, <2>2, <3>1, FindBinGrows
    <3>3. FindBin(size) \in Bins
      BY <1>3, FindBinLargest
    <3>4. b >= FindBin(size)
      BY <3>2, <3>3, PageNumbers
    <3>5. d[1] \in Range(mm.bins[b]) /\ mm.head[d[1]] = d[2]
      BY <1>2, <2>1, <3>1 DEF BinsHold
    <3>6. Fits(mm, b, size) # {}
      BY <2>2, <3>5 DEF Fits, Range
    <3> QED
      BY <3>4, <3>6 DEF UsableBins
  <2> QED
    BY <1>3, <1>4, <2>1, <2>2
<1>6. PICK c \in C : c[1] <= pn /\ pn <= End(c)
  <2>1. pn \in Pages
    BY <1>3, PageNumbers
  <2> QED
    BY <1>2, <2>1 DEF Tiled
<1>7. c \in F /\ c[2] < size
  BY <1>3, <1>4, <1>5, <1>6
<1>8. End(c) + 1 # NumPages
  BY <1>3, <1>4, <1>6, <1>7
<1>9. PICK d \in C : d[1] = End(c) + 1
  BY <1>2, <1>8, Neighbours
<1>10. d \in F
  BY <1>3, <1>4, <1>5, <1>6, <1>7, <1>9
<1> QED
  BY <1>2, <1>7, <1>9, <1>10 DEF Coalesced

\* For any number of pages and of bins, whatever is allocated and freed in which order:
\* no page is lost or given out twice, and a request fails only when no run of that
\* many pages is free.
THEOREM PagesAreCorrect == PageSpec => []PagesCorrect
<1>1. PageInit => PageInv
  BY PageInit_Inv
<1>2. PageInv /\ [PageNext]_pageVars => PageInv'
  BY PageStep
<1>3. PageInv => PagesCorrect
  BY PagesAreParted, FreeIsFound DEF PagesCorrect
<1> QED
  BY <1>1, <1>2, <1>3, PTL DEF PageSpec

-----------------------------------------------------------------------------
(* Shadow page tables. *)

Tables == {"none", "absent", "present"}

ShadowTypes ==
  /\ shadow_pds \in Seq(SHADOWS) /\ active_shadow_pd \in SHADOWS
  /\ shadowRefs \in [SHADOWS -> Int] /\ held \in [SHADOWS -> Int]
  /\ guest_pd \in [SHADOWS -> DIRS \cup {NoPd}]
  /\ table \in [SHADOWS -> Tables] /\ user_table \in [SHADOWS -> Tables]
  /\ free \in Int

Active(s) == IF s = active_shadow_pd THEN 1 ELSE 0

\* A record is listed once, the active one is listed, and a listed one is counted
\* for the guest's references and for being active.
Counted ==
  /\ Distinct(shadow_pds) /\ active_shadow_pd \in Range(shadow_pds)
  /\ \A s \in Range(shadow_pds) :
       held[s] >= 0 /\ shadowRefs[s] = held[s] + Active(s) /\ shadowRefs[s] > 0

FramesKept == free + SumFrames(Range(shadow_pds)) = ShadowFrames + 2

ShadowInv ==
  /\ loaded = "ok" => ShadowTypes /\ Counted /\ FramesKept
  /\ loaded = "dead" => free = ShadowFrames + 2

-----------------------------------------------------------------------------
\* Total(F, S): the frames of the records of S, F[s] of them for s.
Units(F, S) == {q \in S \X (1 .. 4) : q[2] <= F[q[1]]}
Total(F, S) == Cardinality(Units(F, S))

LEMMA OneTotal ==
  ASSUME NEW F \in [SHADOWS -> 1 .. 4], NEW x \in SHADOWS
  PROVE  IsFiniteSet(Units(F, {x})) /\ Cardinality(Units(F, {x})) = F[x]
<1> DEFINE n == F[x]
           g == [k \in 1 .. n |-> <<x, k>>]
<1>1. n \in 1 .. 4
  OBVIOUS
<1> HIDE DEF n
<1>2. g \in Bijection(1 .. n, Units(F, {x}))
  <2>1. \A k \in 1 .. n : g[k] \in Units(F, {x})
    BY <1>1 DEF Units, n
  <2>2. g \in Injection(1 .. n, Units(F, {x}))
    BY <2>1 DEF Injection, IsInjective
  <2>3. ASSUME NEW q \in Units(F, {x}) PROVE \E k \in 1 .. n : g[k] = q
    BY <1>1, <2>3 DEF Units, n
  <2>4. g \in Surjection(1 .. n, Units(F, {x}))
    BY <2>1, <2>3 DEF Surjection
  <2> QED
    BY <2>2, <2>4 DEF Bijection
<1>3. IsFiniteSet(1 .. n) /\ Cardinality(1 .. n) = n
  <2>1. PICK one \in Int, m \in Int : one = 1 /\ m = n /\ m >= 1
    BY <1>1
  <2>2. /\ IsFiniteSet(one .. m)
        /\ Cardinality(one .. m) = IF one > m THEN 0 ELSE m - one + 1
    BY FS_Interval
  <2> QED
    BY <2>1, <2>2
<1>4. ExistsBijection(1 .. n, Units(F, {x}))
  BY <1>2 DEF ExistsBijection
<1> QED
  BY <1>3, <1>4, FS_Bijection DEF n

LEMMA TotalNat ==
  ASSUME NEW F, NEW S \in SUBSET SHADOWS
  PROVE  IsFiniteSet(Units(F, S)) /\ Total(F, S) \in Nat
<1>1. IsFiniteSet(S) /\ IsFiniteSet(1 .. 4)
  <2>1. PICK one \in Int, four \in Int : one = 1 /\ four = 4
    OBVIOUS
  <2>2. IsFiniteSet(one .. four)
    BY FS_Interval
  <2>3. IsFiniteSet(S)
    BY ShadowAssumption, FS_Subset
  <2> QED
    BY <2>1, <2>2, <2>3
<1>2. IsFiniteSet(S \X (1 .. 4))
  BY <1>1, FS_Product
<1>3. Units(F, S) \in SUBSET (S \X (1 .. 4))
  BY DEF Units
<1> QED
  BY <1>2, <1>3, FS_Subset, FS_CardinalityType DEF Total

LEMMA TotalAdd ==
  ASSUME NEW F \in [SHADOWS -> 1 .. 4], NEW S \in SUBSET SHADOWS, NEW x \in SHADOWS \ S
  PROVE  Total(F, S) \in Nat /\ Total(F, S \cup {x}) = Total(F, S) + F[x]
<1>3. IsFiniteSet(Units(F, S)) /\ Total(F, S) \in Nat
  BY TotalNat
<1>4. Units(F, S \cup {x}) = Units(F, S) \cup Units(F, {x})
  BY DEF Units
<1>5. Units(F, S) \cap Units(F, {x}) = {}
  BY DEF Units
<1>6. IsFiniteSet(Units(F, {x})) /\ Cardinality(Units(F, {x})) = F[x]
  BY OneTotal
<1>7. Cardinality(Units(F, S \cup {x})) = Cardinality(Units(F, S)) + F[x] - Cardinality({})
  <2>1. PICK A, B : A = Units(F, S) /\ B = Units(F, {x})
    OBVIOUS
  <2>2. Cardinality(A \cup B) = Cardinality(A) + Cardinality(B) - Cardinality(A \cap B)
    BY <1>3, <1>6, <2>1, FS_Union
  <2> QED
    BY <1>4, <1>5, <1>6, <2>1, <2>2
<1>8. Cardinality({}) = 0
  BY FS_EmptySet
<1> QED
  BY <1>3, <1>7, <1>8 DEF Total

\* Only the records of S count.
LEMMA TotalSame ==
  ASSUME NEW F, NEW G, NEW S, \A s \in S : F[s] = G[s]
  PROVE  Total(F, S) = Total(G, S)
<1>1. Units(F, S) = Units(G, S)
  BY DEF Units
<1> QED
  BY <1>1 DEF Total

\* The frames of another record of the list, when that of x changes.
LEMMA TotalChange ==
  ASSUME NEW F \in [SHADOWS -> 1 .. 4], NEW G \in [SHADOWS -> 1 .. 4],
         NEW S \in SUBSET SHADOWS, NEW x \in S, \A s \in S \ {x} : F[s] = G[s]
  PROVE  Total(F, S) \in Nat /\ Total(G, S) = Total(F, S) - F[x] + G[x]
<1> DEFINE R == S \ {x}
<1>1. R \in SUBSET SHADOWS /\ x \in SHADOWS \ R /\ R \cup {x} = S
  OBVIOUS
<1>2. Total(F, R) = Total(G, R)
  BY TotalSame
<1> HIDE DEF R
<1>3. Total(F, R) \in Nat /\ Total(F, S) = Total(F, R) + F[x]
  BY <1>1, TotalAdd
<1>4. Total(G, S) = Total(G, R) + G[x]
  BY <1>1, TotalAdd
<1>5. F[x] \in 1 .. 4 /\ G[x] \in 1 .. 4
  OBVIOUS
<1> QED
  BY <1>2, <1>3, <1>4, <1>5

FrameOf == [s \in SHADOWS |-> Frames(s)]

LEMMA FrameOfTypes ==
  ASSUME table \in [SHADOWS -> Tables], user_table \in [SHADOWS -> Tables]
  PROVE  /\ FrameOf \in [SHADOWS -> 1 .. 4]
         /\ \A S \in SUBSET SHADOWS : SumFrames(S) = Total(FrameOf, S)
<1>1. \A s \in SHADOWS : Frames(s) \in 1 .. 4
  BY DEF Tables, Frames, Count
<1>2. FrameOf \in [SHADOWS -> 1 .. 4]
  BY <1>1 DEF FrameOf
<1>3. ASSUME NEW S \in SUBSET SHADOWS PROVE SumFrames(S) = Total(FrameOf, S)
  BY DEF SumFrames, Total, Units, FrameOf
<1> QED
  BY <1>2, <1>3

\* pv_select_pd keeps the counts, h for the guest's, and gives up the record that was
\* active when nobody refers to it.
LEMMA SelectCounts ==
  ASSUME ShadowTypes, NEW list \in Seq(SHADOWS), Distinct(list),
         NEW base \in [SHADOWS -> Int], held' \in [SHADOWS -> Int],
         NEW s \in SHADOWS, s \in Range(list), active_shadow_pd \in Range(list),
         \A r \in Range(list) : held'[r] >= 0 /\ base[r] = held'[r] + Active(r),
         \A r \in Range(list) : r # s => base[r] > 0,
         PvSelectPd(s, list, base)
  PROVE  /\ shadow_pds' \in Seq(SHADOWS) /\ active_shadow_pd' \in SHADOWS
         /\ shadowRefs' \in [SHADOWS -> Int] /\ Counted'
         /\ \E gone \in {{}, {active_shadow_pd}} :
              /\ s \notin gone /\ Range(shadow_pds') = Range(list) \ gone
              /\ free' = (free - (IF s \in Range(shadow_pds) THEN 0 ELSE Frames(s)'))
                         + (IF gone = {} THEN 0 ELSE Frames(active_shadow_pd))
<1> DEFINE old == active_shadow_pd
           up == [base EXCEPT ![s] = @ + 1]
           n == up[old] - 1
           i == CHOOSE i \in DOMAIN list : list[i] = old
<1>1. /\ active_shadow_pd' = s /\ shadowRefs' = [up EXCEPT ![old] = n]
      /\ shadow_pds' = IF n = 0 THEN RemoveAt(list, i) ELSE list
      /\ free' = (free - (IF s \in Range(shadow_pds) THEN 0 ELSE Frames(s)'))
                 + (IF n = 0 THEN Frames(old) ELSE 0)
  BY DEF PvSelectPd
<1>2. old \in SHADOWS
  BY DEF ShadowTypes
<1>3. /\ up \in [SHADOWS -> Int] /\ up[s] = base[s] + 1
      /\ \A r \in SHADOWS : r # s => up[r] = base[r]
  OBVIOUS
<1> HIDE DEF up
<1>4. n \in Int /\ n = up[old] - 1
  BY <1>2, <1>3
<1> HIDE DEF n
<1>5. /\ shadowRefs' \in [SHADOWS -> Int] /\ shadowRefs'[old] = n
      /\ \A r \in SHADOWS : r # old => shadowRefs'[r] = up[r]
  BY <1>1, <1>2, <1>3, <1>4
<1>6. \A r \in Range(list) : r \in SHADOWS
  BY DEF Range
<1>7. i \in 1 .. Len(list) /\ list[i] = old
  <2>1. \E j \in DOMAIN list : list[j] = old
    BY DEF Range
  <2>2. i \in DOMAIN list /\ list[i] = old
    BY <2>1, Zenon
  <2> QED
    BY <2>2
<1> HIDE DEF i
<1>8. /\ RemoveAt(list, i) \in Seq(SHADOWS) /\ Distinct(RemoveAt(list, i))
      /\ Range(RemoveAt(list, i)) = Range(list) \ {old}
  BY <1>7, RemoveDistinct
<1>9. n = 0 => old # s
  <2>1. SUFFICES ASSUME old = s PROVE n # 0
    OBVIOUS
  <2>2. base[s] = held'[s] + 1 /\ held'[s] >= 0 /\ held'[s] \in Int
    BY <2>1 DEF Active
  <2>3. n = base[s]
    BY <1>3, <1>4, <2>1
  <2> QED
    BY <2>2, <2>3
<1>10. /\ shadow_pds' \in Seq(SHADOWS) /\ Distinct(shadow_pds')
       /\ Range(shadow_pds') = Range(list) \ (IF n = 0 THEN {old} ELSE {})
  BY <1>1, <1>8
<1>11. s \in Range(shadow_pds')
  BY <1>9, <1>10
<1>12. ASSUME NEW r \in Range(shadow_pds')
       PROVE  /\ held'[r] >= 0 /\ shadowRefs'[r] = held'[r] + Active(r)'
              /\ shadowRefs'[r] > 0
  <2>1. r \in Range(list) /\ r \in SHADOWS /\ (n = 0 => r # old)
    BY <1>6, <1>10
  <2>2. /\ held'[r] \in Int /\ held'[r] >= 0 /\ base[r] \in Int
        /\ base[r] = held'[r] + (IF r = old THEN 1 ELSE 0) /\ (r # s => base[r] > 0)
    BY <2>1 DEF Active
  <2>3. Active(r)' = IF r = s THEN 1 ELSE 0
    BY <1>1 DEF Active
  <2>4. up[r] = IF r = s THEN base[r] + 1 ELSE base[r]
    BY <1>3, <2>1
  <2>5. shadowRefs'[r] = IF r = old THEN n ELSE up[r]
    BY <1>5, <2>1
  <2>6. CASE r = old
    BY <1>4, <2>1, <2>2, <2>3, <2>4, <2>5, <2>6
  <2>7. CASE r # old
    BY <2>1, <2>2, <2>3, <2>4, <2>5, <2>7
  <2> QED
    BY <2>6, <2>7
<1>13. Counted'
  BY <1>1, <1>10, <1>11, <1>12 DEF Counted
<1>14. \E gone \in {{}, {old}} :
         /\ s \notin gone /\ Range(shadow_pds') = Range(list) \ gone
         /\ free' = (free - (IF s \in Range(shadow_pds) THEN 0 ELSE Frames(s)'))
                    + (IF gone = {} THEN 0 ELSE Frames(old))
  <2>1. CASE n = 0
    <3> WITNESS {old} \in {{}, {old}}
    <3> QED
      BY <1>1, <1>9, <1>10, <2>1
  <2>2. CASE n # 0
    <3> WITNESS {} \in {{}, {old}}
    <3> QED
      BY <1>1, <1>10, <2>2
  <2> QED
    BY <2>1, <2>2
<1> QED
  BY <1>1, <1>5, <1>10, <1>13, <1>14

\* No frame is lost when s, perhaps a new record with tables of its own, is selected.
LEMMA SelectFrames ==
  ASSUME ShadowTypes, FramesKept, active_shadow_pd \in Range(shadow_pds),
         table' \in [SHADOWS -> Tables], user_table' \in [SHADOWS -> Tables],
         \A r \in Range(shadow_pds) : Frames(r)' = Frames(r),
         NEW s \in SHADOWS, NEW gone \in {{}, {active_shadow_pd}}, s \notin gone,
         Range(shadow_pds') = (Range(shadow_pds) \cup {s}) \ gone,
         free' = (free - (IF s \in Range(shadow_pds) THEN 0 ELSE Frames(s)'))
                 + (IF gone = {} THEN 0 ELSE Frames(active_shadow_pd))
  PROVE  FramesKept' /\ free' \in Int
<1> DEFINE L == Range(shadow_pds)
           M == Range(shadow_pds) \cup {s}
           old == active_shadow_pd
<1>1. PICK F, G : F = FrameOf /\ G = FrameOf'
  OBVIOUS
<1>2. /\ F \in [SHADOWS -> 1 .. 4] /\ G \in [SHADOWS -> 1 .. 4]
      /\ \A S \in SUBSET SHADOWS : SumFrames(S) = Total(F, S)
      /\ \A S \in SUBSET SHADOWS : SumFrames(S)' = Total(G, S)
  <2>1. /\ FrameOf \in [SHADOWS -> 1 .. 4]
        /\ \A S \in SUBSET SHADOWS : SumFrames(S) = Total(FrameOf, S)
    BY FrameOfTypes DEF ShadowTypes
  <2>2. /\ FrameOf' \in [SHADOWS -> 1 .. 4]
        /\ \A S \in SUBSET SHADOWS : SumFrames(S)' = Total(FrameOf', S)
    <3>1. \A r \in SHADOWS : Frames(r)' \in 1 .. 4
      BY DEF Tables, Frames, Count
    <3>2. ASSUME NEW S \in SUBSET SHADOWS PROVE SumFrames(S)' = Total(FrameOf', S)
      BY DEF SumFrames, Total, Units, FrameOf
    <3> QED
      BY <3>1, <3>2 DEF FrameOf
  <2> QED
    BY <1>1, <2>1, <2>2
<1>3. /\ L \in SUBSET SHADOWS /\ M \in SUBSET SHADOWS /\ old \in L /\ M = L \cup {s}
      /\ Range(shadow_pds') \in SUBSET SHADOWS
  <2>1. L \in SUBSET SHADOWS
    BY DEF ShadowTypes, Range
  <2> QED
    BY <2>1
<1>4. /\ \A r \in L : F[r] = G[r]
      /\ F[old] = Frames(old) /\ G[s] = Frames(s)'
  BY <1>1, <1>3 DEF FrameOf
<1>5. Total(F, L) = Total(G, L)
  BY <1>4, TotalSame
<1>6. free \in Int /\ ShadowFrames \in Nat /\ free + Total(G, L) = ShadowFrames + 2
  <2>1. SumFrames(L) = Total(F, L)
    BY <1>2, <1>3
  <2> QED
    BY <1>5, <2>1, ShadowAssumption DEF ShadowTypes, FramesKept
<1>7. SumFrames(Range(shadow_pds))' = Total(G, Range(shadow_pds'))
  <2>1. PICK R \in SUBSET SHADOWS : R = Range(shadow_pds')
    BY <1>3
  <2>2. SumFrames(R)' = Total(G, R)
    BY <1>2
  <2> QED
    BY <2>1, <2>2 DEF SumFrames
<1> DEFINE new == IF s \in L THEN 0 ELSE Frames(s)'
<1> HIDE DEF L, M, new
<1>8. Total(G, M) \in Nat /\ new \in Int /\ Total(G, M) = Total(G, L) + new
  <2>1. CASE s \in L
    <3>1. M = L /\ new = 0
      BY <1>3, <2>1 DEF new
    <3>2. Total(G, M) \in Nat
      BY <1>3, TotalNat
    <3> QED
      BY <3>1, <3>2
  <2>2. CASE s \notin L
    <3>1. Total(G, L) \in Nat /\ Total(G, L \cup {s}) = Total(G, L) + G[s]
      BY <1>2, <1>3, <2>2, TotalAdd
    <3>2. new = G[s] /\ G[s] \in 1 .. 4
      BY <1>2, <1>4, <2>2 DEF new
    <3> QED
      BY <1>3, <3>1, <3>2
  <2> QED
    BY <2>1, <2>2
<1>9. free' = (free - new) + (IF gone = {} THEN 0 ELSE Frames(old))
  BY DEF new, L
<1>10. CASE gone = {}
  <2>1. Range(shadow_pds') = M
    BY <1>10 DEF M
  <2>2. free' + Total(G, M) = ShadowFrames + 2 /\ free' \in Int
    <3>1. Total(G, L) \in Nat
      BY <1>3, TotalNat
    <3> QED
      BY <1>6, <1>8, <1>9, <1>10, <3>1
  <2> QED
    BY <1>7, <2>1, <2>2 DEF FramesKept
<1>11. CASE gone = {old}
  <2>1. Range(shadow_pds') = M \ {old} /\ old # s /\ old \in M
    BY <1>3, <1>11 DEF M, L
  <2>2. PICK K \in SUBSET SHADOWS : K = M \ {old} /\ old \in SHADOWS \ K /\ M = K \cup {old}
    BY <1>3, <2>1
  <2>3. Total(G, K) \in Nat /\ Total(G, M) = Total(G, K) + G[old]
    <3>1. G \in [SHADOWS -> 1 .. 4] /\ old \in SHADOWS \ K
      BY <1>2, <2>2
    <3>2. Total(G, K) \in Nat /\ Total(G, K \cup {old}) = Total(G, K) + G[old]
      BY <3>1, TotalAdd
    <3> QED
      BY <2>2, <3>2
  <2>4. G[old] = Frames(old) /\ G[old] \in 1 .. 4
    BY <1>2, <1>3, <1>4
  <2>5. free' = (free - new) + G[old]
    BY <1>9, <1>11, <2>4
  <2>6. Total(G, L) \in Nat
    BY <1>3, TotalNat
  <2>7. free' + Total(G, K) = ShadowFrames + 2 /\ free' \in Int
    BY <1>6, <1>8, <2>3, <2>4, <2>5, <2>6
  <2> QED
    BY <1>7, <2>1, <2>2, <2>7 DEF FramesKept
<1> QED
  BY <1>10, <1>11

-----------------------------------------------------------------------------
LEMMA ShadowInit_Inv == ShadowInit => ShadowInv
<1> SUFFICES ASSUME ShadowInit PROVE ShadowInv
  OBVIOUS
<1>1. boot \in SHADOWS /\ ShadowFrames \in Nat
  BY ShadowAssumption
<1>2. /\ shadow_pds = <<boot>> /\ active_shadow_pd = boot /\ loaded = "ok" /\ free = ShadowFrames
      /\ shadowRefs = [s \in SHADOWS |-> IF s = boot THEN 1 ELSE 0]
      /\ held = [s \in SHADOWS |-> 0] /\ guest_pd = [s \in SHADOWS |-> NoPd]
      /\ table = [s \in SHADOWS |-> IF s = boot THEN "present" ELSE "none"]
      /\ user_table = [s \in SHADOWS |-> "none"]
  BY DEF ShadowInit
<1>3. shadow_pds \in Seq(SHADOWS) /\ Distinct(shadow_pds) /\ Range(shadow_pds) = {boot}
  BY <1>1, <1>2 DEF Distinct, Range
<1>4. table \in [SHADOWS -> Tables] /\ user_table \in [SHADOWS -> Tables]
  BY <1>2 DEF Tables
<1>5. ShadowTypes
  BY <1>1, <1>2, <1>3, <1>4 DEF ShadowTypes
<1>6. Counted
  BY <1>1, <1>2, <1>3 DEF Counted, Active
<1>7. FramesKept
  <2>1. Frames(boot) = 2
    BY <1>1, <1>2 DEF Frames, Count
  <2>2. PICK F \in [SHADOWS -> 1 .. 4] : F = FrameOf
    BY <1>4, FrameOfTypes
  <2>3. SumFrames({boot}) = Total(F, {boot})
    BY <1>1, <1>4, <2>2, FrameOfTypes
  <2>4. Cardinality(Units(F, {boot})) = F[boot]
    BY <1>1, OneTotal
  <2>5. F[boot] = 2
    BY <1>1, <2>1, <2>2 DEF FrameOf
  <2> QED
    BY <1>1, <1>2, <1>3, <2>3, <2>4, <2>5 DEF FramesKept, Total
<1> QED
  BY <1>2, <1>5, <1>6, <1>7 DEF ShadowInv

LEMMA ShadowDie_Inv == ASSUME ShadowInv, loaded = "ok", ShadowDie PROVE ShadowInv'
  BY DEF ShadowInv, FramesKept, ShadowDie

LEMMA LoadPd_Inv ==
  ASSUME ShadowInv, loaded = "ok", NEW d \in DIRS, LoadPd(d) PROVE ShadowInv'
<1>1. CASE loaded' = "strays"
  BY <1>1 DEF ShadowInv
<1>2. CASE loaded' # "strays"
  <2>1. ShadowTypes /\ Counted /\ FramesKept
    BY DEF ShadowInv
  <2>2. PICK i \in DOMAIN shadow_pds :
          /\ PvSelectPd(shadow_pds[i], shadow_pds, shadowRefs)
          /\ loaded' = (IF i = 1 THEN loaded ELSE "strays")
          /\ UNCHANGED <<guest_pd, table, user_table, held>>
    BY <1>2, Zenon DEF LoadPd
  <2>3. PICK s \in SHADOWS : s = shadow_pds[i] /\ s \in Range(shadow_pds)
    BY <2>1 DEF ShadowTypes, Range
  <2>4. loaded' = "ok" /\ PvSelectPd(s, shadow_pds, shadowRefs)
    BY <1>2, <2>2, <2>3
  <2>5. /\ shadow_pds \in Seq(SHADOWS) /\ Distinct(shadow_pds)
        /\ shadowRefs \in [SHADOWS -> Int] /\ held' \in [SHADOWS -> Int]
        /\ active_shadow_pd \in Range(shadow_pds)
        /\ \A r \in Range(shadow_pds) : held'[r] >= 0 /\ shadowRefs[r] = held'[r] + Active(r)
        /\ \A r \in Range(shadow_pds) : r # s => shadowRefs[r] > 0
    BY <2>1, <2>2 DEF ShadowTypes, Counted
  <2>6. /\ shadow_pds' \in Seq(SHADOWS) /\ active_shadow_pd' \in SHADOWS
        /\ shadowRefs' \in [SHADOWS -> Int] /\ Counted'
        /\ \E gone \in {{}, {active_shadow_pd}} :
             /\ s \notin gone /\ Range(shadow_pds') = Range(shadow_pds) \ gone
             /\ free' = (free - (IF s \in Range(shadow_pds) THEN 0 ELSE Frames(s)'))
                        + (IF gone = {} THEN 0 ELSE Frames(active_shadow_pd))
    BY <2>1, <2>3, <2>4, <2>5, SelectCounts
  <2>7. PICK gone \in {{}, {active_shadow_pd}} :
          /\ s \notin gone /\ Range(shadow_pds') = Range(shadow_pds) \ gone
          /\ free' = (free - (IF s \in Range(shadow_pds) THEN 0 ELSE Frames(s)'))
                     + (IF gone = {} THEN 0 ELSE Frames(active_shadow_pd))
    BY <2>6
  <2>8. /\ table' \in [SHADOWS -> Tables] /\ user_table' \in [SHADOWS -> Tables]
        /\ \A r \in Range(shadow_pds) : Frames(r)' = Frames(r)
    BY <2>1, <2>2 DEF ShadowTypes, Frames, Count
  <2>9. Range(shadow_pds') = (Range(shadow_pds) \cup {s}) \ gone
    BY <2>3, <2>7
  <2>10. FramesKept' /\ free' \in Int
    BY <2>1, <2>5, <2>7, <2>8, <2>9, SelectFrames
  <2>11. ShadowTypes'
    BY <2>1, <2>2, <2>5, <2>6, <2>8, <2>10 DEF ShadowTypes
  <2> QED
    BY <2>4, <2>6, <2>10, <2>11 DEF ShadowInv
<1> QED
  BY <1>1, <1>2

LEMMA SetPd_Inv ==
  ASSUME ShadowInv, loaded = "ok", NEW d \in DIRS, NEW e, NEW f, SetPd(d, e, f)
  PROVE  ShadowInv'
<1>1. CASE ShadowDie
  BY <1>1, ShadowDie_Inv
<1>2. CASE ~ShadowDie
  <2>1. ShadowTypes /\ Counted /\ FramesKept
    BY DEF ShadowInv
  <2>2. PICK s \in SHADOWS \ (Range(shadow_pds) \cup {boot}) :
          /\ Translate(s, d, e, f)
          /\ PvSelectPd(s, <<s>> \o shadow_pds, [shadowRefs EXCEPT ![s] = 0])
          /\ held' = [held EXCEPT ![s] = 0] /\ loaded' = loaded
    BY <1>2 DEF SetPd
  <2>3. PICK list, base : list = <<s>> \o shadow_pds /\ base = [shadowRefs EXCEPT ![s] = 0]
    OBVIOUS
  <2>4. /\ list \in Seq(SHADOWS) /\ Distinct(list)
        /\ Range(list) = Range(shadow_pds) \cup {s}
    BY <2>1, <2>2, <2>3, ConsDistinct DEF ShadowTypes, Counted
  <2>5. /\ base \in [SHADOWS -> Int] /\ held' \in [SHADOWS -> Int]
        /\ base[s] = 0 /\ held'[s] = 0
        /\ \A r \in SHADOWS : r # s => base[r] = shadowRefs[r] /\ held'[r] = held[r]
    BY <2>1, <2>2, <2>3 DEF ShadowTypes
  <2>6. Range(shadow_pds) \subseteq SHADOWS /\ active_shadow_pd \in Range(shadow_pds)
    BY <2>1 DEF ShadowTypes, Counted, Range
  <2>7. /\ \A r \in Range(list) : held'[r] >= 0 /\ base[r] = held'[r] + Active(r)
        /\ \A r \in Range(list) : r # s => base[r] > 0
    <3>1. \A r \in Range(shadow_pds) : r # s /\ r \in SHADOWS
      BY <2>2, <2>6
    <3>2. Active(s) = 0
      BY <2>6, <3>1 DEF Active
    <3>3. ASSUME NEW r \in Range(list)
          PROVE  /\ held'[r] >= 0 /\ base[r] = held'[r] + Active(r)
                 /\ r # s => base[r] > 0
      <4>1. CASE r = s
        BY <2>5, <3>2, <4>1
      <4>2. CASE r # s
        <5>1. r \in Range(shadow_pds)
          BY <2>4, <4>2
        <5> QED
          BY <2>1, <2>5, <3>1, <5>1 DEF Counted
      <4> QED
        BY <4>1, <4>2
    <3> QED
      BY <3>3
  <2>8. PvSelectPd(s, list, base)
    BY <2>2, <2>3
  <2>9. /\ shadow_pds' \in Seq(SHADOWS) /\ active_shadow_pd' \in SHADOWS
        /\ shadowRefs' \in [SHADOWS -> Int] /\ Counted'
        /\ \E gone \in {{}, {active_shadow_pd}} :
             /\ s \notin gone /\ Range(shadow_pds') = Range(list) \ gone
             /\ free' = (free - (IF s \in Range(shadow_pds) THEN 0 ELSE Frames(s)'))
                        + (IF gone = {} THEN 0 ELSE Frames(active_shadow_pd))
    <3>1. s \in SHADOWS /\ s \in Range(list) /\ active_shadow_pd \in Range(list)
      BY <2>2, <2>4, <2>6
    <3> QED
      BY <2>1, <2>4, <2>5, <2>7, <2>8, <3>1, SelectCounts
  <2>10. PICK gone \in {{}, {active_shadow_pd}} :
           /\ s \notin gone /\ Range(shadow_pds') = Range(list) \ gone
           /\ free' = (free - (IF s \in Range(shadow_pds) THEN 0 ELSE Frames(s)'))
                      + (IF gone = {} THEN 0 ELSE Frames(active_shadow_pd))
    BY <2>9
  <2>11. /\ guest_pd' = [guest_pd EXCEPT ![s] = d]
         /\ \E t \in Tables : table' = [table EXCEPT ![s] = t]
         /\ \E t \in Tables : user_table' = [user_table EXCEPT ![s] = t]
    BY <2>2 DEF Translate, Mapped, Tables
  <2>12. /\ table' \in [SHADOWS -> Tables] /\ user_table' \in [SHADOWS -> Tables]
         /\ guest_pd' \in [SHADOWS -> DIRS \cup {NoPd}]
         /\ \A r \in Range(shadow_pds) : table'[r] = table[r] /\ user_table'[r] = user_table[r]
    BY <2>1, <2>2, <2>6, <2>11 DEF ShadowTypes
  <2>13. \A r \in Range(shadow_pds) : Frames(r)' = Frames(r)
    BY <2>12 DEF Frames, Count
  <2>14. Range(shadow_pds') = (Range(shadow_pds) \cup {s}) \ gone /\ s \in SHADOWS
    BY <2>2, <2>4, <2>10
  <2>15. FramesKept' /\ free' \in Int
    BY <2>1, <2>6, <2>10, <2>12, <2>13, <2>14, SelectFrames
  <2>16. ShadowTypes'
    BY <2>5, <2>9, <2>12, <2>15 DEF ShadowTypes
  <2> QED
    BY <2>2, <2>9, <2>15, <2>16 DEF ShadowInv
<1> QED
  BY <1>1, <1>2

\* The tables of the active record change: its frames are taken from, or given back to,
\* the free ones.
LEMMA AdjustFrames ==
  ASSUME ShadowTypes, Counted, FramesKept,
         UNCHANGED <<shadow_pds, active_shadow_pd, shadowRefs, guest_pd, held>>,
         NEW t \in Tables, table' = [table EXCEPT ![active_shadow_pd] = t],
         NEW u \in Tables, user_table' = [user_table EXCEPT ![active_shadow_pd] = u],
         free' = free + Count(table[active_shadow_pd]) + Count(user_table[active_shadow_pd])
                 - (Count(t) + Count(u))
  PROVE  ShadowTypes' /\ Counted' /\ FramesKept'
<1> DEFINE old == active_shadow_pd
<1>1. PICK F, G, L : F = FrameOf /\ G = FrameOf' /\ L = Range(shadow_pds)
  OBVIOUS
<1>2. /\ table' \in [SHADOWS -> Tables] /\ user_table' \in [SHADOWS -> Tables]
      /\ L \in SUBSET SHADOWS /\ old \in L /\ old \in SHADOWS
  BY <1>1 DEF ShadowTypes, Counted, Range
<1>3. /\ F \in [SHADOWS -> 1 .. 4] /\ G \in [SHADOWS -> 1 .. 4]
      /\ SumFrames(L) = Total(F, L) /\ SumFrames(L)' = Total(G, L)
  <2>1. \A r \in SHADOWS : Frames(r) \in 1 .. 4 /\ Frames(r)' \in 1 .. 4
    BY <1>2 DEF ShadowTypes, Tables, Frames, Count
  <2>2. SumFrames(L) = Total(F, L) /\ SumFrames(L)' = Total(G, L)
    BY <1>1, <1>2 DEF SumFrames, Total, Units, FrameOf
  <2> QED
    BY <1>1, <2>1, <2>2 DEF FrameOf
<1>4. /\ \A r \in L \ {old} : F[r] = G[r]
      /\ F[old] = Frames(old) /\ G[old] = Frames(old)'
  <2>1. ASSUME NEW r \in L \ {old} PROVE F[r] = G[r]
    <3>1. table'[r] = table[r] /\ user_table'[r] = user_table[r] /\ r \in SHADOWS
      BY <1>2 DEF ShadowTypes
    <3> QED
      BY <1>1, <3>1 DEF FrameOf, Frames, Count
  <2> QED
    BY <1>1, <1>2, <2>1 DEF FrameOf
<1>5. Total(F, L) \in Nat /\ Total(G, L) = Total(F, L) - F[old] + G[old]
  BY <1>2, <1>3, <1>4, TotalChange
<1>6. /\ free \in Int /\ F[old] \in Int /\ G[old] \in Int
      /\ free' = free + F[old] - G[old]
  <2>1. PICK b \in Int : b = IF old = boot THEN 1 ELSE 2
    OBVIOUS
  <2>2. /\ F[old] = b + Count(table[old]) + Count(user_table[old])
        /\ G[old] = b + Count(t) + Count(u)
    <3>1. table'[old] = t /\ user_table'[old] = u
      BY <1>2 DEF ShadowTypes
    <3> QED
      BY <1>4, <2>1, <3>1 DEF Frames, Count
  <2>3. /\ Count(table[old]) \in Int /\ Count(user_table[old]) \in Int
        /\ Count(t) \in Int /\ Count(u) \in Int
    BY DEF Count
  <2>4. free \in Int
    BY DEF ShadowTypes
  <2>5. PICK k, l, m, n \in Int :
          /\ k = Count(table[old]) /\ l = Count(user_table[old])
          /\ m = Count(t) /\ n = Count(u)
    BY <2>3
  <2>6. free' = free + k + l - (m + n) /\ F[old] = b + k + l /\ G[old] = b + m + n
    BY <2>2, <2>5
  <2> QED
    BY <2>1, <2>4, <2>5, <2>6
<1>7. FramesKept'
  <2>1. free + Total(F, L) = ShadowFrames + 2 /\ ShadowFrames \in Nat
    BY <1>1, <1>3, ShadowAssumption DEF FramesKept
  <2>2. free' + Total(G, L) = ShadowFrames + 2
    BY <1>3, <1>5, <1>6, <2>1
  <2>3. SumFrames(Range(shadow_pds))' = SumFrames(L)'
    BY <1>1 DEF SumFrames, Range
  <2> QED
    BY <1>3, <2>2, <2>3 DEF FramesKept
<1> QED
  BY <1>2, <1>6, <1>7 DEF ShadowTypes, Counted, Active

LEMMA AdjustPg_Inv ==
  ASSUME ShadowInv, loaded = "ok", NEW e, NEW f, AdjustPg(e, f) PROVE ShadowInv'
<1> DEFINE s == active_shadow_pd
<1>1. CASE ShadowDie
  BY <1>1, ShadowDie_Inv
<1>2. CASE ~ShadowDie
  <2>1. ShadowTypes /\ Counted /\ FramesKept
    BY DEF ShadowInv
  <2>2. /\ UNCHANGED <<shadow_pds, active_shadow_pd, shadowRefs, guest_pd, held, loaded>>
        /\ \/ AdjustGone(s)
           \/ /\ free' = free - (2 - (Count(table[s]) + Count(user_table[s])))
              /\ table' = [table EXCEPT ![s] = Mapped(f # NoPd)]
              /\ user_table' = [user_table EXCEPT ![s] = Mapped(f = "user")]
    BY <1>2 DEF AdjustPg
  <2>3. Count(table[s]) \in Int /\ Count(user_table[s]) \in Int /\ free \in Int
    BY <2>1 DEF Count, ShadowTypes
  <2>4. PICK t \in Tables, u \in Tables :
          /\ table' = [table EXCEPT ![s] = t] /\ user_table' = [user_table EXCEPT ![s] = u]
          /\ free' = free + Count(table[s]) + Count(user_table[s]) - (Count(t) + Count(u))
    <3>1. CASE AdjustGone(s)
      <4>1. /\ table' = [table EXCEPT ![s] = "none"]
            /\ user_table' = [user_table EXCEPT ![s] = "none"]
            /\ free' = free + Count(table[s]) + Count(user_table[s])
        BY <3>1 DEF AdjustGone
      <4>2. PICK t \in Tables : t = "none" /\ Count(t) = 0
        BY DEF Tables, Count
      <4>3. free' = free + Count(table[s]) + Count(user_table[s]) - (Count(t) + Count(t))
        BY <2>3, <4>1, <4>2
      <4> QED
        BY <4>1, <4>2, <4>3
    <3>2. CASE ~AdjustGone(s)
      <4>1. PICK t \in Tables, u \in Tables :
              t = Mapped(f # NoPd) /\ u = Mapped(f = "user") /\ Count(t) = 1 /\ Count(u) = 1
        BY DEF Mapped, Tables, Count
      <4>2. free' = free + Count(table[s]) + Count(user_table[s]) - (Count(t) + Count(u))
        BY <2>2, <2>3, <3>2, <4>1
      <4> QED
        BY <2>2, <3>2, <4>1, <4>2
    <3> QED
      BY <3>1, <3>2
  <2>5. ShadowTypes' /\ Counted' /\ FramesKept'
    BY <2>1, <2>2, <2>4, AdjustFrames
  <2> QED
    BY <2>2, <2>5 DEF ShadowInv
<1> QED
  BY <1>1, <1>2

\* The guest takes a reference to the active record, or gives one up.
LEMMA RefStep_Inv ==
  ASSUME ShadowInv, loaded = "ok", NEW k \in {1, -1},
         shadowRefs[active_shadow_pd] + k > 0,
         shadowRefs' = [shadowRefs EXCEPT ![active_shadow_pd] = @ + k],
         held' = [held EXCEPT ![active_shadow_pd] = @ + k],
         UNCHANGED <<shadow_pds, active_shadow_pd, guest_pd, table, user_table, free, loaded>>
  PROVE  ShadowInv'
<1>1. ShadowTypes /\ Counted /\ FramesKept
  BY DEF ShadowInv
<1>2. /\ shadowRefs' \in [SHADOWS -> Int] /\ held' \in [SHADOWS -> Int]
      /\ \A s \in SHADOWS :
           /\ shadowRefs'[s] = IF s = active_shadow_pd THEN shadowRefs[s] + k ELSE shadowRefs[s]
           /\ held'[s] = IF s = active_shadow_pd THEN held[s] + k ELSE held[s]
  BY <1>1 DEF ShadowTypes
<1>3. ASSUME NEW s \in Range(shadow_pds)
      PROVE  held'[s] >= 0 /\ shadowRefs'[s] = held'[s] + Active(s) /\ shadowRefs'[s] > 0
  <2>1. s \in SHADOWS /\ held[s] \in Int /\ shadowRefs[s] \in Int
    BY <1>1 DEF ShadowTypes, Range
  <2>2. held[s] >= 0 /\ shadowRefs[s] = held[s] + Active(s) /\ shadowRefs[s] > 0
    BY <1>1 DEF Counted
  <2> QED
    BY <1>2, <2>1, <2>2 DEF Active
<1>4. Counted'
  BY <1>1, <1>3 DEF Counted, Active
<1>5. FramesKept'
  BY <1>1 DEF FramesKept, SumFrames, Frames, Count
<1>6. ShadowTypes'
  BY <1>1, <1>2 DEF ShadowTypes
<1> QED
  BY <1>4, <1>5, <1>6 DEF ShadowInv

LEMMA RefPd_Inv == ASSUME ShadowInv, loaded = "ok", RefPd PROVE ShadowInv'
<1>1. shadowRefs[active_shadow_pd] \in Int /\ shadowRefs[active_shadow_pd] > 0
  BY DEF ShadowInv, ShadowTypes, Counted
<1>2. PICK k \in {1, -1} : k = 1
  OBVIOUS
<1>3. shadowRefs[active_shadow_pd] + k > 0
  BY <1>1, <1>2
<1> QED
  BY <1>2, <1>3, RefStep_Inv DEF RefPd

LEMMA UnrefPd_Inv == ASSUME ShadowInv, loaded = "ok", UnrefPd PROVE ShadowInv'
<1>1. CASE ShadowDie
  BY <1>1, ShadowDie_Inv
<1>2. CASE ~ShadowDie
  <2>1. /\ shadowRefs[active_shadow_pd] > 1
        /\ shadowRefs' = [shadowRefs EXCEPT ![active_shadow_pd] = @ - 1]
        /\ held' = [held EXCEPT ![active_shadow_pd] = @ - 1]
        /\ UNCHANGED <<shadow_pds, active_shadow_pd, guest_pd, table, user_table, free, loaded>>
    BY <1>2 DEF UnrefPd
  <2>2. PICK a \in SHADOWS : a = active_shadow_pd
    BY DEF ShadowInv, ShadowTypes
  <2>3. shadowRefs[a] \in Int /\ held[a] \in Int
    BY <2>2 DEF ShadowInv, ShadowTypes
  <2>4. PICK k \in {1, -1} :
          k = -1 /\ shadowRefs[a] - 1 = shadowRefs[a] + k /\ held[a] - 1 = held[a] + k
    BY <2>3
  <2>5. shadowRefs[a] + k > 0
    BY <2>1, <2>2, <2>3, <2>4
  <2>6. /\ shadowRefs' = [shadowRefs EXCEPT ![a] = @ + k]
        /\ held' = [held EXCEPT ![a] = @ + k]
    BY <2>1, <2>2, <2>4
  <2> QED
    BY <2>1, <2>2, <2>5, <2>6, RefStep_Inv
<1> QED
  BY <1>1, <1>2

LEMMA ShadowStep == ShadowInv /\ [ShadowNext]_shadowVars => ShadowInv'
<1> SUFFICES ASSUME ShadowInv, [ShadowNext]_shadowVars PROVE ShadowInv'
  OBVIOUS
<1>1. CASE UNCHANGED shadowVars
  BY <1>1 DEF shadowVars, ShadowInv, ShadowTypes, Counted, Active, FramesKept, SumFrames, Frames,
              Count
<1>2. CASE ShadowNext
  <2>1. loaded = "ok"
    BY <1>2 DEF ShadowNext
  <2>2. ASSUME NEW d \in DIRS, LoadPd(d) PROVE ShadowInv'
    BY <2>1, <2>2, LoadPd_Inv
  <2>3. ASSUME NEW e, NEW f, AdjustPg(e, f) PROVE ShadowInv'
    BY <2>1, <2>3, AdjustPg_Inv
  <2>4. ASSUME NEW e, NEW f, NEW d \in DIRS, SetPd(d, e, f) PROVE ShadowInv'
    BY <2>1, <2>4, SetPd_Inv
  <2>5. CASE RefPd
    BY <2>1, <2>5, RefPd_Inv
  <2>6. CASE UnrefPd
    BY <2>1, <2>6, UnrefPd_Inv
  <2>7. CASE ShadowExit
    BY <2>1, <2>7, ShadowDie_Inv DEF ShadowExit
  <2> QED
    BY <1>2, <2>2, <2>3, <2>4, <2>5, <2>6, <2>7 DEF ShadowNext
<1> QED
  BY <1>1, <1>2

\* Whatever the guest does with its page directories, a listed shadow record is counted,
\* the active one is listed, and no frame is lost, until loadpd frees listed records.
THEOREM ShadowsCounted == ShadowSpec => []ShadowsKept
<1>1. ShadowInit => ShadowInv
  BY ShadowInit_Inv
<1>2. ShadowInv /\ [ShadowNext]_shadowVars => ShadowInv'
  BY ShadowStep
<1>3. ShadowInv => ShadowsKept
  BY DEF ShadowInv, Counted, FramesKept, Active, ShadowsKept
<1> QED
  BY <1>1, <1>2, <1>3, PTL DEF ShadowSpec
=============================================================================
