---------------------------- MODULE DeviceProofs ----------------------------
(***************************************************************************)
(* Proofs about the consoles (KConsole) and the keyboard of one of them    *)
(* (KKeyboard), for any number of threads, consoles and keys and any size  *)
(* of ring: no console is freed while a thread is settled in it, and no    *)
(* key is lost, doubled or reordered.                                      *)
(***************************************************************************)
EXTENDS KConsole, KKeyboard, FiniteSetTheorems, SequenceTheorems,
        WellFoundedInduction, TLAPS

-----------------------------------------------------------------------------
(* Sequences *)

\* No element occurs twice.
Distinct(s) == \A i, j \in 1 .. Len(s) : s[i] = s[j] => i = j

LEMMA RemoveAtElements ==
  ASSUME NEW S, NEW s \in Seq(S), NEW i \in 1 .. Len(s)
  PROVE  /\ RemoveAt(s, i) \in Seq(S)
         /\ Len(RemoveAt(s, i)) = Len(s) - 1
         /\ \A j \in 1 .. Len(s) - 1 :
              RemoveAt(s, i)[j] = IF j < i THEN s[j] ELSE s[j + 1]
<1> DEFINE a == SubSeq(s, 1, i - 1)
           b == SubSeq(s, i + 1, Len(s))
<1>1. a \in Seq(S) /\ Len(a) = i - 1 /\ \A j \in 1 .. i - 1 : a[j] = s[j]
  OBVIOUS
<1>2. /\ b \in Seq(S) /\ Len(b) = Len(s) - i
      /\ \A j \in 1 .. Len(s) - i : b[j] = s[i + j]
  OBVIOUS
<1>3. RemoveAt(s, i) = a \o b
  BY DEF RemoveAt
<1> HIDE DEF a, b
<1>4. /\ a \o b \in Seq(S) /\ Len(a \o b) = Len(a) + Len(b)
      /\ \A j \in 1 .. Len(a) + Len(b) :
           (a \o b)[j] = IF j <= Len(a) THEN a[j] ELSE b[j - Len(a)]
  BY <1>1, <1>2, ConcatProperties
<1>5. Len(s) \in Nat /\ Len(a) + Len(b) = Len(s) - 1
  BY <1>1, <1>2
<1>6. ASSUME NEW j \in 1 .. Len(s) - 1
      PROVE  (a \o b)[j] = IF j < i THEN s[j] ELSE s[j + 1]
  <2>1. CASE j < i
    BY <1>1, <1>4, <1>5, <2>1
  <2>2. CASE ~(j < i)
    <3>1. (a \o b)[j] = b[j - (i - 1)]
      BY <1>1, <1>4, <1>5, <2>2
    <3>2. j - (i - 1) \in 1 .. Len(s) - i /\ i + (j - (i - 1)) = j + 1
      BY <1>5, <2>2
    <3>3. b[j - (i - 1)] = s[j + 1]
      BY <1>2, <3>2
    <3> QED
      BY <2>2, <3>1, <3>3
  <2> QED
    BY <2>1, <2>2
<1> QED
  BY <1>3, <1>4, <1>5, <1>6

-----------------------------------------------------------------------------
(* Consoles *)

Pointers == CONSOLES \cup {NoPts}

ConsoleTypes ==
  /\ live \subseteq CONSOLES /\ kernel_pts \in live
  /\ ptsNext \in [CONSOLES -> CONSOLES] /\ ptsPrev \in [CONSOLES -> CONSOLES]
  /\ active_pts \in CONSOLES
  /\ refcount \in [CONSOLES -> Int]
  /\ pts \in [USERS -> Pointers] /\ arg \in [USERS -> Pointers]
  /\ ptsStep \in [USERS -> {"idle", "link", "close", "count", "drop", "unlock",
                            "switch", "switching", "dead"}]
  /\ sw \in [step : {"none", "check", "next", "prev", "free", "unlock"},
             by : USERS \cup {Handler, NoPts}, old : Pointers]
  /\ handler \in [pts : Pointers, new : Pointers]

\* What t points at, by where it is.
PointersInv ==
  \A t \in USERS :
    /\ pts[t] = NoPts => ptsStep[t] \in {"unlock", "dead"}
    /\ ptsStep[t] = "dead" => pts[t] = NoPts
    /\ arg[t] # NoPts <=> ptsStep[t] \in {"link", "close", "count", "drop", "unlock"}
    /\ ptsStep[t] \in {"link", "close", "count"} => arg[t] # pts[t]

\* A console counts its threads, and those that have left it and not said so.
Inside(c)  == {t \in USERS : pts[t] = c}
Leaving(c) == {t \in USERS : ptsStep[t] = "drop" /\ arg[t] = c}

Counted(c) ==
  refcount[c] = (IF c = kernel_pts THEN 1 ELSE 0) + Cardinality(Inside(c)) + Cardinality(Leaving(c))

CountsInv == \A c \in live : Counted(c)

\* The thread for which pts_lock is held is there; the console switch_pts is about
\* to free had no user when it looked, and those that point at it since then are
\* threads that have just moved in.
SwitchInv ==
  /\ sw.step \in {"check", "next", "prev", "free"} => sw.old \in live
  /\ sw.step # "none" /\ sw.by # Handler => sw.by \in USERS /\ ptsStep[sw.by] = "switching"
  /\ sw.step \in {"next", "prev", "free"} =>
       /\ sw.old # kernel_pts
       /\ \A t \in USERS : pts[t] = sw.old => ptsStep[t] \in {"drop", "unlock", "switch"}
       /\ \A t \in USERS : ptsStep[t] = "drop" => arg[t] # sw.old

ConsoleInv == ConsoleTypes /\ PointersInv /\ CountsInv /\ SwitchInv /\ ConsoleKept

LEMMA UserSets ==
  ASSUME NEW T \in SUBSET USERS
  PROVE  /\ IsFiniteSet(T) /\ Cardinality(T) \in Nat
         /\ Cardinality(T) = 0 => T = {}
         /\ \A t \in T : Cardinality(T \ {t}) = Cardinality(T) - 1
         /\ \A t \in USERS \ T : Cardinality(T \cup {t}) = Cardinality(T) + 1
<1>1. IsFiniteSet(T)
  BY ConsoleAssumption, FS_Subset
<1> QED
  BY <1>1, FS_CardinalityType, FS_EmptySet, FS_AddElement, FS_RemoveElement

LEMMA ConsoleInitInv == ConsoleInit => ConsoleInv
<1> SUFFICES ASSUME ConsoleInit PROVE ConsoleInv
  OBVIOUS
<1> USE ConsoleAssumption
<1>1. ConsoleTypes
  BY DEF ConsoleInit, ConsoleTypes, Pointers, Unlocked, AtRest
<1>2. PointersInv /\ SwitchInv /\ ConsoleKept
  BY DEF ConsoleInit, PointersInv, SwitchInv, ConsoleKept, Unlocked
<1>3. Inside(kernel_pts) = {init} /\ Leaving(kernel_pts) = {}
  BY DEF ConsoleInit, Inside, Leaving
<1>4. CountsInv
  BY <1>3, FS_EmptySet, FS_Singleton DEF ConsoleInit, CountsInv, Counted
<1> QED
  BY <1>1, <1>2, <1>4 DEF ConsoleInv

\* A console whose count is zero has no user.
LEMMA UncountedUnused ==
  ASSUME ConsoleInv, NEW c \in live, refcount[c] = 0
  PROVE  c # kernel_pts /\ \A t \in USERS : pts[t] # c /\ (ptsStep[t] = "drop" => arg[t] # c)
<1>1. Inside(c) \in SUBSET USERS /\ Leaving(c) \in SUBSET USERS
  BY DEF Inside, Leaving
<1>2. c # kernel_pts /\ Cardinality(Inside(c)) = 0 /\ Cardinality(Leaving(c)) = 0
  BY <1>1, UserSets DEF ConsoleInv, CountsInv, Counted
<1>3. Inside(c) = {} /\ Leaving(c) = {}
  BY <1>1, <1>2, UserSets
<1> QED
  BY <1>2, <1>3 DEF Inside, Leaving

\* The count equation depends neither on links nor on who is at which other step.
LEMMA CountsStay ==
  ASSUME ConsoleInv, live' \subseteq live, UNCHANGED <<refcount, pts>>,
         \A t \in USERS : ptsStep'[t] = "drop" <=> ptsStep[t] = "drop",
         \A t \in USERS : ptsStep[t] = "drop" => arg'[t] = arg[t]
  PROVE  CountsInv'
<1>1. ASSUME NEW c \in live' PROVE Counted(c)'
  <2>1. Inside(c)' = Inside(c) /\ Leaving(c)' = Leaving(c)
    BY DEF Inside, Leaving
  <2>2. Counted(c) /\ refcount' = refcount
    BY DEF ConsoleInv, CountsInv
  <2> QED
    BY <2>1, <2>2 DEF Counted
<1> QED
  BY <1>1 DEF CountsInv

\* The console of NewConsole, before its maker is counted.
LEMMA NewConsoleInv ==
  ASSUME ConsoleInv, Intact, NEW t \in USERS, NewConsole(t)
  PROVE  ConsoleInv'
<1>1. PICK c \in CONSOLES \ live :
        /\ live' = live \cup {c}
        /\ ptsNext' = [ptsNext EXCEPT ![c] = kernel_pts]
        /\ ptsPrev' = [ptsPrev EXCEPT ![c] = ptsPrev[kernel_pts]]
        /\ refcount' = [refcount EXCEPT ![c] = 0]
        /\ arg' = [arg EXCEPT ![t] = c]
  BY DEF NewConsole
<1>2. /\ ptsStep[t] = "idle" /\ ptsStep' = [ptsStep EXCEPT ![t] = "link"]
      /\ UNCHANGED <<active_pts, pts, sw, handler>>
  BY DEF NewConsole, PtsStep, PtsGoto
<1>3. c # NoPts /\ \A u \in USERS : pts[u] # c /\ arg[u] # c
  BY <1>1, ConsoleAssumption DEF Intact
<1>4. ConsoleTypes'
  BY <1>1, <1>2 DEF ConsoleInv, ConsoleTypes, Pointers
<1>5. PointersInv'
  BY <1>1, <1>2, <1>3 DEF ConsoleInv, ConsoleTypes, PointersInv
<1>6. SwitchInv' /\ ConsoleKept'
  BY <1>1, <1>2 DEF ConsoleInv, ConsoleTypes, SwitchInv, ConsoleKept
<1>7. Counted(c)'
  <2>1. Inside(c)' = {}
    BY <1>2, <1>3 DEF Inside
  <2>2. Leaving(c)' = {}
    BY <1>1, <1>2, <1>3 DEF ConsoleInv, ConsoleTypes, Leaving
  <2>3. c # kernel_pts /\ refcount'[c] = 0
    BY <1>1 DEF ConsoleInv, ConsoleTypes
  <2> QED
    BY <2>1, <2>2, <2>3, FS_EmptySet DEF Counted
<1>8. ASSUME NEW d \in live PROVE Counted(d)'
  <2>1. d # c /\ refcount'[d] = refcount[d]
    BY <1>1 DEF ConsoleInv, ConsoleTypes
  <2>2. Inside(d)' = Inside(d)
    BY <1>2 DEF Inside
  <2>3. Leaving(d)' = Leaving(d)
    BY <1>1, <1>2 DEF ConsoleInv, ConsoleTypes, Leaving
  <2>4. Counted(d)
    BY DEF ConsoleInv, CountsInv
  <2> QED
    BY <2>1, <2>2, <2>3, <2>4 DEF Counted
<1> QED
  BY <1>1, <1>4, <1>5, <1>6, <1>7, <1>8 DEF ConsoleInv, CountsInv

\* Its insertion into the ring.
LEMMA NewConsoleInsertInv ==
  ASSUME ConsoleInv, NEW t \in USERS, NewConsoleLink(t) \/ NewConsoleClose(t)
  PROVE  ConsoleInv'
<1>1. /\ \/ ptsStep[t] = "link" /\ ptsStep' = [ptsStep EXCEPT ![t] = "close"]
         \/ ptsStep[t] = "close" /\ ptsStep' = [ptsStep EXCEPT ![t] = "count"]
      /\ UNCHANGED <<live, active_pts, refcount, pts, arg, sw, handler>>
  BY DEF NewConsoleLink, NewConsoleClose, PtsStep, PtsGoto, userVars
<1>2. arg[t] \in CONSOLES
  BY <1>1 DEF ConsoleInv, ConsoleTypes, PointersInv, Pointers
<1>3. ptsNext' \in [CONSOLES -> CONSOLES] /\ ptsPrev' \in [CONSOLES -> CONSOLES]
  BY <1>2 DEF NewConsoleLink, NewConsoleClose, ConsoleInv, ConsoleTypes
<1>4. ConsoleTypes'
  BY <1>1, <1>3 DEF ConsoleInv, ConsoleTypes
<1>5. PointersInv' /\ SwitchInv' /\ ConsoleKept'
  BY <1>1 DEF ConsoleInv, ConsoleTypes, PointersInv, SwitchInv, ConsoleKept
<1>6. CountsInv'
  BY <1>1, CountsStay DEF ConsoleInv, ConsoleTypes
<1> QED
  BY <1>4, <1>5, <1>6 DEF ConsoleInv

\* The maker moves into its new console, and is still counted in the old one.
LEMMA NewConsoleCountInv ==
  ASSUME ConsoleInv, Intact, NEW t \in USERS, NewConsoleCount(t)
  PROVE  ConsoleInv'
<1> DEFINE o == pts[t]
           n == arg[t]
<1>1. /\ ptsStep[t] = "count" /\ ptsStep' = [ptsStep EXCEPT ![t] = "drop"]
      /\ refcount' = [refcount EXCEPT ![n] = @ + 1]
      /\ pts' = [pts EXCEPT ![t] = n] /\ arg' = [arg EXCEPT ![t] = o]
      /\ UNCHANGED <<live, ptsNext, ptsPrev, active_pts, sw, handler>>
  BY DEF NewConsoleCount, PtsStep, PtsGoto, ringVars
<1>2. /\ n # o /\ o # NoPts /\ n # NoPts /\ o \in live /\ n \in live /\ live \subseteq CONSOLES
  BY <1>1 DEF ConsoleInv, ConsoleTypes, PointersInv, Intact
<1>3. sw.step \in {"next", "prev", "free"} => o # sw.old
  BY <1>1 DEF ConsoleInv, SwitchInv
<1> HIDE DEF o, n
<1>4. ConsoleTypes'
  BY <1>1, <1>2 DEF ConsoleInv, ConsoleTypes, Pointers
<1>5. PointersInv'
  BY <1>1, <1>2 DEF ConsoleInv, ConsoleTypes, PointersInv
<1>6. SwitchInv' /\ ConsoleKept'
  BY <1>1, <1>2, <1>3 DEF ConsoleInv, ConsoleTypes, SwitchInv, ConsoleKept
<1>7. ASSUME NEW d \in live PROVE Counted(d)'
  <2>1. Counted(d) /\ d \in CONSOLES /\ refcount[d] \in Int
    BY <1>2 DEF ConsoleInv, ConsoleTypes, CountsInv
  <2>2. refcount'[d] = IF d = n THEN refcount[d] + 1 ELSE refcount[d]
    BY <1>1, <2>1 DEF ConsoleInv, ConsoleTypes
  <2>3. Inside(d) \in SUBSET USERS /\ Leaving(d) \in SUBSET USERS
    BY DEF Inside, Leaving
  <2>4. CASE d = n
    <3>1. Inside(d)' = Inside(d) \cup {t} /\ t \notin Inside(d)
      BY <1>1, <1>2, <2>4 DEF ConsoleInv, ConsoleTypes, Inside, o
    <3>2. Leaving(d)' = Leaving(d)
      BY <1>1, <1>2, <2>4 DEF ConsoleInv, ConsoleTypes, Leaving
    <3> QED
      BY <2>1, <2>2, <2>3, <2>4, <3>1, <3>2, UserSets DEF Counted
  <2>5. CASE d = o
    <3>1. Inside(d)' = Inside(d) \ {t} /\ t \in Inside(d)
      BY <1>1, <1>2, <2>5 DEF ConsoleInv, ConsoleTypes, Inside, o
    <3>2. Leaving(d)' = Leaving(d) \cup {t} /\ t \notin Leaving(d)
      BY <1>1, <1>2, <2>5 DEF ConsoleInv, ConsoleTypes, Leaving
    <3>3. /\ Cardinality(Inside(d))' = Cardinality(Inside(d)) - 1
          /\ Cardinality(Leaving(d))' = Cardinality(Leaving(d)) + 1
      BY <2>3, <3>1, <3>2, UserSets
    <3> QED
      BY <1>2, <2>1, <2>2, <2>3, <2>5, <3>3, UserSets DEF Counted
  <2>6. CASE d # n /\ d # o
    <3>1. Inside(d)' = Inside(d)
      BY <1>1, <2>6 DEF ConsoleInv, ConsoleTypes, Inside, o
    <3>2. Leaving(d)' = Leaving(d)
      BY <1>1, <2>6 DEF ConsoleInv, ConsoleTypes, Leaving
    <3> QED
      BY <2>1, <2>2, <2>6, <3>1, <3>2 DEF Counted
  <2> QED
    BY <2>4, <2>5, <2>6
<1> QED
  BY <1>1, <1>4, <1>5, <1>6, <1>7 DEF ConsoleInv, CountsInv

LEMMA NewConsoleDropInv ==
  ASSUME ConsoleInv, NEW t \in USERS, NewConsoleDrop(t)
  PROVE  ConsoleInv'
<1> DEFINE o == arg[t]
<1>1. /\ ptsStep[t] = "drop" /\ ptsStep' = [ptsStep EXCEPT ![t] = "unlock"]
      /\ refcount' = [refcount EXCEPT ![o] = @ - 1]
      /\ UNCHANGED <<live, ptsNext, ptsPrev, active_pts, pts, arg, sw, handler>>
  BY DEF NewConsoleDrop, PtsStep, PtsGoto, ringVars
<1>2. o \in CONSOLES /\ live \subseteq CONSOLES
  BY <1>1 DEF ConsoleInv, ConsoleTypes, PointersInv, Pointers
<1>3. ConsoleTypes'
  BY <1>1, <1>2 DEF ConsoleInv, ConsoleTypes
<1>4. PointersInv' /\ SwitchInv' /\ ConsoleKept'
  BY <1>1 DEF ConsoleInv, ConsoleTypes, PointersInv, SwitchInv, ConsoleKept
<1>5. ASSUME NEW d \in live PROVE Counted(d)'
  <2>1. Counted(d) /\ d \in CONSOLES /\ refcount[d] \in Int
    BY <1>2 DEF ConsoleInv, ConsoleTypes, CountsInv
  <2>2. refcount'[d] = IF d = o THEN refcount[d] - 1 ELSE refcount[d]
    BY <1>1, <2>1 DEF ConsoleInv, ConsoleTypes
  <2>3. Leaving(d) \in SUBSET USERS /\ Inside(d)' = Inside(d)
    BY <1>1 DEF Inside, Leaving
  <2>4. Inside(d) \in SUBSET USERS
    BY DEF Inside
  <2>5. CASE d = o
    <3>1. Leaving(d)' = Leaving(d) \ {t} /\ t \in Leaving(d)
      BY <1>1, <2>5 DEF ConsoleInv, ConsoleTypes, Leaving
    <3> QED
      BY <2>1, <2>2, <2>3, <2>4, <2>5, <3>1, UserSets DEF Counted
  <2>6. CASE d # o
    <3>1. Leaving(d)' = Leaving(d)
      BY <1>1, <2>6 DEF ConsoleInv, ConsoleTypes, Leaving
    <3> QED
      BY <2>1, <2>2, <2>3, <2>6, <3>1 DEF Counted
  <2> QED
    BY <2>5, <2>6
<1> QED
  BY <1>1, <1>3, <1>4, <1>5 DEF ConsoleInv, CountsInv

LEMMA ConsoleUnlockInv ==
  ASSUME ConsoleInv, NEW t \in USERS, ConsoleUnlock(t)
  PROVE  ConsoleInv'
<1>1. /\ ptsStep[t] = "unlock"
      /\ ptsStep' = [ptsStep EXCEPT ![t] = IF pts[t] = NoPts THEN "dead" ELSE "switch"]
      /\ arg' = [arg EXCEPT ![t] = NoPts]
      /\ UNCHANGED <<live, ptsNext, ptsPrev, active_pts, refcount, pts, sw, handler>>
  BY DEF ConsoleUnlock, PtsStep, PtsGoto, ringVars
<1>2. sw.step \in {"next", "prev", "free"} => sw.old # NoPts
  BY ConsoleAssumption DEF ConsoleInv, ConsoleTypes, SwitchInv
<1>3. ConsoleTypes'
  BY <1>1 DEF ConsoleInv, ConsoleTypes, Pointers
<1>4. PointersInv'
  BY <1>1 DEF ConsoleInv, ConsoleTypes, PointersInv
<1>5. SwitchInv' /\ ConsoleKept'
  BY <1>1, <1>2 DEF ConsoleInv, ConsoleTypes, SwitchInv, ConsoleKept
<1>6. CountsInv'
  BY <1>1, CountsStay DEF ConsoleInv, ConsoleTypes
<1> QED
  BY <1>3, <1>4, <1>5, <1>6 DEF ConsoleInv

LEMMA ConsoleForkInv ==
  ASSUME ConsoleInv, Intact, NEW t \in USERS, NEW u \in USERS, ConsoleFork(t, u)
  PROVE  ConsoleInv'
<1> DEFINE o == pts[t]
<1>1. /\ ptsStep[t] = "idle" /\ ptsStep[u] = "dead"
      /\ ptsStep' = [ptsStep EXCEPT ![u] = "idle"]
      /\ pts' = [pts EXCEPT ![u] = o]
      /\ refcount' = [refcount EXCEPT ![o] = @ + 1]
      /\ UNCHANGED <<live, ptsNext, ptsPrev, active_pts, arg, sw, handler>>
  BY DEF ConsoleFork, PtsStep, PtsGoto, ringVars
<1>2. /\ o \in live /\ o # NoPts /\ pts[u] = NoPts /\ live \subseteq CONSOLES
      /\ sw.step \in {"next", "prev", "free"} => o # sw.old
  BY <1>1 DEF ConsoleInv, ConsoleTypes, PointersInv, SwitchInv, Intact
<1> HIDE DEF o
<1>3. ConsoleTypes'
  BY <1>1, <1>2 DEF ConsoleInv, ConsoleTypes, Pointers
<1>4. PointersInv' /\ SwitchInv' /\ ConsoleKept'
  BY <1>1, <1>2 DEF ConsoleInv, ConsoleTypes, PointersInv, SwitchInv, ConsoleKept
<1>5. ASSUME NEW d \in live PROVE Counted(d)'
  <2>1. Counted(d) /\ d \in CONSOLES /\ refcount[d] \in Int /\ d # NoPts
    BY <1>2, ConsoleAssumption DEF ConsoleInv, ConsoleTypes, CountsInv
  <2>2. refcount'[d] = IF d = o THEN refcount[d] + 1 ELSE refcount[d]
    BY <1>1, <2>1 DEF ConsoleInv, ConsoleTypes
  <2>3. Inside(d) \in SUBSET USERS /\ Leaving(d) \in SUBSET USERS
    BY DEF Inside, Leaving
  <2>4. Leaving(d)' = Leaving(d)
    BY <1>1 DEF ConsoleInv, ConsoleTypes, Leaving
  <2>5. CASE d = o
    <3>1. Inside(d)' = Inside(d) \cup {u} /\ u \notin Inside(d)
      BY <1>1, <1>2, <2>5 DEF ConsoleInv, ConsoleTypes, Inside
    <3> QED
      BY <2>1, <2>2, <2>3, <2>4, <2>5, <3>1, UserSets DEF Counted
  <2>6. CASE d # o
    <3>1. Inside(d)' = Inside(d)
      BY <1>1, <1>2, <2>1, <2>6 DEF ConsoleInv, ConsoleTypes, Inside
    <3> QED
      BY <2>1, <2>2, <2>4, <2>6, <3>1 DEF Counted
  <2> QED
    BY <2>5, <2>6
<1> QED
  BY <1>1, <1>3, <1>4, <1>5 DEF ConsoleInv, CountsInv

LEMMA ConsoleExitInv ==
  ASSUME ConsoleInv, Intact, NEW t \in USERS, ConsoleExit(t)
  PROVE  ConsoleInv'
<1> DEFINE o == pts[t]
<1>1. /\ ptsStep[t] = "idle" /\ ptsStep' = [ptsStep EXCEPT ![t] = "unlock"]
      /\ refcount' = [refcount EXCEPT ![o] = @ - 1]
      /\ pts' = [pts EXCEPT ![t] = NoPts] /\ arg' = [arg EXCEPT ![t] = o]
      /\ UNCHANGED <<live, ptsNext, ptsPrev, active_pts, sw, handler>>
  BY DEF ConsoleExit, PtsStep, PtsGoto, ringVars
<1>2. /\ o \in live /\ o # NoPts /\ live \subseteq CONSOLES
      /\ sw.step \in {"next", "prev", "free"} => sw.old # NoPts
  BY <1>1, ConsoleAssumption DEF ConsoleInv, ConsoleTypes, PointersInv, SwitchInv, Intact
<1> HIDE DEF o
<1>3. ConsoleTypes'
  BY <1>1, <1>2 DEF ConsoleInv, ConsoleTypes, Pointers
<1>4. PointersInv' /\ SwitchInv' /\ ConsoleKept'
  BY <1>1, <1>2 DEF ConsoleInv, ConsoleTypes, PointersInv, SwitchInv, ConsoleKept
<1>5. ASSUME NEW d \in live PROVE Counted(d)'
  <2>1. Counted(d) /\ d \in CONSOLES /\ refcount[d] \in Int /\ d # NoPts
    BY <1>2, ConsoleAssumption DEF ConsoleInv, ConsoleTypes, CountsInv
  <2>2. refcount'[d] = IF d = o THEN refcount[d] - 1 ELSE refcount[d]
    BY <1>1, <2>1 DEF ConsoleInv, ConsoleTypes
  <2>3. Inside(d) \in SUBSET USERS /\ Leaving(d) \in SUBSET USERS
    BY DEF Inside, Leaving
  <2>4. Leaving(d)' = Leaving(d)
    BY <1>1 DEF ConsoleInv, ConsoleTypes, Leaving
  <2>5. CASE d = o
    <3>1. Inside(d)' = Inside(d) \ {t} /\ t \in Inside(d)
      BY <1>1, <1>2, <2>5 DEF ConsoleInv, ConsoleTypes, Inside, o
    <3> QED
      BY <2>1, <2>2, <2>3, <2>4, <2>5, <3>1, UserSets DEF Counted
  <2>6. CASE d # o
    <3>1. Inside(d)' = Inside(d)
      BY <1>1, <2>1, <2>6 DEF ConsoleInv, ConsoleTypes, Inside, o
    <3> QED
      BY <2>1, <2>2, <2>4, <2>6, <3>1 DEF Counted
  <2> QED
    BY <2>5, <2>6
<1> QED
  BY <1>1, <1>3, <1>4, <1>5 DEF ConsoleInv, CountsInv

\* switch_pts takes the lock, for the maker of a console or for the handler.
LEMMA SwitchToInv ==
  ASSUME ConsoleInv, Intact,
         TabSwitch \/ \E t \in USERS : NewConsoleSwitch(t)
  PROVE  ConsoleInv'
<1> DEFINE Taken(c, who) ==
             /\ sw.step = "none" /\ sw' = [step |-> "check", by |-> who, old |-> active_pts]
             /\ active_pts' = c
             /\ \/ who = Handler /\ ptsStep' = ptsStep
                \/ /\ who # Handler /\ ptsStep[who] = "switch"
                   /\ ptsStep' = [ptsStep EXCEPT ![who] = "switching"]
             /\ UNCHANGED <<live, ptsNext, ptsPrev, refcount, pts, arg, handler>>
<1>1. PICK c \in CONSOLES, who \in USERS \cup {Handler} : Taken(c, who)
  <2>1. CASE TabSwitch
    <3>1. handler.new \in CONSOLES
      BY <2>1 DEF TabSwitch, ConsoleInv, ConsoleTypes, Pointers
    <3> QED
      BY <2>1, <3>1 DEF TabSwitch, SwitchTo, ringVars, userVars
  <2>2. ASSUME NEW t \in USERS, NewConsoleSwitch(t)
        PROVE  \E c \in CONSOLES, who \in USERS \cup {Handler} : Taken(c, who)
    <3>1. ptsStep[t] = "switch" /\ pts[t] \in CONSOLES /\ t # Handler
      BY <2>2, ConsoleAssumption
      DEF NewConsoleSwitch, PtsStep, ConsoleInv, ConsoleTypes, PointersInv, Pointers
    <3> QED
      BY <2>2, <3>1 DEF NewConsoleSwitch, PtsStep, PtsGoto, SwitchTo, ringVars, userVars
  <2> QED
    BY <2>1, <2>2
<1>2. ConsoleTypes'
  BY <1>1 DEF ConsoleInv, ConsoleTypes, Pointers
<1>3. PointersInv' /\ SwitchInv'
  BY <1>1 DEF ConsoleInv, ConsoleTypes, PointersInv, SwitchInv, Intact
<1>4. ConsoleKept'
  <2>1. who # Handler => pts[who] \in live
    BY <1>1 DEF ConsoleInv, PointersInv, Intact
  <2> QED
    BY <1>1, <2>1 DEF ConsoleInv, ConsoleTypes, ConsoleKept
<1>5. CountsInv'
  BY <1>1, CountsStay DEF ConsoleInv, ConsoleTypes
<1> QED
  BY <1>2, <1>3, <1>4, <1>5 DEF ConsoleInv

\* The handler, and switch_pts up to the release of its lock: what they free is
\* nobody's console.
LEMMA SwitchInvStays ==
  ASSUME ConsoleInv,
         \/ HandlerRead \/ Tab \/ HandlerDone
         \/ SwitchCheck \/ SwitchDetachNext \/ SwitchDetachPrev \/ SwitchFree
  PROVE  ConsoleInv'
<1>1. UNCHANGED <<active_pts, refcount, pts, arg, ptsStep>> /\ live' \subseteq live
  BY DEF HandlerRead, Tab, HandlerDone, SwitchCheck, SwitchDetachNext, SwitchDetachPrev,
         SwitchFree, userVars, ringVars
<1>2. ConsoleTypes'
  <2>1. CASE HandlerRead \/ Tab \/ HandlerDone
    BY <2>1 DEF HandlerRead, Tab, HandlerDone, AtRest, userVars, ringVars, ConsoleInv,
                ConsoleTypes, Pointers
  <2>2. CASE SwitchCheck
    BY <2>2 DEF SwitchCheck, userVars, ringVars, ConsoleInv, ConsoleTypes
  <2>3. CASE SwitchDetachNext \/ SwitchDetachPrev \/ SwitchFree
    <3>1. sw.old \in live /\ sw.old \in CONSOLES /\ (SwitchFree => sw.old # kernel_pts)
      BY <2>3 DEF SwitchDetachNext, SwitchDetachPrev, SwitchFree, ConsoleInv, SwitchInv, ConsoleTypes
    <3> QED
      BY <2>3, <3>1 DEF SwitchDetachNext, SwitchDetachPrev, SwitchFree, userVars, ConsoleInv,
                        ConsoleTypes
  <2> QED
    BY <2>1, <2>2, <2>3
<1>3. PointersInv' /\ CountsInv'
  BY <1>1, CountsStay DEF ConsoleInv, PointersInv
<1>4. SwitchInv' /\ ConsoleKept'
  <2>1. CASE HandlerRead \/ Tab \/ HandlerDone
    BY <1>1, <2>1 DEF HandlerRead, Tab, HandlerDone, ringVars, ConsoleInv, SwitchInv, ConsoleKept
  <2>2. CASE SwitchCheck
    <3>1. /\ sw' = [sw EXCEPT !.step = IF refcount[sw.old] = 0 THEN "next" ELSE "unlock"]
          /\ sw.step = "check" /\ live' = live /\ sw.old \in live
      BY <2>2 DEF SwitchCheck, ringVars, ConsoleInv, SwitchInv
    <3>2. sw'.old = sw.old /\ sw'.by = sw.by /\ sw'.step \in {"next", "unlock"}
      BY <3>1 DEF ConsoleInv, ConsoleTypes
    <3>3. sw'.step = "next" =>
            /\ sw.old # kernel_pts
            /\ \A t \in USERS : pts[t] # sw.old /\ (ptsStep[t] = "drop" => arg[t] # sw.old)
      BY <3>1, UncountedUnused DEF ConsoleInv, ConsoleTypes
    <3> QED
      BY <1>1, <3>1, <3>2, <3>3 DEF ConsoleInv, SwitchInv, ConsoleKept
  <2>3. CASE SwitchDetachNext \/ SwitchDetachPrev
    <3>1. /\ sw.step \in {"next", "prev"} /\ live' = live
          /\ sw'.old = sw.old /\ sw'.by = sw.by /\ sw'.step \in {"prev", "free"}
      BY <2>3 DEF SwitchDetachNext, SwitchDetachPrev, ConsoleInv, ConsoleTypes
    <3> QED
      BY <1>1, <3>1 DEF ConsoleInv, SwitchInv, ConsoleKept
  <2>4. CASE SwitchFree
    <3>1. /\ sw.step = "free" /\ live' = live \ {sw.old}
          /\ sw'.old = sw.old /\ sw'.by = sw.by /\ sw'.step = "unlock"
      BY <2>4 DEF SwitchFree, ConsoleInv, ConsoleTypes
    <3> QED
      BY <1>1, <3>1 DEF ConsoleInv, SwitchInv, ConsoleKept
  <2> QED
    BY <2>1, <2>2, <2>3, <2>4
<1> QED
  BY <1>2, <1>3, <1>4 DEF ConsoleInv

LEMMA SwitchUnlockInv ==
  ASSUME ConsoleInv, SwitchUnlock
  PROVE  ConsoleInv'
<1>1. /\ sw.step = "unlock" /\ sw' = Unlocked
      /\ UNCHANGED <<live, ptsNext, ptsPrev, active_pts, refcount, pts, arg>>
      /\ handler' \in {handler, AtRest}
  BY DEF SwitchUnlock, ringVars, userVars
<1>2. \/ ptsStep' = ptsStep
      \/ \E t \in USERS : ptsStep[t] = "switching" /\ ptsStep' = [ptsStep EXCEPT ![t] = "idle"]
  BY DEF SwitchUnlock, PtsGoto, ConsoleInv, SwitchInv
<1>3. ConsoleTypes'
  BY <1>1, <1>2 DEF ConsoleInv, ConsoleTypes, Unlocked, AtRest, Pointers
<1>4. PointersInv' /\ SwitchInv' /\ ConsoleKept'
  BY <1>1, <1>2 DEF ConsoleInv, ConsoleTypes, PointersInv, SwitchInv, ConsoleKept, Unlocked
<1>5. CountsInv'
  BY <1>1, <1>2, CountsStay DEF ConsoleInv, ConsoleTypes
<1> QED
  BY <1>3, <1>4, <1>5 DEF ConsoleInv

LEMMA ConsoleNextInv ==
  ASSUME ConsoleInv, [ConsoleNext]_consoleVars
  PROVE  ConsoleInv'
<1>1. CASE SwitchStep
  BY <1>1, SwitchInvStays, SwitchUnlockInv DEF SwitchStep
<1>2. CASE Intact /\ HandlerStep
  BY <1>2, SwitchInvStays, SwitchToInv DEF HandlerStep
<1>3. ASSUME Intact, NEW t \in USERS, ConsoleStep(t) PROVE ConsoleInv'
  BY <1>3, NewConsoleInv, NewConsoleInsertInv, NewConsoleCountInv, NewConsoleDropInv,
     ConsoleUnlockInv, SwitchToInv, ConsoleForkInv, ConsoleExitInv DEF ConsoleStep
<1>4. CASE UNCHANGED consoleVars
  <2>1. CountsInv'
    BY <1>4, CountsStay DEF consoleVars
  <2> QED
    BY <1>4, <2>1 DEF consoleVars, ConsoleInv, ConsoleTypes, PointersInv, SwitchInv, ConsoleKept
<1> QED
  BY <1>1, <1>2, <1>3, <1>4 DEF ConsoleNext

\* Whoever forks, exits, makes consoles and changes between them, on any number of
\* processors and with every read and write of the ring and of active_pts a step of
\* its own, switch_pts never frees the console of a thread that is settled in it,
\* nor the one a thread leaves before it has given up its count.
THEOREM NoSettledConsoleFreed == ConsoleSpec => []ConsoleKept
<1>1. ConsoleInv /\ [ConsoleNext]_consoleVars => ConsoleInv'
  BY ConsoleNextInv
<1>2. ConsoleInv => ConsoleKept
  BY DEF ConsoleInv
<1> QED
  BY <1>1, <1>2, ConsoleInitInv, PTL DEF ConsoleSpec

-----------------------------------------------------------------------------
(* The keyboard *)

Key == [kind : {"letter", "newline", "erase"}, nr : Nat]

\* Positions that go round a ring.
LEMMA CellMod ==
  ASSUME NEW a \in Int, -RingSize <= a, a < 2 * RingSize
  PROVE  a % RingSize = IF a < 0 THEN a + RingSize ELSE IF a < RingSize THEN a ELSE a - RingSize
<1>1. RingSize \in Nat /\ RingSize > 1
  BY KbdAssumption
<1>2. CASE a < 0
  BY <1>1, <1>2
<1>3. CASE 0 <= a /\ a < RingSize
  BY <1>1, <1>3
<1>4. CASE RingSize <= a
  BY <1>1, <1>4
<1> QED
  BY <1>1, <1>2, <1>3, <1>4

\* How many cells there are from r to w, and which they are.
Held(r, w) == IF r <= w THEN w - r ELSE w - r + RingSize
Cell(r, i) == IF r + i - 1 < RingSize THEN r + i - 1 ELSE r + i - 1 - RingSize

LEMMA CellFacts ==
  ASSUME NEW r \in Cells, NEW w \in Cells
  PROVE  /\ RingSize \in Nat /\ RingSize > 1 /\ r \in 0 .. RingSize - 1 /\ w \in 0 .. RingSize - 1
         /\ (w - r) % RingSize = Held(r, w) /\ Held(r, w) \in 0 .. RingSize - 1
         /\ (Held(r, w) = 0 <=> r = w)
         /\ NextPos(r) = IF r = RingSize - 1 THEN 0 ELSE r + 1
         /\ NextPos(r) \in Cells
         /\ (r + RingSize - 1) % RingSize = IF r = 0 THEN RingSize - 1 ELSE r - 1
         /\ \A i \in 1 .. RingSize :
              (r + i - 1) % RingSize = Cell(r, i) /\ Cell(r, i) \in Cells
<1>1. RingSize \in Nat /\ RingSize > 1 /\ r \in 0 .. RingSize - 1 /\ w \in 0 .. RingSize - 1
  BY KbdAssumption DEF Cells
<1>2. (w - r) % RingSize = Held(r, w)
  BY <1>1, CellMod DEF Held
<1>3. Held(r, w) \in 0 .. RingSize - 1 /\ (Held(r, w) = 0 <=> r = w)
  BY <1>1 DEF Held
<1>4. NextPos(r) = IF r = RingSize - 1 THEN 0 ELSE r + 1
  BY <1>1, CellMod DEF NextPos
<1>5. (r + RingSize - 1) % RingSize = IF r = 0 THEN RingSize - 1 ELSE r - 1
  BY <1>1, CellMod
<1>6. ASSUME NEW i \in 1 .. RingSize
      PROVE  (r + i - 1) % RingSize = Cell(r, i) /\ Cell(r, i) \in Cells
  <2>1. PICK a \in Int : a = r + i - 1 /\ 0 <= a /\ a < 2 * RingSize
    BY <1>1
  <2>2. a % RingSize = IF a < RingSize THEN a ELSE a - RingSize
    BY <1>1, <2>1, CellMod
  <2>3. (r + i - 1) % RingSize = Cell(r, i)
    BY <1>1, <2>1, <2>2 DEF Cell
  <2>4. Cell(r, i) \in Cells
    BY <1>1 DEF Cell, Cells
  <2> QED
    BY <2>3, <2>4
<1> QED
  BY <1>1, <1>2, <1>3, <1>4, <1>5, <1>6 DEF Cells

\* What a ring holds.
LEMMA RingContent ==
  ASSUME NEW ring \in [Cells -> Key], NEW r \in Cells, NEW w \in Cells
  PROVE  /\ Content(ring, r, w) \in Seq(Key) /\ Len(Content(ring, r, w)) = Held(r, w)
         /\ \A i \in 1 .. Held(r, w) : Content(ring, r, w)[i] = ring[Cell(r, i)]
         /\ (Content(ring, r, w) = <<>> <=> r = w)
<1>1. /\ RingSize \in Nat /\ (w - r) % RingSize = Held(r, w) /\ Held(r, w) \in 0 .. RingSize - 1
      /\ (Held(r, w) = 0 <=> r = w)
  BY CellFacts
<1>2. \A i \in 1 .. Held(r, w) :
        (r + i - 1) % RingSize = Cell(r, i) /\ Cell(r, i) \in Cells
  BY <1>1, CellFacts
<1>3. Content(ring, r, w) = [i \in 1 .. Held(r, w) |-> ring[Cell(r, i)]]
  BY <1>1, <1>2 DEF Content
<1>4. \A i \in 1 .. Held(r, w) : ring[Cell(r, i)] \in Key
  BY <1>2
<1> DEFINE s == [i \in 1 .. Held(r, w) |-> ring[Cell(r, i)]]
<1>5. s \in Seq(Key) /\ Len(s) = Held(r, w)
  BY <1>1, <1>4
<1>6. \A i \in 1 .. Held(r, w) : s[i] = ring[Cell(r, i)]
  OBVIOUS
<1>7. s = <<>> <=> Held(r, w) = 0
  <2> HIDE DEF s
  <2> QED
    BY <1>1, <1>5
<1> QED
  BY <1>1, <1>3, <1>5, <1>6, <1>7

LEMMA RingPush ==
  ASSUME NEW ring \in [Cells -> Key], NEW r \in Cells, NEW w \in Cells, NEW k \in Key,
         NextPos(w) # r
  PROVE  Content([ring EXCEPT ![w] = k], r, NextPos(w)) = Append(Content(ring, r, w), k)
<1> DEFINE new == [ring EXCEPT ![w] = k]
           s   == Content(ring, r, w)
           u   == Content(new, r, NextPos(w))
<1>1. /\ RingSize \in Nat /\ RingSize > 1 /\ r \in 0 .. RingSize - 1 /\ w \in 0 .. RingSize - 1
      /\ Held(r, w) \in 0 .. RingSize - 1 /\ NextPos(w) \in Cells
      /\ NextPos(w) = IF w = RingSize - 1 THEN 0 ELSE w + 1
  BY CellFacts
<1>2. Held(r, NextPos(w)) = Held(r, w) + 1
  BY <1>1 DEF Held
<1>3. \A c \in Cells : new[c] = IF c = w THEN k ELSE ring[c]
  OBVIOUS
<1>10. new \in [Cells -> Key]
  OBVIOUS
<1> HIDE DEF new
<1>4. /\ s \in Seq(Key) /\ Len(s) = Held(r, w) /\ \A i \in 1 .. Held(r, w) : s[i] = ring[Cell(r, i)]
  BY RingContent
<1>5. /\ u \in Seq(Key) /\ Len(u) = Held(r, w) + 1
      /\ \A i \in 1 .. Held(r, w) + 1 : u[i] = new[Cell(r, i)]
  <2>1. PICK v \in Cells : v = NextPos(w)
    BY <1>1
  <2>2. /\ Content(new, r, v) \in Seq(Key) /\ Len(Content(new, r, v)) = Held(r, v)
        /\ \A i \in 1 .. Held(r, v) : Content(new, r, v)[i] = new[Cell(r, i)]
        /\ (Content(new, r, v) = <<>> <=> r = v)
    BY <1>10, RingContent, ZenonT(40)
  <2> QED
    BY <1>2, <2>1, <2>2
<1>6. \A i \in 1 .. Held(r, w) + 1 : Cell(r, i) \in Cells
  BY <1>1, CellFacts
<1>7. \A i \in 1 .. Held(r, w) + 1 : Cell(r, i) = w <=> i = Held(r, w) + 1
  BY <1>1 DEF Cell, Held
<1> HIDE DEF s, u
<1>8. /\ Append(s, k) \in Seq(Key) /\ Len(Append(s, k)) = Held(r, w) + 1
      /\ \A i \in 1 .. Held(r, w) + 1 :
           Append(s, k)[i] = IF i = Held(r, w) + 1 THEN k ELSE s[i]
  BY <1>1, <1>4
<1>9. \A i \in 1 .. Held(r, w) + 1 : u[i] = Append(s, k)[i]
  <2>1. \A i \in 1 .. Held(r, w) + 1 : i # Held(r, w) + 1 => i \in 1 .. Held(r, w)
    BY <1>1
  <2> QED
    BY <1>3, <1>4, <1>5, <1>6, <1>7, <1>8, <2>1
<1> QED
  BY <1>5, <1>8, <1>9, SeqEqual DEF s, u, new

\* The ring without its first m.
LEMMA RingSkip ==
  ASSUME NEW ring \in [Cells -> Key], NEW r \in Cells, NEW w \in Cells, NEW m \in 0 .. Held(r, w)
  PROVE  /\ (r + m) % RingSize \in Cells
         /\ Len(Content(ring, (r + m) % RingSize, w)) = Held(r, w) - m
         /\ \A i \in 1 .. Held(r, w) - m :
              Content(ring, (r + m) % RingSize, w)[i] = Content(ring, r, w)[i + m]
<1> DEFINE e == (r + m) % RingSize
<1>1. /\ RingSize \in Nat /\ RingSize > 1 /\ r \in 0 .. RingSize - 1 /\ w \in 0 .. RingSize - 1
      /\ Held(r, w) \in 0 .. RingSize - 1
  BY CellFacts
<1>2. e = IF r + m < RingSize THEN r + m ELSE r + m - RingSize
  BY <1>1, CellMod
<1>3. e \in 0 .. RingSize - 1
  BY <1>1, <1>2
<1> HIDE DEF e
<1>4. e \in Cells /\ Held(e, w) = Held(r, w) - m
  BY <1>1, <1>2, <1>3 DEF Cells, Held
<1>5. \A i \in 1 .. Held(r, w) - m : Cell(e, i) = Cell(r, i + m) /\ i + m \in 1 .. Held(r, w)
  BY <1>1, <1>2, <1>3 DEF Cell
<1>6. /\ Len(Content(ring, e, w)) = Held(e, w)
      /\ \A i \in 1 .. Held(e, w) : Content(ring, e, w)[i] = ring[Cell(e, i)]
      /\ \A i \in 1 .. Held(r, w) : Content(ring, r, w)[i] = ring[Cell(r, i)]
  BY <1>4, RingContent
<1> QED
  BY <1>4, <1>5, <1>6 DEF e

LEMMA RingPop ==
  ASSUME NEW ring \in [Cells -> Key], NEW r \in Cells, NEW w \in Cells, r # w
  PROVE  /\ Content(ring, r, w) # <<>> /\ Head(Content(ring, r, w)) = ring[r]
         /\ Content(ring, NextPos(r), w) = Tail(Content(ring, r, w))
<1> DEFINE s == Content(ring, r, w)
           u == Content(ring, NextPos(r), w)
<1>1. /\ RingSize \in Nat /\ RingSize > 1 /\ r \in 0 .. RingSize - 1
      /\ Held(r, w) \in 0 .. RingSize - 1 /\ Held(r, w) # 0 /\ NextPos(r) \in Cells
  BY CellFacts
<1>2. /\ s \in Seq(Key) /\ Len(s) = Held(r, w) /\ s # <<>>
      /\ \A i \in 1 .. Held(r, w) : s[i] = ring[Cell(r, i)]
  BY RingContent
<1>3. 1 \in 0 .. Held(r, w) /\ NextPos(r) = (r + 1) % RingSize
  BY <1>1 DEF NextPos
<1>4. Len(u) = Held(r, w) - 1 /\ \A i \in 1 .. Held(r, w) - 1 : u[i] = s[i + 1]
  BY <1>3, RingSkip
<1>5. u \in Seq(Key)
  BY <1>1, RingContent
<1>6. Cell(r, 1) = r /\ 1 \in 1 .. Held(r, w)
  BY <1>1 DEF Cell
<1> HIDE DEF s, u
<1>7. /\ Head(s) = s[1] /\ Tail(s) \in Seq(Key) /\ Len(Tail(s)) = Held(r, w) - 1
      /\ \A i \in 1 .. Held(r, w) - 1 : Tail(s)[i] = s[i + 1]
  BY <1>1, <1>2
<1>8. u = Tail(s)
  BY <1>4, <1>5, <1>7, SeqEqual
<1> QED
  BY <1>2, <1>6, <1>7, <1>8 DEF s, u

LEMMA RingUnpush ==
  ASSUME NEW ring \in [Cells -> Key], NEW r \in Cells, NEW w \in Cells, r # w
  PROVE  /\ (w + RingSize - 1) % RingSize \in Cells
         /\ Content(ring, r, (w + RingSize - 1) % RingSize) = Front(Content(ring, r, w))
<1> DEFINE p == (w + RingSize - 1) % RingSize
           s == Content(ring, r, w)
           u == Content(ring, r, p)
<1>1. /\ RingSize \in Nat /\ RingSize > 1 /\ r \in 0 .. RingSize - 1 /\ w \in 0 .. RingSize - 1
      /\ Held(r, w) \in 0 .. RingSize - 1 /\ Held(r, w) # 0
      /\ p = IF w = 0 THEN RingSize - 1 ELSE w - 1
  BY CellFacts
<1> HIDE DEF p
<1>2. Held(r, p) = Held(r, w) - 1
  BY <1>1 DEF Held
<1>8. p \in Cells
  BY <1>1 DEF Cells
<1>3. /\ s \in Seq(Key) /\ Len(s) = Held(r, w) /\ \A i \in 1 .. Held(r, w) : s[i] = ring[Cell(r, i)]
  BY RingContent
<1>4. /\ u \in Seq(Key) /\ Len(u) = Held(r, w) - 1
      /\ \A i \in 1 .. Held(r, w) - 1 : u[i] = ring[Cell(r, i)]
  <2>1. /\ u \in Seq(Key) /\ Len(u) = Held(r, p)
        /\ \A i \in 1 .. Held(r, p) : u[i] = ring[Cell(r, i)]
        /\ (u = <<>> <=> r = p)
    BY <1>8, RingContent, ZenonT(40)
  <2> QED
    BY <1>2, <2>1
<1> HIDE DEF s, u
<1>5. /\ Front(s) \in Seq(Key) /\ Len(Front(s)) = Held(r, w) - 1
      /\ \A i \in 1 .. Held(r, w) - 1 : Front(s)[i] = s[i]
  <2>1. PICK m \in Int : m = Len(s) - 1
    BY <1>1, <1>3
  <2>2. \A i \in 1 .. m : s[i] \in Key
    BY <1>1, <1>3, <2>1
  <2>3. /\ SubSeq(s, 1, m) \in Seq(Key) /\ Len(SubSeq(s, 1, m)) = IF 1 <= m THEN m - 1 + 1 ELSE 0
        /\ \A i \in 1 .. m - 1 + 1 : SubSeq(s, 1, m)[i] = s[1 + i - 1]
    BY <2>1, <2>2, SubSeqProperties
  <2> QED
    BY <1>1, <1>3, <2>1, <2>3 DEF Front
<1>6. \A i \in 1 .. Held(r, w) - 1 : i \in 1 .. Held(r, w)
  BY <1>1
<1>7. u = Front(s)
  <2>1. Len(u) = Len(Front(s)) /\ \A i \in 1 .. Len(u) : u[i] = Front(s)[i]
    BY <1>3, <1>4, <1>5, <1>6
  <2> QED
    BY <1>4, <1>5, <2>1, SeqEqual
<1> QED
  BY <1>8, <1>7 DEF p, s, u

KbdSteps == {"none", "asleep", "woken", "turn", "scan", "nap", "key", "flush", "done"}

RingTypes ==
  /\ kh_ring \in [Cells -> Key] /\ kh_r_pos \in Cells /\ kh_w_pos \in Cells
  /\ chr_ring \in [Cells -> Key] /\ chr_r_pos \in Cells /\ chr_w_pos \in Cells

KbdTypes ==
  /\ kh \in Seq(Key) /\ chr \in Seq(Key)
  /\ reqs \in Seq(READERS) /\ reqCv \in Seq(READERS)
  /\ kbdStep \in [READERS -> KbdSteps] /\ len \in [READERS -> Nat]
  /\ taken \in Nat /\ erased \in Nat /\ out \in [count : Nat, last : Nat, ordered : BOOLEAN]

\* The queue of requests: its first thread is served or about to be, the others
\* sleep in the order of their requests, and nobody else has a request.
QueueInv ==
  /\ Distinct(reqs)
  /\ \A t \in READERS : kbdStep[t] # "none" => \E i \in 1 .. Len(reqs) : reqs[i] = t
  /\ \A i \in 1 .. Len(reqs) :
       IF i = 1 THEN kbdStep[reqs[i]] \notin {"none", "asleep"} ELSE kbdStep[reqs[i]] = "asleep"
  /\ Len(reqCv) = IF Len(reqs) = 0 THEN 0 ELSE Len(reqs) - 1
  /\ \A i \in 1 .. Len(reqCv) : reqCv[i] = reqs[i + 1]

\* getchar looks at keys only when no character is left.
GetcharInv ==
  \A t \in READERS : kbdStep[t] \in {"scan", "nap", "key"} /\ len[t] = 0 => chr = <<>>

\* readline takes a key only when the ring has room for it, and flushes no empty line.
RoomInv ==
  \A t \in READERS :
    /\ kbdStep[t] \in {"scan", "nap", "key"} /\ len[t] # 0 => ~ChrFull
    /\ kbdStep[t] = "flush" => len[t] # 0 /\ chr # <<>>

\* The numbers of the keys grow along a ring.
Rising(s)   == \A i, j \in 1 .. Len(s) : i < j => s[i].nr < s[j].nr
Above(s, n) == \A i \in 1 .. Len(s) : n < s[i].nr
UpTo(s, n)  == \A i \in 1 .. Len(s) : s[i].nr <= n

OrderInv ==
  /\ Rising(chr) /\ Rising(kh) /\ Above(chr, out.last) /\ Above(kh, out.last)
  /\ UpTo(chr, taken) /\ UpTo(kh, taken) /\ out.last <= taken
  /\ \A i \in 1 .. Len(chr), j \in 1 .. Len(kh) : chr[i].nr < kh[j].nr
  /\ out.ordered = TRUE

KeysInv == out.count + Len(chr) + Len(kh) + erased = taken

KbdInv == KbdTypes /\ QueueInv /\ GetcharInv /\ OrderInv /\ KeysInv
RingInv == RingTypes /\ RoomInv

LEMMA KbdInitInv == KbdInit => KbdInv /\ RingInv
<1> SUFFICES ASSUME KbdInit PROVE KbdInv /\ RingInv
  OBVIOUS
<1>1. RingTypes
  <2>1. RingSize \in Nat /\ RingSize > 1 /\ [kind |-> "letter", nr |-> 0] \in Key
    BY KbdAssumption DEF Key
  <2>2. 0 \in Cells
    BY <2>1 DEF Cells
  <2> QED
    BY <2>1, <2>2 DEF KbdInit, RingTypes
<1>2. kh = <<>> /\ chr = <<>>
  BY <1>1, RingContent DEF KbdInit, RingTypes, kh, chr
<1>3. KbdTypes
  BY <1>2 DEF KbdInit, KbdTypes, KbdSteps
<1>4. QueueInv /\ GetcharInv /\ RoomInv
  BY DEF KbdInit, QueueInv, GetcharInv, RoomInv, Distinct
<1>5. OrderInv /\ KeysInv
  BY <1>2 DEF KbdInit, OrderInv, KeysInv, Rising, Above, UpTo
<1> QED
  BY <1>1, <1>3, <1>4, <1>5 DEF KbdInv, RingInv

\* One thread at a time is served.
LEMMA ServedIsFirst ==
  ASSUME KbdInv, NEW t \in READERS, kbdStep[t] \notin {"none", "asleep"}
  PROVE  reqs # <<>> /\ reqs[1] = t
<1>1. PICK i \in 1 .. Len(reqs) : reqs[i] = t
  BY DEF KbdInv, QueueInv
<1>2. i = 1
  BY <1>1 DEF KbdInv, QueueInv
<1> QED
  BY <1>1, <1>2 DEF KbdInv, KbdTypes

\* The thread that is served goes on, and nobody else does.
LEMMA QueueStays ==
  ASSUME KbdInv, NEW t \in READERS, kbdStep[t] \notin {"none", "asleep"},
         NEW l \in KbdSteps, l \notin {"none", "asleep"},
         kbdStep' = [kbdStep EXCEPT ![t] = l], UNCHANGED <<reqs, reqCv>>
  PROVE  QueueInv'
<1>1. reqs[1] = t /\ \A i \in 1 .. Len(reqs) : reqs[i] \in READERS
  BY ServedIsFirst DEF KbdInv, KbdTypes
<1>2. \A i \in 1 .. Len(reqs) : reqs[i] = t => i = 1
  BY <1>1 DEF KbdInv, QueueInv, Distinct
<1>3. \A u \in READERS : kbdStep'[u] = IF u = t THEN l ELSE kbdStep[u]
  BY DEF KbdInv, KbdTypes
<1> QED
  BY <1>1, <1>2, <1>3 DEF KbdInv, QueueInv

\* Only the thread that is served is past its turn.
LEMMA OneServed ==
  ASSUME KbdInv, NEW t \in READERS, NEW u \in READERS,
         kbdStep[t] \notin {"none", "asleep"}, kbdStep[u] \notin {"none", "asleep"}
  PROVE  t = u
  BY ServedIsFirst

\* The rings after a key is taken out of the first.
LEMMA TailOrder ==
  ASSUME NEW s \in Seq(Key), s # <<>>
  PROVE  /\ Tail(s) \in Seq(Key) /\ Len(Tail(s)) = Len(s) - 1 /\ Head(s) \in Key
         /\ Head(s) = s[1] /\ 1 \in 1 .. Len(s)
         /\ \A i \in 1 .. Len(s) - 1 : Tail(s)[i] = s[i + 1] /\ i + 1 \in 1 .. Len(s)
  OBVIOUS

LEMMA AppendElements ==
  ASSUME NEW S, NEW s \in Seq(S), NEW k \in S
  PROVE  /\ Append(s, k) \in Seq(S) /\ Len(Append(s, k)) = Len(s) + 1
         /\ Append(s, k)[Len(s) + 1] = k /\ Len(s) \in Nat
         /\ \A i \in 1 .. Len(s) : Append(s, k)[i] = s[i]
  OBVIOUS

LEMMA NrTypes ==
  ASSUME KbdTypes
  PROVE  /\ \A i \in 1 .. Len(chr) : chr[i] \in Key /\ chr[i].nr \in Nat
         /\ \A i \in 1 .. Len(kh) : kh[i] \in Key /\ kh[i].nr \in Nat
         /\ Len(chr) \in Nat /\ Len(kh) \in Nat
         /\ out.last \in Nat /\ out.count \in Nat /\ taken \in Nat /\ erased \in Nat
<1>1. /\ \A i \in 1 .. Len(chr) : chr[i] \in Key
      /\ \A i \in 1 .. Len(kh) : kh[i] \in Key
      /\ Len(chr) \in Nat /\ Len(kh) \in Nat /\ taken \in Nat /\ erased \in Nat
  BY DEF KbdTypes
<1>2. out.last \in Nat /\ out.count \in Nat
  BY DEF KbdTypes
<1>3. \A k \in Key : k.nr \in Nat
  BY DEF Key
<1> QED
  BY <1>1, <1>2, <1>3

\* The actions, as what they do to the contents of the rings.
LEMMA ViewsStay ==
  /\ UNCHANGED khVars => kh' = kh
  /\ UNCHANGED chrVars => chr' = chr /\ ChrFull' = ChrFull
BY DEF khVars, chrVars, kh, chr, Content, ChrFull, NextPos

LEMMA RingTypesStay ==
  ASSUME RingTypes, UNCHANGED <<khVars, chrVars>>
  PROVE  RingTypes'
  BY DEF RingTypes, khVars, chrVars

\* The thread that is served goes on, while another has no line to read.
LEMMA RoomStays ==
  ASSUME KbdInv, NEW t \in READERS, kbdStep[t] \notin {"none", "asleep"},
         NEW l \in KbdSteps, kbdStep' = [kbdStep EXCEPT ![t] = l], UNCHANGED len,
         l \in {"scan", "nap", "key"} /\ len[t] # 0 => ~ChrFull',
         l = "flush" => len[t] # 0 /\ chr' # <<>>
  PROVE  RoomInv'
<1>1. ASSUME NEW u \in READERS, kbdStep'[u] \in {"scan", "nap", "key", "flush"} PROVE u = t
  <2>1. u = t \/ kbdStep[u] \in {"scan", "nap", "key", "flush"}
    BY <1>1 DEF KbdInv, KbdTypes
  <2> QED
    BY <2>1, OneServed
<1>2. kbdStep'[t] = l
  BY DEF KbdInv, KbdTypes
<1> QED
  BY <1>1, <1>2 DEF RoomInv

LEMMA RoomSame ==
  ASSUME KbdInv, RoomInv, NEW t \in READERS, NEW l \in KbdSteps,
         kbdStep' = [kbdStep EXCEPT ![t] = l], UNCHANGED <<len, chrVars>>,
         kbdStep[t] \in {"scan", "nap", "key"} \/ l \notin {"scan", "nap", "key", "flush"},
         l # "flush"
  PROVE  RoomInv'
<1>1. chr' = chr /\ ChrFull' = ChrFull
  BY ViewsStay
<1>2. \A u \in READERS : kbdStep'[u] = IF u = t THEN l ELSE kbdStep[u]
  BY DEF KbdInv, KbdTypes
<1> QED
  BY <1>1, <1>2 DEF RoomInv

\* What is returned next is newer than what was returned before.
LEMMA OneReturned ==
  ASSUME KbdInv, NEW k \in Key, out.last < k.nr
  PROVE  Returned(<<k>>) = [count |-> out.count + 1, last |-> k.nr, ordered |-> TRUE]
<1>1. Increasing(<<k>>, out.last)
  <2>1. k.nr \in Nat /\ out.last \in Nat
    BY NrTypes DEF KbdInv, Key
  <2> QED
    BY <2>1 DEF Increasing
<1>2. (out.ordered /\ Increasing(<<k>>, out.last)) = TRUE
  BY <1>1 DEF KbdInv, OrderInv
<1> QED
  BY <1>2 DEF Returned, Last

LEMMA SomeReturned ==
  ASSUME KbdInv, NEW m \in 1 .. Len(chr), NEW s \in Seq(Key), Len(s) = m,
         \A i \in 1 .. m : s[i] = chr[i]
  PROVE  Returned(s) = [count |-> out.count + m, last |-> chr[m].nr, ordered |-> TRUE]
<1>1. m \in Nat /\ m >= 1 /\ DOMAIN s = 1 .. m /\ \A i \in 1 .. m : i \in 1 .. Len(chr)
  BY NrTypes DEF KbdInv
<1>2. ASSUME NEW i \in 1 .. m
      PROVE  s[i].nr > IF i = 1 THEN out.last ELSE s[i - 1].nr
  <2>1. CASE i = 1
    BY <1>1, <2>1, NrTypes DEF KbdInv, OrderInv, Above
  <2>2. CASE i # 1
    <3>1. i - 1 \in 1 .. m /\ i - 1 < i
      BY <1>1, <2>2
    <3>2. chr[i - 1].nr < chr[i].nr /\ chr[i].nr \in Nat /\ chr[i - 1].nr \in Nat
      BY <1>1, <3>1, NrTypes DEF KbdInv, OrderInv, Rising
    <3> QED
      BY <2>2, <3>1, <3>2
  <2> QED
    BY <2>1, <2>2
<1>3. Increasing(s, out.last)
  BY <1>1, <1>2 DEF Increasing
<1>4. (out.ordered /\ Increasing(s, out.last)) = TRUE
  BY <1>3 DEF KbdInv, OrderInv
<1>5. s # <<>> /\ s[Len(s)] = chr[m]
  BY <1>1
<1> QED
  BY <1>4, <1>5 DEF Returned, Last

LEMMA HandlerRings ==
  ASSUME KbdInv, RingInv, NEW kind \in {"letter", "newline", "erase"}, KbdHandler(kind)
  PROVE  /\ RingInv' /\ chr' = chr
         /\ \/ UNCHANGED <<kh, taken>>
            \/ kh' = Append(kh, [kind |-> kind, nr |-> taken + 1]) /\ taken' = taken + 1
<1>1. UNCHANGED <<kh_r_pos, chrVars, len>>
  BY DEF KbdHandler
<1>2. chr' = chr
  BY <1>1, ViewsStay
<1>3. RoomInv'
  <2>1. CASE kbdStep' = kbdStep
    BY <1>1, <2>1, ViewsStay DEF RingInv, RoomInv
  <2>2. ASSUME NEW t \in READERS, kbdStep[t] = "key", kbdStep' = [kbdStep EXCEPT ![t] = "scan"]
        PROVE  RoomInv'
    BY <1>1, <2>2, RoomSame DEF RingInv, KbdSteps
  <2> QED
    BY <2>1, <2>2 DEF KbdHandler, KbdGoto
<1>4. CASE NextPos(kh_w_pos) = kh_r_pos
  <2>1. UNCHANGED <<khVars, taken>>
    BY <1>1, <1>4 DEF KbdHandler, khVars
  <2> QED
    BY <1>1, <1>2, <1>3, <2>1, ViewsStay, RingTypesStay DEF RingInv
<1>5. CASE NextPos(kh_w_pos) # kh_r_pos
  <2> DEFINE k == [kind |-> kind, nr |-> taken + 1]
  <2>1. kh_ring' = [kh_ring EXCEPT ![kh_w_pos] = k] /\ kh_w_pos' = NextPos(kh_w_pos) /\ taken' = taken + 1
    BY <1>5 DEF KbdHandler, KeyStored
  <2>2. k \in Key
    BY NrTypes DEF KbdInv, Key
  <2> HIDE DEF k
  <2>3. kh_ring \in [Cells -> Key] /\ kh_r_pos \in Cells /\ kh_w_pos \in Cells /\ NextPos(kh_w_pos) \in Cells
    BY CellFacts DEF RingInv, RingTypes
  <2>4. kh' = Append(kh, k)
    <3>1. Content([kh_ring EXCEPT ![kh_w_pos] = k], kh_r_pos, NextPos(kh_w_pos))
            = Append(Content(kh_ring, kh_r_pos, kh_w_pos), k)
      BY <1>5, <2>2, <2>3, RingPush
    <3>2. kh' = Content(kh_ring', kh_r_pos', kh_w_pos')
      BY DEF kh, Content
    <3>3. kh' = Content([kh_ring EXCEPT ![kh_w_pos] = k], kh_r_pos, NextPos(kh_w_pos))
      BY <1>1, <2>1, <3>2
    <3> QED
      BY <3>1, <3>3 DEF kh
  <2>5. RingTypes'
    BY <1>1, <2>1, <2>2, <2>3 DEF RingInv, RingTypes, chrVars
  <2> QED
    BY <1>2, <1>3, <2>1, <2>4, <2>5 DEF RingInv, k
<1> QED
  BY <1>4, <1>5

LEMMA TurnRings ==
  ASSUME KbdInv, RingInv, NEW t \in READERS, KbdTurn(t)
  PROVE  /\ RingInv' /\ kh' = kh
         /\ IF len[t] = 0 /\ chr # <<>>
            THEN /\ kbdStep' = [kbdStep EXCEPT ![t] = "done"]
                 /\ out' = Returned(<<Head(chr)>>) /\ chr' = Tail(chr)
            ELSE /\ UNCHANGED <<out, chr>>
                 /\ \E l \in {"flush", "scan"} : kbdStep' = [kbdStep EXCEPT ![t] = l]
<1>1. /\ kbdStep[t] = "turn" /\ UNCHANGED <<khVars, chr_ring, chr_w_pos, len>>
  BY DEF KbdTurn
<1>2. kh' = kh
  BY <1>1, ViewsStay
<1>3. /\ chr_ring \in [Cells -> Key] /\ chr_r_pos \in Cells /\ chr_w_pos \in Cells
      /\ NextPos(chr_r_pos) \in Cells
  BY CellFacts DEF RingInv, RingTypes
<1>4. chr # <<>> <=> chr_r_pos # chr_w_pos
  BY <1>3, RingContent DEF chr
<1>5. CASE len[t] = 0 /\ chr # <<>>
  <2>1. /\ kbdStep' = [kbdStep EXCEPT ![t] = "done"] /\ out' = Returned(<<chr_ring[chr_r_pos]>>)
        /\ chr_r_pos' = NextPos(chr_r_pos)
    BY <1>4, <1>5 DEF KbdTurn, KbdGoto
  <2>2. chr' = Content(chr_ring, NextPos(chr_r_pos), chr_w_pos)
    <3>1. chr' = Content(chr_ring', chr_r_pos', chr_w_pos')
      BY DEF chr, Content
    <3> QED
      BY <1>1, <2>1, <3>1
  <2>3. chr' = Tail(chr) /\ Head(chr) = chr_ring[chr_r_pos]
    BY <1>3, <1>4, <1>5, <2>2, RingPop DEF chr
  <2>4. RingTypes'
    BY <1>1, <1>3, <2>1 DEF RingInv, RingTypes, khVars
  <2>5. RoomInv'
    BY <1>1, <2>1, RoomStays DEF KbdSteps
  <2> QED
    BY <1>2, <1>5, <2>1, <2>3, <2>4, <2>5 DEF RingInv
<1>6. CASE ~(len[t] = 0 /\ chr # <<>>)
  <2>1. /\ UNCHANGED <<out, chrVars>>
        /\ kbdStep' = [kbdStep EXCEPT
                         ![t] = IF len[t] # 0 /\ (Newlines # {} \/ ChrFull) THEN "flush" ELSE "scan"]
    BY <1>1, <1>4, <1>6 DEF KbdTurn, KbdGoto, chrVars
  <2>2. chr' = chr /\ ChrFull' = ChrFull /\ RingTypes'
    BY <1>1, <2>1, ViewsStay, RingTypesStay DEF RingInv
  <2>3. Newlines # {} \/ ChrFull => chr # <<>>
    <3>1. CASE Newlines # {}
      BY <3>1 DEF Newlines, KbdInv, KbdTypes
    <3>2. CASE ChrFull
      BY <1>3, <1>4, <3>2, CellFacts DEF ChrFull
    <3> QED
      BY <3>1, <3>2
  <2>4. CASE len[t] # 0 /\ (Newlines # {} \/ ChrFull)
    <3>1. kbdStep' = [kbdStep EXCEPT ![t] = "flush"]
      BY <2>1, <2>4
    <3>2. RoomInv'
      BY <1>1, <2>2, <2>3, <2>4, <3>1, RoomStays DEF KbdSteps
    <3> QED
      BY <1>2, <1>6, <2>1, <2>2, <3>1, <3>2 DEF RingInv
  <2>5. CASE ~(len[t] # 0 /\ (Newlines # {} \/ ChrFull))
    <3>1. kbdStep' = [kbdStep EXCEPT ![t] = "scan"]
      BY <2>1, <2>5
    <3>2. RoomInv'
      BY <1>1, <2>2, <2>5, <3>1, RoomStays DEF KbdSteps
    <3> QED
      BY <1>2, <1>6, <2>1, <2>2, <3>1, <3>2 DEF RingInv
  <2> QED
    BY <2>4, <2>5
<1> QED
  BY <1>5, <1>6

\* What a key does to the line of readline.
Entered(k) ==
  IF k.kind = "erase"
  THEN /\ out' = out
       /\ IF chr = <<>> THEN erased' = erased + 1 /\ chr' = chr
          ELSE erased' = erased + 2 /\ chr' = Front(chr)
  ELSE chr' = Append(chr, k) /\ erased' = erased /\ out' = out

LEMMA TypedRings ==
  ASSUME KbdInv, RingInv, NEW t \in READERS, NEW k \in Key, kbdStep[t] = "scan", len[t] # 0,
         Typed(t, k), UNCHANGED <<chr_r_pos, len>>
  PROVE  /\ chr_ring' \in [Cells -> Key] /\ chr_w_pos' \in Cells
         /\ Entered(k) /\ RoomInv'
<1>1. /\ chr_ring \in [Cells -> Key] /\ chr_r_pos \in Cells /\ chr_w_pos \in Cells
      /\ NextPos(chr_w_pos) \in Cells
  BY CellFacts DEF RingInv, RingTypes
<1>2. chr # <<>> <=> chr_r_pos # chr_w_pos
  BY <1>1, RingContent DEF chr
<1>3. ~ChrFull
  BY DEF RingInv, RoomInv
<1>4. chr' = Content(chr_ring', chr_r_pos', chr_w_pos') /\ (ChrFull' <=> chr_r_pos' = NextPos(chr_w_pos'))
  BY DEF chr, Content, ChrFull, NextPos
<1>5. CASE k.kind = "erase" /\ chr = <<>>
  <2>1. /\ kbdStep' = [kbdStep EXCEPT ![t] = "scan"] /\ UNCHANGED <<chr_ring, chr_w_pos, out>>
        /\ erased' = erased + 1
    BY <1>2, <1>5 DEF Typed, KbdGoto
  <2>2. chr' = chr /\ ~ChrFull'
    BY <1>3, <2>1, ViewsStay DEF chrVars
  <2>3. RoomInv'
    BY <2>1, <2>2, RoomStays DEF KbdSteps
  <2> QED
    BY <1>1, <1>5, <2>1, <2>2, <2>3 DEF Entered
<1>6. CASE k.kind = "erase" /\ chr # <<>>
  <2> DEFINE p == (chr_w_pos + RingSize - 1) % RingSize
  <2>1. /\ kbdStep' = [kbdStep EXCEPT ![t] = "scan"] /\ UNCHANGED <<chr_ring, out>>
        /\ erased' = erased + 2 /\ chr_w_pos' = p
    BY <1>2, <1>6 DEF Typed, KbdGoto
  <2>2. p \in Cells /\ Content(chr_ring, chr_r_pos, p) = Front(chr)
    BY <1>1, <1>2, <1>6, RingUnpush DEF chr
  <2>3. NextPos(p) = chr_w_pos
    <3>1. /\ RingSize \in Nat /\ RingSize > 1 /\ chr_w_pos \in 0 .. RingSize - 1
          /\ p = IF chr_w_pos = 0 THEN RingSize - 1 ELSE chr_w_pos - 1
      BY <1>1, CellFacts
    <3> HIDE DEF p
    <3>2. NextPos(p) = IF p = RingSize - 1 THEN 0 ELSE p + 1
      BY <2>2, CellFacts
    <3> QED
      BY <3>1, <3>2
  <2> HIDE DEF p
  <2>4. chr' = Front(chr) /\ ~ChrFull'
    BY <1>2, <1>4, <1>6, <2>1, <2>2, <2>3
  <2>5. RoomInv'
    BY <2>1, <2>4, RoomStays DEF KbdSteps
  <2> QED
    BY <1>1, <1>6, <2>1, <2>2, <2>4, <2>5 DEF Entered
<1>7. CASE k.kind # "erase"
  <2> DEFINE w == NextPos(chr_w_pos)
  <2>1. /\ chr_ring' = [chr_ring EXCEPT ![chr_w_pos] = k] /\ chr_w_pos' = w
        /\ UNCHANGED <<erased, out>>
        /\ kbdStep' = [kbdStep EXCEPT
             ![t] = IF k.kind = "newline" \/ chr_r_pos = NextPos(w) THEN "flush" ELSE "scan"]
    BY <1>7 DEF Typed, KbdGoto
  <2>2. Content([chr_ring EXCEPT ![chr_w_pos] = k], chr_r_pos, w) = Append(chr, k)
    BY <1>1, <1>3, RingPush DEF chr, ChrFull
  <2> HIDE DEF w
  <2>3. chr' = Append(chr, k)
    BY <1>4, <2>1, <2>2
  <2>4. chr' # <<>>
    BY <2>3, AppendElements DEF KbdInv, KbdTypes
  <2>5. CASE k.kind = "newline" \/ chr_r_pos = NextPos(w)
    <3>1. kbdStep' = [kbdStep EXCEPT ![t] = "flush"]
      BY <2>1, <2>5
    <3>2. RoomInv'
      BY <2>4, <3>1, RoomStays DEF KbdSteps
    <3> QED
      BY <1>1, <1>7, <2>1, <2>3, <3>2 DEF Entered, w
  <2>6. CASE ~(k.kind = "newline" \/ chr_r_pos = NextPos(w))
    <3>1. kbdStep' = [kbdStep EXCEPT ![t] = "scan"] /\ ~ChrFull'
      BY <1>4, <2>1, <2>6
    <3>2. RoomInv'
      BY <3>1, RoomStays DEF KbdSteps
    <3> QED
      BY <1>1, <1>7, <2>1, <2>3, <3>2 DEF Entered, w
  <2> QED
    BY <2>5, <2>6
<1> QED
  BY <1>5, <1>6, <1>7

LEMMA ScRings ==
  ASSUME KbdInv, RingInv, NEW t \in READERS, ScProcess(t)
  PROVE  /\ RingInv'
         /\ kh = <<>> => UNCHANGED <<kh, chr, erased, out>>
         /\ kh # <<>> => kh' = Tail(kh)
         /\ kh # <<>> /\ len[t] = 0 => out' = Returned(<<Head(kh)>>) /\ UNCHANGED <<chr, erased>>
         /\ kh # <<>> /\ len[t] # 0 => Entered(Head(kh))
<1>1. kbdStep[t] = "scan" /\ UNCHANGED <<kh_ring, kh_w_pos, chr_r_pos, len>>
  BY DEF ScProcess
<1>2. /\ kh_ring \in [Cells -> Key] /\ kh_r_pos \in Cells /\ kh_w_pos \in Cells
      /\ NextPos(kh_r_pos) \in Cells
  BY CellFacts DEF RingInv, RingTypes
<1>3. kh # <<>> <=> kh_r_pos # kh_w_pos
  BY <1>2, RingContent DEF kh
<1>4. CASE kh = <<>>
  <2>1. /\ kbdStep' = [kbdStep EXCEPT ![t] = "nap"] /\ UNCHANGED <<khVars, chrVars, erased, out>>
    BY <1>1, <1>3, <1>4 DEF ScProcess, KbdGoto, khVars, chrVars
  <2>2. RoomInv'
    BY <1>1, <2>1, RoomSame DEF RingInv, KbdSteps
  <2> QED
    BY <1>4, <2>1, <2>2, ViewsStay, RingTypesStay DEF RingInv
<1>5. CASE kh # <<>>
  <2>1. kh_r_pos' = NextPos(kh_r_pos)
    BY <1>3, <1>5 DEF ScProcess
  <2>2. kh' = Content(kh_ring, NextPos(kh_r_pos), kh_w_pos)
    <3>1. kh' = Content(kh_ring', kh_r_pos', kh_w_pos')
      BY DEF kh, Content
    <3> QED
      BY <1>1, <2>1, <3>1
  <2>3. kh' = Tail(kh) /\ Head(kh) = kh_ring[kh_r_pos]
    BY <1>2, <1>3, <1>5, <2>2, RingPop DEF kh
  <2>4. CASE len[t] = 0
    <3>1. /\ kbdStep' = [kbdStep EXCEPT ![t] = "done"] /\ out' = Returned(<<kh_ring[kh_r_pos]>>)
          /\ UNCHANGED <<chr_ring, chr_w_pos, erased>>
      BY <1>3, <1>5, <2>4 DEF ScProcess, KbdGoto
    <3>2. chr' = chr
      BY <1>1, <3>1, ViewsStay DEF chrVars
    <3>3. RingTypes'
      BY <1>1, <1>2, <2>1, <3>1 DEF RingInv, RingTypes
    <3>4. RoomInv'
      BY <1>1, <3>1, RoomStays DEF KbdSteps
    <3> QED
      BY <1>5, <2>3, <2>4, <3>1, <3>2, <3>3, <3>4 DEF RingInv
  <2>5. CASE len[t] # 0
    <3>1. PICK k \in Key : k = kh_ring[kh_r_pos]
      BY <1>2
    <3>2. Typed(t, k)
      BY <1>3, <1>5, <2>5, <3>1 DEF ScProcess
    <3>3. chr_ring' \in [Cells -> Key] /\ chr_w_pos' \in Cells /\ Entered(k) /\ RoomInv'
      BY <1>1, <2>5, <3>2, TypedRings
    <3>4. RingTypes'
      BY <1>1, <1>2, <2>1, <3>3 DEF RingInv, RingTypes
    <3> QED
      BY <1>5, <2>3, <2>5, <3>1, <3>3, <3>4 DEF RingInv
  <2> QED
    BY <2>4, <2>5
<1> QED
  BY <1>4, <1>5

\* A set of naturals has a least element.
LEMMA LeastNat ==
  ASSUME NEW S, S \subseteq Nat, S # {}
  PROVE  Min(S) \in S /\ \A y \in S : Min(S) <= y
<1> DEFINE R == {ss \in Nat \X Nat : ss[1] < ss[2]}
<1>1. IsWellFoundedOn(R, Nat)
  BY NatLessThanWellFounded, Zenon DEF OpToRel
<1>2. \E x \in S : \A y \in S : ~(<<y, x>> \in R)
  <2> HIDE DEF R
  <2> QED BY <1>1, WFMin
<1>3. \E x \in S : \A y \in S : x <= y
  <2>1. PICK x \in S : \A y \in S : ~(<<y, x>> \in R)
    BY <1>2
  <2>2. ASSUME NEW y \in S PROVE x <= y
    <3>1. x \in Nat /\ y \in Nat /\ ~(y < x)
      BY <2>1
    <3> QED
      BY <3>1
  <2> QED
    BY <2>2
<1> QED
  BY <1>3, Zenon DEF Min

LEMMA LineBounds ==
  ASSUME KbdTypes, NEW n \in Nat, n # 0, chr # <<>>
  PROVE  Line(n) \in 1 .. Len(chr)
<1> DEFINE S == Newlines \cup {Len(chr), n}
<1>1. S \subseteq Nat \ {0} /\ Len(chr) \in S
  BY DEF Newlines, KbdTypes
<1>2. Min(S) \in S /\ \A y \in S : Min(S) <= y
  <2>1. S \subseteq Nat /\ S # {}
    BY <1>1
  <2> HIDE DEF S
  <2> QED
    BY <2>1, LeastNat
<1>3. Min(S) \in Nat \ {0} /\ Min(S) <= Len(chr) /\ Len(chr) \in Nat
  <2> HIDE DEF S
  <2> QED
    BY <1>1, <1>2
<1>4. PICK m : m = Min(S)
  OBVIOUS
<1>5. m \in 1 .. Len(chr)
  BY <1>3, <1>4
<1> QED
  BY <1>4, <1>5 DEF Line

\* The line that is copied, in one part or two, is the beginning of the ring's content.
LEMMA CopiedLine ==
  ASSUME KbdInv, RingInv, NEW m \in 1 .. Len(chr)
  PROVE  /\ Copied(m, (chr_r_pos + m) % RingSize) \in Seq(Key)
         /\ Len(Copied(m, (chr_r_pos + m) % RingSize)) = m
         /\ \A i \in 1 .. m : Copied(m, (chr_r_pos + m) % RingSize)[i] = chr[i]
<1> DEFINE e == (chr_r_pos + m) % RingSize
           r == chr_r_pos
<1>1. /\ RingSize \in Nat /\ RingSize > 1 /\ r \in 0 .. RingSize - 1
      /\ chr_ring \in [0 .. RingSize - 1 -> Key]
      /\ Held(r, chr_w_pos) \in 0 .. RingSize - 1
  BY CellFacts DEF RingInv, RingTypes, Cells
<1>2. /\ Len(chr) = Held(r, chr_w_pos)
      /\ \A i \in 1 .. Held(r, chr_w_pos) : chr[i] = chr_ring[Cell(r, i)]
  <2>1. chr_ring \in [Cells -> Key] /\ chr_r_pos \in Cells /\ chr_w_pos \in Cells
    BY DEF RingInv, RingTypes
  <2> QED
    BY <2>1, RingContent DEF chr
<1>3. m \in Nat /\ 1 <= m /\ m < RingSize /\ \A i \in 1 .. m : chr[i] = chr_ring[Cell(r, i)]
  BY <1>1, <1>2
<1>4. e = IF r + m < RingSize THEN r + m ELSE r + m - RingSize
  <2>1. PICK a \in Int : a = r + m /\ 0 <= a /\ a < 2 * RingSize
    BY <1>1, <1>3
  <2>2. RingSize \in Nat /\ -RingSize <= a /\ ~(a < 0)
    BY <1>1, <2>1
  <2>3. a % RingSize = IF a < RingSize THEN a ELSE a - RingSize
    BY <2>1, <2>2, CellMod
  <2> QED
    BY <1>1, <1>3, <2>1, <2>3
<1> HIDE DEF e, r
<1>5. CASE r + m < RingSize
  <2>1. e > r
    BY <1>1, <1>3, <1>4, <1>5
  <2>2. Copied(m, e) = [i \in 1 .. m |-> chr_ring[r + i - 1]]
    BY <2>1 DEF Copied, Part, r
  <2>3. \A i \in 1 .. m : Cell(r, i) = r + i - 1 /\ r + i - 1 \in 0 .. RingSize - 1
    BY <1>1, <1>3, <1>5 DEF Cell
  <2>4. \A i \in 1 .. m : chr_ring[r + i - 1] \in Key
    BY <1>1, <2>3
  <2> DEFINE c == [i \in 1 .. m |-> chr_ring[r + i - 1]]
  <2>5. c \in Seq(Key) /\ Len(c) = m /\ \A i \in 1 .. m : c[i] = chr_ring[r + i - 1]
    BY <1>3, <2>4
  <2> HIDE DEF c
  <2>6. Copied(m, e) = c
    BY <2>2 DEF c
  <2> QED
    BY <1>3, <2>3, <2>5, <2>6 DEF e, r
<1>6. CASE ~(r + m < RingSize)
  <2> DEFINE a == [i \in 1 .. RingSize - r |-> chr_ring[r + i - 1]]
             b == [i \in 1 .. e |-> chr_ring[i - 1]]
  <2>1. ~(e > r) /\ e \in 0 .. RingSize - 1 /\ RingSize - r \in Nat /\ m = RingSize - r + e
    BY <1>1, <1>3, <1>4, <1>6
  <2>2. Copied(m, e) = a \o b
    <3>1. b = [i \in 1 .. e |-> chr_ring[0 + i - 1]]
      BY <2>1
    <3> HIDE DEF b
    <3> QED
      BY <2>1, <3>1 DEF Copied, Part, r
  <2>3. /\ \A i \in 1 .. RingSize - r :
             chr_ring[r + i - 1] \in Key /\ i \in 1 .. m /\ Cell(r, i) = r + i - 1
        /\ \A i \in 1 .. e : chr_ring[i - 1] \in Key
        /\ \A i \in 1 .. m : i > RingSize - r =>
             i - (RingSize - r) \in 1 .. e /\ Cell(r, i) = i - (RingSize - r) - 1
    BY <1>1, <1>3, <2>1 DEF Cell
  <2>4. a \in Seq(Key) /\ Len(a) = RingSize - r /\ \A i \in 1 .. RingSize - r : a[i] = chr_ring[r + i - 1]
    BY <2>1, <2>3
  <2>5. b \in Seq(Key) /\ Len(b) = e /\ \A i \in 1 .. e : b[i] = chr_ring[i - 1]
    BY <2>1, <2>3
  <2> HIDE DEF a, b
  <2>6. /\ a \o b \in Seq(Key) /\ Len(a \o b) = Len(a) + Len(b)
        /\ \A i \in 1 .. Len(a) + Len(b) : (a \o b)[i] = IF i <= Len(a) THEN a[i] ELSE b[i - Len(a)]
    BY <2>4, <2>5, ConcatProperties
  <2>7. ASSUME NEW i \in 1 .. m PROVE (a \o b)[i] = chr[i]
    <3>1. CASE i <= RingSize - r
      <4>1. i \in 1 .. RingSize - r /\ i \in 1 .. Len(a) + Len(b)
        BY <1>3, <2>1, <2>4, <2>5, <3>1
      <4> QED
        BY <1>3, <2>3, <2>4, <2>6, <3>1, <4>1
    <3>2. CASE ~(i <= RingSize - r)
      <4>1. i > RingSize - r /\ i \in 1 .. Len(a) + Len(b)
        BY <1>3, <2>1, <2>4, <2>5, <3>2
      <4>2. (a \o b)[i] = b[i - (RingSize - r)]
        BY <2>4, <2>6, <3>2, <4>1
      <4>3. b[i - (RingSize - r)] = chr_ring[i - (RingSize - r) - 1]
        BY <2>3, <2>5, <4>1
      <4> QED
        BY <1>3, <2>3, <4>1, <4>2, <4>3
    <3> QED
      BY <3>1, <3>2
  <2>8. Len(a \o b) = m
    BY <2>1, <2>4, <2>5, <2>6
  <2> QED
    BY <2>2, <2>6, <2>7, <2>8 DEF e, r
<1> QED
  BY <1>5, <1>6

LEMMA FlushRings ==
  ASSUME KbdInv, RingInv, NEW t \in READERS, FlushLine(t)
  PROVE  /\ RingInv' /\ kh' = kh
         /\ \/ UNCHANGED <<out, chr>>
            \/ \E m \in 1 .. Len(chr), s \in Seq(Key) :
                 /\ Len(s) = m /\ (\A i \in 1 .. m : s[i] = chr[i]) /\ out' = Returned(s)
                 /\ Len(chr') = Len(chr) - m /\ chr' \in Seq(Key)
                 /\ \A i \in 1 .. Len(chr) - m : chr'[i] = chr[i + m]
<1>1. /\ kbdStep[t] = "flush" /\ kbdStep' = [kbdStep EXCEPT ![t] = "done"]
      /\ UNCHANGED <<khVars, chr_ring, chr_w_pos, len>>
  BY DEF FlushLine, KbdGoto
<1>2. kh' = kh
  BY <1>1, ViewsStay
<1>3. RoomInv'
  BY <1>1, RoomStays DEF KbdSteps
<1>4. len[t] # 0 /\ chr # <<>> /\ len[t] \in Nat /\ KbdTypes
  BY <1>1 DEF RingInv, RoomInv, KbdInv, KbdTypes
<1>5. PICK m \in 1 .. Len(chr) : m = Line(len[t])
  BY <1>4, LineBounds
<1>6. /\ chr_ring \in [Cells -> Key] /\ chr_r_pos \in Cells /\ chr_w_pos \in Cells
      /\ Len(chr) = Held(chr_r_pos, chr_w_pos)
  BY RingContent DEF RingInv, RingTypes, chr
<1>7. CASE UNCHANGED <<out, chr_r_pos>>
  <2>1. UNCHANGED chrVars
    BY <1>1, <1>7 DEF chrVars
  <2> QED
    BY <1>1, <1>2, <1>3, <1>7, <2>1, ViewsStay, RingTypesStay DEF RingInv
<1>8. CASE /\ out' = Returned(Copied(m, (chr_r_pos + m) % RingSize))
           /\ chr_r_pos' = (chr_r_pos + m) % RingSize
  <2>1. m \in 0 .. Held(chr_r_pos, chr_w_pos) /\ Held(chr_r_pos, chr_w_pos) \in Nat
    BY <1>4, <1>6 DEF KbdTypes
  <2> DEFINE e == (chr_r_pos + m) % RingSize
  <2>2. /\ e \in Cells
        /\ Len(Content(chr_ring, e, chr_w_pos)) = Len(chr) - m
        /\ \A i \in 1 .. Len(chr) - m : Content(chr_ring, e, chr_w_pos)[i] = chr[i + m]
    BY <1>6, <2>1, RingSkip DEF chr
  <2> HIDE DEF e
  <2>3. Content(chr_ring, e, chr_w_pos) \in Seq(Key)
    BY <1>6, <2>2, RingContent
  <2>4. chr' = Content(chr_ring, e, chr_w_pos)
    <3>1. chr' = Content(chr_ring', chr_r_pos', chr_w_pos')
      BY DEF chr, Content
    <3> QED
      BY <1>1, <1>8, <3>1 DEF e
  <2>5. RingTypes'
    BY <1>1, <1>6, <1>8, <2>2 DEF RingInv, RingTypes, khVars, e
  <2>6. PICK s \in Seq(Key) : s = Copied(m, e) /\ Len(s) = m /\ \A i \in 1 .. m : s[i] = chr[i]
    BY CopiedLine DEF e
  <2>7. out' = Returned(s)
    BY <1>8, <2>6 DEF e
  <2>8. Len(chr') = Len(chr) - m /\ chr' \in Seq(Key) /\ \A i \in 1 .. Len(chr) - m : chr'[i] = chr[i + m]
    BY <2>2, <2>3, <2>4
  <2> QED
    BY <1>2, <1>3, <2>5, <2>6, <2>7, <2>8 DEF RingInv
<1> QED
  BY <1>5, <1>7, <1>8 DEF FlushLine

LEMMA KbdHandlerInv ==
  ASSUME KbdInv, RingInv, NEW kind \in {"letter", "newline", "erase"}, KbdHandler(kind)
  PROVE  KbdInv'
<1>1. UNCHANGED <<chr, reqs, reqCv, len, erased, out>>
  BY HandlerRings DEF KbdHandler
<1>2. \/ \E t \in READERS : kbdStep[t] = "key" /\ kbdStep' = [kbdStep EXCEPT ![t] = "scan"]
      \/ kbdStep' = kbdStep
  BY DEF KbdHandler, KbdGoto
<1>3. kbdStep' \in [READERS -> KbdSteps] /\ GetcharInv'
  BY <1>1, <1>2 DEF KbdInv, KbdTypes, KbdSteps, GetcharInv
<1>4. QueueInv'
  <2>1. CASE kbdStep' = kbdStep
    BY <1>1, <2>1 DEF KbdInv, QueueInv
  <2>2. ASSUME NEW t \in READERS, kbdStep[t] = "key", kbdStep' = [kbdStep EXCEPT ![t] = "scan"]
        PROVE  QueueInv'
    BY <1>1, <2>2, QueueStays DEF KbdSteps
  <2> QED
    BY <1>2, <2>1, <2>2
<1>5. CASE UNCHANGED <<kh, taken>>
  BY <1>1, <1>3, <1>4, <1>5 DEF KbdInv, KbdTypes, OrderInv, KeysInv, Rising, Above, UpTo
<1>6. CASE ~UNCHANGED <<kh, taken>>
  <2> DEFINE k == [kind |-> kind, nr |-> taken + 1]
  <2>1. kh' = Append(kh, k) /\ taken' = taken + 1 /\ k.nr = taken + 1
    BY <1>6, HandlerRings
  <2>2. taken \in Nat
    BY DEF KbdInv, KbdTypes
  <2>3. k \in Key
    BY <2>2 DEF Key
  <2> HIDE DEF k
  <2>4. /\ kh' \in Seq(Key) /\ Len(kh') = Len(kh) + 1 /\ kh'[Len(kh) + 1] = k
        /\ \A i \in 1 .. Len(kh) : kh'[i] = kh[i]
    BY <2>1, <2>3, AppendElements DEF KbdInv, KbdTypes
  <2>5. KbdTypes'
    BY <1>1, <1>3, <2>1, <2>4 DEF KbdInv, KbdTypes
  <2>6. KeysInv'
    BY <1>1, <2>1, <2>4, NrTypes DEF KbdInv, KeysInv
  <2>7. ASSUME NEW i \in 1 .. Len(kh')
        PROVE  kh'[i].nr = IF i = Len(kh) + 1 THEN taken + 1 ELSE kh[i].nr
    BY <2>1, <2>4, NrTypes DEF KbdInv
  <2>8. /\ \A i \in 1 .. Len(kh') : i = Len(kh) + 1 \/ i \in 1 .. Len(kh)
        /\ Len(kh) + 1 \in 1 .. Len(kh')
    BY <2>4, NrTypes DEF KbdInv
  <2>9. Rising(kh') /\ Above(kh', out.last) /\ UpTo(kh', taken + 1)
    <3>1. \A i \in 1 .. Len(kh) : kh[i].nr <= taken /\ out.last < kh[i].nr /\ kh[i].nr \in Nat
      BY NrTypes DEF KbdInv, OrderInv, Above, UpTo
    <3>2. out.last <= taken /\ out.last \in Nat
      BY NrTypes DEF KbdInv, OrderInv
    <3>3. Above(kh', out.last) /\ UpTo(kh', taken + 1)
      <4>1. ASSUME NEW i \in 1 .. Len(kh')
            PROVE  out.last < kh'[i].nr /\ kh'[i].nr <= taken + 1
        <5>1. CASE i = Len(kh) + 1
          BY <2>2, <2>7, <3>2, <5>1
        <5>2. CASE i # Len(kh) + 1
          <6>1. i \in 1 .. Len(kh) /\ kh'[i].nr = kh[i].nr
            BY <2>7, <2>8, <5>2
          <6> QED
            BY <2>2, <3>1, <6>1
        <5> QED
          BY <5>1, <5>2
      <4> QED
        BY <4>1 DEF Above, UpTo
    <3>4. ASSUME NEW i \in 1 .. Len(kh'), NEW j \in 1 .. Len(kh'), i < j
          PROVE  kh'[i].nr < kh'[j].nr
      <4>1. i \in 1 .. Len(kh)
        BY <2>4, <3>4, NrTypes DEF KbdInv
      <4>2. CASE j = Len(kh) + 1
        <5>1. i # Len(kh) + 1
          BY <4>1, NrTypes DEF KbdInv
        <5>2. kh'[i].nr = kh[i].nr /\ kh'[j].nr = taken + 1
          BY <2>7, <4>2, <5>1
        <5>3. kh[i].nr <= taken /\ kh[i].nr \in Nat
          BY <3>1, <4>1
        <5> QED
          BY <2>2, <5>2, <5>3
      <4>3. CASE j \in 1 .. Len(kh)
        BY <2>7, <3>4, <4>1, <4>3, NrTypes DEF KbdInv, OrderInv, Rising
      <4> QED
        BY <2>8, <4>2, <4>3
    <3> QED
      BY <3>3, <3>4 DEF Rising
  <2>10. \A i \in 1 .. Len(chr), j \in 1 .. Len(kh') : chr[i].nr < kh'[j].nr
    <3>1. ASSUME NEW i \in 1 .. Len(chr), NEW j \in 1 .. Len(kh') PROVE chr[i].nr < kh'[j].nr
      <4>1. chr[i].nr \in Nat /\ chr[i].nr <= taken
        BY NrTypes DEF KbdInv, OrderInv, UpTo
      <4>2. CASE j = Len(kh) + 1
        BY <2>2, <2>7, <4>1, <4>2
      <4>3. CASE j # Len(kh) + 1
        <5>1. j \in 1 .. Len(kh) /\ kh'[j].nr = kh[j].nr
          BY <2>7, <2>8, <4>3
        <5> QED
          BY <5>1 DEF KbdInv, OrderInv
      <4> QED
        BY <4>2, <4>3
    <3> QED
      BY <3>1
  <2>11. /\ Rising(chr) /\ Above(chr, out.last) /\ UpTo(chr, taken + 1) /\ out.last <= taken + 1
         /\ out.ordered = TRUE
    <3>1. \A i \in 1 .. Len(chr) : chr[i].nr <= taken /\ chr[i].nr \in Nat
      BY NrTypes DEF KbdInv, OrderInv, UpTo
    <3>2. UpTo(chr, taken + 1)
      BY <2>2, <3>1 DEF UpTo
    <3>3. out.last <= taken + 1
      BY NrTypes DEF KbdInv, OrderInv
    <3> QED
      BY <3>2, <3>3 DEF KbdInv, OrderInv
  <2>12. OrderInv'
    BY <1>1, <2>1, <2>9, <2>10, <2>11 DEF OrderInv, Rising, Above, UpTo
  <2> QED
    BY <1>3, <1>4, <2>5, <2>6, <2>12 DEF KbdInv
<1> QED
  BY <1>5, <1>6

LEMMA KbdRequestInv ==
  ASSUME KbdInv, NEW t \in READERS, NEW n \in Reads, KbdRequest(t, n)
  PROVE  KbdInv'
<1> USE DEF KbdGoto
<1>1. /\ kbdStep[t] = "none" /\ len' = [len EXCEPT ![t] = n] /\ reqs' = Append(reqs, t)
      /\ UNCHANGED <<kh, chr, taken, erased, out>>
  BY ViewsStay DEF KbdRequest
<1>2. IF reqs = <<>> THEN kbdStep' = [kbdStep EXCEPT ![t] = "turn"] /\ reqCv' = reqCv
      ELSE kbdStep' = [kbdStep EXCEPT ![t] = "asleep"] /\ reqCv' = Append(reqCv, t)
  BY DEF KbdRequest
<1>3. n \in Nat
  BY KbdAssumption
<1>4. reqs' \in Seq(READERS) /\ len' \in [READERS -> Nat]
  BY <1>1, <1>3 DEF KbdInv, KbdTypes
<1>5. reqCv' \in Seq(READERS)
  <2>1. reqCv \in Seq(READERS) /\ Append(reqCv, t) \in Seq(READERS)
    BY AppendElements DEF KbdInv, KbdTypes
  <2> QED
    BY <1>2, <2>1
<1>6. kbdStep' \in [READERS -> KbdSteps]
  BY <1>2 DEF KbdInv, KbdTypes, KbdSteps
<1>7. KbdTypes'
  BY <1>1, <1>4, <1>5, <1>6 DEF KbdInv, KbdTypes
<1>8. GetcharInv'
  BY <1>1, <1>2 DEF KbdInv, KbdTypes, GetcharInv
<1>9. OrderInv' /\ KeysInv'
  BY <1>1 DEF KbdInv, OrderInv, KeysInv, Rising, Above, UpTo
<1>10. \A i \in 1 .. Len(reqs) : reqs[i] # t /\ reqs[i] \in READERS
  <2>1. \A i \in 1 .. Len(reqs) : kbdStep[reqs[i]] # "none"
    BY DEF KbdInv, QueueInv
  <2>2. \A i \in 1 .. Len(reqs) : reqs[i] \in READERS
    BY DEF KbdInv, KbdTypes
  <2> QED
    BY <1>1, <2>1, <2>2
<1>11. /\ Len(reqs') = Len(reqs) + 1 /\ Len(reqs) \in Nat /\ reqs'[Len(reqs) + 1] = t
       /\ \A i \in 1 .. Len(reqs) : reqs'[i] = reqs[i]
       /\ \A i \in 1 .. Len(reqs') : i = Len(reqs) + 1 \/ i \in 1 .. Len(reqs)
  <2>1. /\ Len(reqs') = Len(reqs) + 1 /\ Len(reqs) \in Nat /\ reqs'[Len(reqs) + 1] = t
        /\ \A i \in 1 .. Len(reqs) : reqs'[i] = reqs[i]
    BY <1>1, AppendElements DEF KbdInv, KbdTypes
  <2> QED
    BY <2>1
<1>12. Distinct(reqs')
  BY <1>10, <1>11 DEF KbdInv, QueueInv, Distinct
<1>13. ASSUME NEW u \in READERS, kbdStep'[u] # "none"
       PROVE  \E i \in 1 .. Len(reqs') : reqs'[i] = u
  <2>1. CASE u = t
    BY <1>11, <2>1
  <2>2. CASE u # t
    <3>1. kbdStep[u] # "none"
      BY <1>2, <1>13, <2>2 DEF KbdInv, KbdTypes
    <3> QED
      BY <1>11, <3>1 DEF KbdInv, QueueInv
  <2> QED
    BY <2>1, <2>2
<1>14. CASE reqs = <<>>
  <2>1. Len(reqs) = 0 /\ Len(reqs') = 1 /\ reqs'[1] = t /\ kbdStep'[t] = "turn" /\ Len(reqCv') = 0
    BY <1>2, <1>11, <1>14 DEF KbdInv, KbdTypes, QueueInv
  <2>2. QueueInv'
    BY <1>5, <1>12, <1>13, <2>1 DEF QueueInv
  <2> QED
    BY <1>7, <1>8, <1>9, <2>2 DEF KbdInv
<1>15. CASE reqs # <<>>
  <2>1. Len(reqs) # 0 /\ Len(reqCv) = Len(reqs) - 1
    BY <1>15 DEF KbdInv, KbdTypes, QueueInv
  <2>2. /\ Len(reqCv') = Len(reqs) /\ reqCv'[Len(reqs)] = t
        /\ \A i \in 1 .. Len(reqs) - 1 : reqCv'[i] = reqCv[i]
    <3>1. reqCv' = Append(reqCv, t) /\ Len(reqCv) + 1 = Len(reqs)
      BY <1>2, <1>11, <1>15, <2>1
    <3>2. /\ Len(Append(reqCv, t)) = Len(reqCv) + 1 /\ Append(reqCv, t)[Len(reqCv) + 1] = t
          /\ \A i \in 1 .. Len(reqCv) : Append(reqCv, t)[i] = reqCv[i]
      BY AppendElements DEF KbdInv, KbdTypes
    <3> QED
      BY <2>1, <3>1, <3>2
  <2>3. \A i \in 1 .. Len(reqCv') : reqCv'[i] = reqs'[i + 1]
    <3>1. ASSUME NEW i \in 1 .. Len(reqs) PROVE reqCv'[i] = reqs'[i + 1]
      <4>1. CASE i = Len(reqs)
        BY <1>11, <2>2, <4>1
      <4>2. CASE i # Len(reqs)
        <5>1. i \in 1 .. Len(reqs) - 1 /\ i + 1 \in 1 .. Len(reqs) /\ i \in 1 .. Len(reqCv)
          BY <1>11, <2>1, <4>2
        <5> QED
          BY <1>11, <2>2, <5>1 DEF KbdInv, QueueInv
      <4> QED
        BY <4>1, <4>2
    <3> QED
      BY <2>2, <3>1
  <2>4. \A u \in READERS : kbdStep'[u] = IF u = t THEN "asleep" ELSE kbdStep[u]
    BY <1>2, <1>15 DEF KbdInv, KbdTypes
  <2>5. ASSUME NEW i \in 1 .. Len(reqs')
        PROVE  IF i = 1 THEN kbdStep'[reqs'[i]] \notin {"none", "asleep"}
               ELSE kbdStep'[reqs'[i]] = "asleep"
    <3>1. CASE i = Len(reqs) + 1
      BY <1>11, <2>1, <2>4, <3>1
    <3>2. CASE i \in 1 .. Len(reqs)
      BY <1>10, <1>11, <2>4, <3>2 DEF KbdInv, QueueInv
    <3> QED
      BY <1>11, <3>1, <3>2
  <2>6. Len(reqCv') = IF Len(reqs') = 0 THEN 0 ELSE Len(reqs') - 1
    BY <1>11, <2>2
  <2>7. QueueInv'
    BY <1>12, <1>13, <2>3, <2>5, <2>6 DEF QueueInv
  <2> QED
    BY <1>7, <1>8, <1>9, <2>7 DEF KbdInv
<1> QED
  BY <1>14, <1>15

LEMMA KbdWokenInv ==
  ASSUME KbdInv, NEW t \in READERS, KbdWoken(t)
  PROVE  KbdInv'
<1>1. /\ kbdStep[t] = "woken" /\ UNCHANGED <<kh, chr, reqs, len, taken, erased, out>>
  BY ViewsStay DEF KbdWoken
<1>2. reqs # <<>> /\ Head(reqs) = t
  <2>1. reqs # <<>> /\ reqs[1] = t
    BY <1>1, ServedIsFirst
  <2> QED
    BY <2>1 DEF KbdInv, KbdTypes
<1>3. kbdStep' = [kbdStep EXCEPT ![t] = "turn"] /\ reqCv' = reqCv
  BY <1>2 DEF KbdWoken, KbdGoto
<1>4. QueueInv'
  BY <1>1, <1>3, QueueStays DEF KbdSteps
<1>5. KbdTypes' /\ GetcharInv'
  BY <1>1, <1>3 DEF KbdInv, KbdTypes, KbdSteps, GetcharInv
<1>6. OrderInv' /\ KeysInv'
  BY <1>1 DEF KbdInv, OrderInv, KeysInv, Rising, Above, UpTo
<1> QED
  BY <1>4, <1>5, <1>6 DEF KbdInv

LEMMA ScSleepInv ==
  ASSUME KbdInv, NEW t \in READERS, ScSleep(t)
  PROVE  KbdInv'
<1>1. /\ kbdStep[t] = "nap" /\ kbdStep' = [kbdStep EXCEPT ![t] = "key"]
      /\ UNCHANGED <<kh, chr, reqs, reqCv, len, taken, erased, out>>
  BY ViewsStay DEF ScSleep, KbdGoto
<1>2. QueueInv'
  BY <1>1, QueueStays DEF KbdSteps
<1>3. KbdTypes' /\ GetcharInv'
  BY <1>1 DEF KbdInv, KbdTypes, KbdSteps, GetcharInv
<1>4. OrderInv' /\ KeysInv'
  BY <1>1 DEF KbdInv, OrderInv, KeysInv, Rising, Above, UpTo
<1> QED
  BY <1>2, <1>3, <1>4 DEF KbdInv

\* The first m characters are returned.
LEMMA CharsReturned ==
  ASSUME KbdInv, NEW m \in 0 .. Len(chr), UNCHANGED <<kh, taken, erased>>,
         chr' \in Seq(Key), Len(chr') = Len(chr) - m,
         \A i \in 1 .. Len(chr) - m : chr'[i] = chr[i + m],
         out'.count = out.count + m, out'.last = IF m = 0 THEN out.last ELSE chr[m].nr,
         out'.ordered = TRUE
  PROVE  OrderInv' /\ KeysInv'
<1>1. KeysInv'
  BY NrTypes DEF KbdInv, KeysInv
<1>2. m = 0 \/ m \in 1 .. Len(chr)
  BY NrTypes DEF KbdInv
<1>3. /\ \A i \in 1 .. Len(chr') : i \in 1 .. Len(chr) - m /\ i + m \in 1 .. Len(chr)
      /\ \A i \in 1 .. Len(chr') : m < i + m /\ chr'[i].nr = chr[i + m].nr
  BY NrTypes DEF KbdInv
<1>4. /\ \A i \in 1 .. Len(chr) : out.last < chr[i].nr /\ chr[i].nr <= taken /\ chr[i].nr \in Nat
      /\ \A j \in 1 .. Len(kh) : out.last < kh[j].nr
      /\ \A i \in 1 .. Len(chr), j \in 1 .. Len(kh) : chr[i].nr < kh[j].nr
      /\ \A i, j \in 1 .. Len(chr) : i < j => chr[i].nr < chr[j].nr
      /\ out.last <= taken
  BY NrTypes DEF KbdInv, OrderInv, Above, UpTo, Rising
<1>5. \A i, j \in 1 .. Len(chr') : i < j => i + m < j + m
  BY NrTypes DEF KbdInv
<1>6. Rising(chr')
  BY <1>3, <1>4, <1>5 DEF Rising
<1>7. Above(chr', out'.last)
  BY <1>2, <1>3, <1>4 DEF Above
<1>8. Above(kh, out'.last)
  BY <1>2, <1>4 DEF Above
<1>9. UpTo(chr', taken)
  BY <1>3, <1>4 DEF UpTo
<1>10. out'.last <= taken
  BY <1>2, <1>4
<1>11. \A i \in 1 .. Len(chr'), j \in 1 .. Len(kh) : chr'[i].nr < kh[j].nr
  BY <1>3, <1>4
<1>12. Rising(kh) /\ UpTo(kh, taken)
  BY DEF KbdInv, OrderInv
<1>13. OrderInv'
  BY <1>6, <1>7, <1>8, <1>9, <1>10, <1>11, <1>12 DEF OrderInv, Rising, Above, UpTo
<1> QED
  BY <1>1, <1>13

LEMMA KbdTurnInv ==
  ASSUME KbdInv, RingInv, NEW t \in READERS, KbdTurn(t)
  PROVE  KbdInv'
<1>1. kbdStep[t] = "turn" /\ UNCHANGED <<kh, reqs, reqCv, len, taken, erased>>
  BY TurnRings DEF KbdTurn
<1>2. CASE len[t] = 0 /\ chr # <<>>
  <2>1. /\ kbdStep' = [kbdStep EXCEPT ![t] = "done"]
        /\ out' = Returned(<<Head(chr)>>) /\ chr' = Tail(chr)
    BY <1>2, TurnRings
  <2>2. /\ chr' \in Seq(Key) /\ Len(chr') = Len(chr) - 1 /\ Head(chr) = chr[1]
        /\ 1 \in 1 .. Len(chr) /\ \A i \in 1 .. Len(chr) - 1 : chr'[i] = chr[i + 1]
    BY <1>2, <2>1, TailOrder DEF KbdInv, KbdTypes
  <2>3. PICK k \in Key : k = chr[1]
    BY <2>2, NrTypes DEF KbdInv
  <2>4. out' = [count |-> out.count + 1, last |-> k.nr, ordered |-> TRUE]
    <3>1. k.nr \in Nat /\ out.last < k.nr
      BY <2>2, <2>3, NrTypes DEF KbdInv, OrderInv, Above
    <3> QED
      BY <2>1, <2>2, <2>3, <3>1, OneReturned
  <2>5. out' \in [count : Nat, last : Nat, ordered : BOOLEAN]
    BY <2>4, NrTypes DEF KbdInv, Key
  <2>6. OrderInv' /\ KeysInv'
    <3>1. PICK m \in 0 .. Len(chr) : m = 1
      BY <2>2, NrTypes DEF KbdInv
    <3>2. /\ out'.count = out.count + m /\ out'.last = IF m = 0 THEN out.last ELSE chr[m].nr
          /\ out'.ordered = TRUE
      BY <2>3, <2>4, <3>1
    <3>3. Len(chr') = Len(chr) - m /\ \A i \in 1 .. Len(chr) - m : chr'[i] = chr[i + m]
      BY <2>2, <3>1
    <3> QED
      BY <1>1, <2>2, <3>2, <3>3, CharsReturned
  <2>7. QueueInv'
    BY <1>1, <2>1, QueueStays DEF KbdSteps
  <2>8. KbdTypes'
    BY <1>1, <2>1, <2>2, <2>5 DEF KbdInv, KbdTypes, KbdSteps
  <2>9. GetcharInv'
    <3>1. ASSUME NEW u \in READERS, kbdStep'[u] \in {"scan", "nap", "key"} PROVE FALSE
      <4>1. u # t /\ kbdStep[u] \in {"scan", "nap", "key"}
        BY <2>1, <3>1 DEF KbdInv, KbdTypes
      <4> QED
        BY <1>1, <4>1, OneServed
    <3> QED
      BY <3>1 DEF GetcharInv
  <2> QED
    BY <2>6, <2>7, <2>8, <2>9 DEF KbdInv
<1>3. CASE ~(len[t] = 0 /\ chr # <<>>)
  <2>1. PICK l \in {"flush", "scan"} : kbdStep' = [kbdStep EXCEPT ![t] = l]
    BY <1>3, TurnRings
  <2>2. UNCHANGED <<out, chr>>
    BY <1>3, TurnRings
  <2>3. QueueInv'
    BY <1>1, <2>1, QueueStays DEF KbdSteps
  <2>4. KbdTypes' /\ GetcharInv'
    BY <1>1, <1>3, <2>1, <2>2 DEF KbdInv, KbdTypes, KbdSteps, GetcharInv
  <2>5. OrderInv' /\ KeysInv'
    BY <1>1, <2>2 DEF KbdInv, OrderInv, KeysInv, Rising, Above, UpTo
  <2> QED
    BY <2>3, <2>4, <2>5 DEF KbdInv
<1> QED
  BY <1>2, <1>3

\* A key leaves the ring that the handler fills.
LEMMA KeyTaken ==
  ASSUME KbdInv, kh # <<>>, kh' = Tail(kh)
  PROVE  /\ kh' \in Seq(Key) /\ Len(kh') = Len(kh) - 1
         /\ Head(kh) = kh[1] /\ kh[1] \in Key /\ 1 \in 1 .. Len(kh)
         /\ Rising(kh') /\ UpTo(kh', taken)
         /\ \A j \in 1 .. Len(kh') : kh[1].nr < kh'[j].nr
         /\ Above(kh', out.last)
         /\ \A i \in 1 .. Len(chr), j \in 1 .. Len(kh') : chr[i].nr < kh'[j].nr
<1>1. /\ kh' \in Seq(Key) /\ Len(kh') = Len(kh) - 1 /\ Head(kh) = kh[1] /\ 1 \in 1 .. Len(kh)
      /\ \A i \in 1 .. Len(kh') : kh'[i] = kh[i + 1] /\ i + 1 \in 1 .. Len(kh)
  BY TailOrder DEF KbdInv, KbdTypes
<1>2. /\ Rising(kh) /\ UpTo(kh, taken) /\ Above(kh, out.last) /\ kh[1] \in Key
      /\ \A i \in 1 .. Len(chr), j \in 1 .. Len(kh) : chr[i].nr < kh[j].nr
  BY <1>1, NrTypes DEF KbdInv, OrderInv
<1>3. \A i, j \in 1 .. Len(kh') : 1 < i + 1 /\ (i < j => i + 1 < j + 1)
  OBVIOUS
<1>4. Rising(kh')
  BY <1>1, <1>2, <1>3 DEF Rising
<1>5. \A j \in 1 .. Len(kh') : kh[1].nr < kh'[j].nr
  BY <1>1, <1>2, <1>3 DEF Rising
<1>6. UpTo(kh', taken) /\ Above(kh', out.last)
  BY <1>1, <1>2 DEF UpTo, Above
<1>7. \A i \in 1 .. Len(chr), j \in 1 .. Len(kh') : chr[i].nr < kh'[j].nr
  BY <1>1, <1>2
<1> QED
  BY <1>1, <1>2, <1>4, <1>5, <1>6, <1>7

LEMMA ScProcessInv ==
  ASSUME KbdInv, RingInv, NEW t \in READERS, ScProcess(t)
  PROVE  KbdInv'
<1>1. kbdStep[t] = "scan" /\ UNCHANGED <<reqs, reqCv, len, taken>>
  BY DEF ScProcess
<1>2. PICK l \in {"nap", "done", "scan", "flush"} : kbdStep' = [kbdStep EXCEPT ![t] = l]
  BY DEF ScProcess, Typed, KbdGoto
<1>3. QueueInv' /\ kbdStep' \in [READERS -> KbdSteps]
  BY <1>1, <1>2, QueueStays DEF KbdInv, KbdTypes, KbdSteps
<1>4. ASSUME NEW u \in READERS, kbdStep'[u] \in {"scan", "nap", "key"} PROVE u = t
  <2>1. u = t \/ kbdStep[u] \in {"scan", "nap", "key"}
    BY <1>2, <1>4 DEF KbdInv, KbdTypes
  <2> QED
    BY <1>1, <2>1, OneServed
<1>5. len[t] = 0 => chr = <<>>
  BY <1>1 DEF KbdInv, GetcharInv
<1>6. CASE kh = <<>>
  <2>1. UNCHANGED <<kh, chr, erased, out>>
    BY <1>6, ScRings
  <2>2. KbdTypes' /\ GetcharInv'
    BY <1>1, <1>3, <1>4, <1>5, <2>1 DEF KbdInv, KbdTypes, GetcharInv
  <2>3. OrderInv' /\ KeysInv'
    BY <1>1, <2>1 DEF KbdInv, OrderInv, KeysInv, Rising, Above, UpTo
  <2> QED
    BY <1>3, <2>2, <2>3 DEF KbdInv
<1>7. CASE kh # <<>>
  <2>1. kh' = Tail(kh)
    BY <1>7, ScRings
  <2>2. PICK k \in Key : k = kh[1]
    BY <1>7, <2>1, KeyTaken
  <2>3. /\ kh' \in Seq(Key) /\ Len(kh') = Len(kh) - 1 /\ Head(kh) = k /\ 1 \in 1 .. Len(kh)
        /\ Rising(kh') /\ UpTo(kh', taken) /\ Above(kh', out.last) /\ Above(kh', k.nr)
        /\ \A i \in 1 .. Len(chr), j \in 1 .. Len(kh') : chr[i].nr < kh'[j].nr
    BY <1>7, <2>1, <2>2, KeyTaken DEF Above
  <2>4. /\ k.nr \in Nat /\ out.last < k.nr /\ k.nr <= taken
        /\ \A i \in 1 .. Len(chr) : chr[i].nr < k.nr
    BY <2>2, <2>3, NrTypes DEF KbdInv, OrderInv, Above, UpTo
  <2>5. /\ Rising(chr) /\ Above(chr, out.last) /\ UpTo(chr, taken) /\ out.last <= taken
        /\ out.ordered = TRUE /\ chr \in Seq(Key) /\ out \in [count : Nat, last : Nat, ordered : BOOLEAN]
    BY DEF KbdInv, OrderInv, KbdTypes
  <2>6. CASE len[t] = 0
    <3>1. out' = Returned(<<k>>) /\ UNCHANGED <<chr, erased>>
      BY <1>7, <2>3, <2>6, ScRings
    <3>2. out' = [count |-> out.count + 1, last |-> k.nr, ordered |-> TRUE]
      BY <2>4, <3>1, OneReturned
    <3>3. out' \in [count : Nat, last : Nat, ordered : BOOLEAN]
      BY <2>4, <3>2, NrTypes DEF KbdInv
    <3>4. KbdTypes'
      BY <1>1, <1>3, <2>3, <3>1, <3>3 DEF KbdInv, KbdTypes
    <3>5. GetcharInv'
      BY <1>1, <1>4, <1>5, <3>1 DEF GetcharInv
    <3>6. chr' = <<>>
      BY <1>5, <2>6, <3>1
    <3>7. OrderInv'
      <4>1. Rising(chr') /\ Above(chr', out'.last) /\ UpTo(chr', taken)
        BY <3>6 DEF Rising, Above, UpTo
      <4>2. out'.last = k.nr /\ out'.ordered = TRUE
        BY <3>2
      <4>3. \A i \in 1 .. Len(chr'), j \in 1 .. Len(kh') : chr'[i].nr < kh'[j].nr
        BY <3>6
      <4>4. Rising(kh') /\ Above(kh', out'.last) /\ UpTo(kh', taken) /\ out'.last <= taken
        BY <2>3, <2>4, <4>2
      <4> QED
        BY <1>1, <4>1, <4>2, <4>3, <4>4 DEF OrderInv, Rising, Above, UpTo
    <3>8. KeysInv'
      BY <1>1, <2>3, <3>1, <3>2, NrTypes DEF KbdInv, KeysInv
    <3> QED
      BY <1>3, <3>4, <3>5, <3>7, <3>8 DEF KbdInv
  <2>7. CASE len[t] # 0
    <3>1. Entered(k)
      BY <1>7, <2>3, <2>7, ScRings
    <3>2. GetcharInv'
      BY <1>1, <1>4, <2>7 DEF GetcharInv
    <3>6. /\ out.count \in Nat /\ Len(chr) \in Nat /\ Len(kh) \in Nat /\ erased \in Nat
          /\ out.count + Len(chr) + Len(kh) + erased = taken
      BY NrTypes DEF KbdInv, KeysInv
    <3>3. CASE k.kind = "erase" /\ chr = <<>>
      <4>1. erased' = erased + 1 /\ chr' = chr /\ out' = out
        BY <3>1, <3>3 DEF Entered
      <4>2. KbdTypes'
        BY <1>1, <1>3, <2>3, <4>1 DEF KbdInv, KbdTypes
      <4>3. OrderInv'
        BY <1>1, <2>3, <2>5, <4>1 DEF OrderInv, Rising, Above, UpTo
      <4>4. KeysInv'
        <5>1. /\ Len(kh') = Len(kh) - 1 /\ Len(chr') = Len(chr) /\ erased' = erased + 1
              /\ out'.count = out.count /\ taken' = taken
          BY <1>1, <2>3, <4>1
        <5>2. out.count + Len(chr) + (Len(kh) - 1) + (erased + 1) = taken
          BY <3>6
        <5> QED
          BY <5>1, <5>2 DEF KeysInv
      <4> QED
        BY <1>3, <3>2, <4>2, <4>3, <4>4 DEF KbdInv
    <3>4. CASE k.kind = "erase" /\ chr # <<>>
      <4>1. erased' = erased + 2 /\ chr' = Front(chr) /\ UNCHANGED out
        BY <3>1, <3>4 DEF Entered
      <4>2. /\ chr' \in Seq(Key) /\ Len(chr') = Len(chr) - 1 /\ Len(chr) \in Nat
            /\ \A i \in 1 .. Len(chr) - 1 : chr'[i] = chr[i]
        <5>1. chr' = SubSeq(chr, 1, Len(chr) - 1) /\ Len(chr) \in Nat /\ Len(chr) >= 1
          BY <2>5, <3>4, <4>1 DEF Front
        <5>2. PICK m \in Int : m = Len(chr) - 1
          BY <5>1
        <5>3. \A i \in 1 .. m : chr[i] \in Key
          BY <2>5, <5>1, <5>2
        <5> QED
          BY <5>1, <5>2, <5>3, SubSeqProperties
      <4>3. KbdTypes'
        BY <1>1, <1>3, <2>3, <4>1, <4>2 DEF KbdInv, KbdTypes
      <4>4. \A i \in 1 .. Len(chr') : i \in 1 .. Len(chr) /\ chr'[i] = chr[i]
        BY <4>2
      <4>5. Rising(chr') /\ Above(chr', out.last) /\ UpTo(chr', taken)
        BY <2>5, <4>4 DEF Rising, Above, UpTo
      <4>6. \A i \in 1 .. Len(chr'), j \in 1 .. Len(kh') : chr'[i].nr < kh'[j].nr
        BY <2>3, <4>4
      <4>7. OrderInv'
        BY <1>1, <2>3, <2>5, <4>1, <4>5, <4>6 DEF OrderInv, Rising, Above, UpTo
      <4>8. KeysInv'
        <5>1. /\ Len(kh') = Len(kh) - 1 /\ Len(chr') = Len(chr) - 1 /\ erased' = erased + 2
              /\ out'.count = out.count /\ taken' = taken
          BY <1>1, <2>3, <4>1, <4>2
        <5>2. out.count + (Len(chr) - 1) + (Len(kh) - 1) + (erased + 2) = taken
          BY <3>6
        <5> QED
          BY <5>1, <5>2 DEF KeysInv
      <4> QED
        BY <1>3, <3>2, <4>3, <4>7, <4>8 DEF KbdInv
    <3>5. CASE k.kind # "erase"
      <4>1. chr' = Append(chr, k) /\ erased' = erased /\ out' = out
        BY <3>1, <3>5 DEF Entered
      <4>2. /\ chr' \in Seq(Key) /\ Len(chr') = Len(chr) + 1 /\ Len(chr) \in Nat
            /\ chr'[Len(chr) + 1] = k /\ \A i \in 1 .. Len(chr) : chr'[i] = chr[i]
        BY <2>5, <4>1, AppendElements
      <4>3. KbdTypes'
        BY <1>1, <1>3, <2>3, <4>1, <4>2 DEF KbdInv, KbdTypes
      <4>4. \A i \in 1 .. Len(chr') :
              \/ i = Len(chr) + 1 /\ chr'[i] = k
              \/ i \in 1 .. Len(chr) /\ chr'[i] = chr[i]
        BY <4>2
      <4>5. Above(chr', out.last) /\ UpTo(chr', taken)
        BY <2>4, <2>5, <4>4 DEF Above, UpTo
      <4>6. \A i \in 1 .. Len(chr'), j \in 1 .. Len(kh') : chr'[i].nr < kh'[j].nr
        BY <2>3, <4>4 DEF Above
      <4>7. ASSUME NEW i \in 1 .. Len(chr'), NEW j \in 1 .. Len(chr'), i < j
            PROVE  chr'[i].nr < chr'[j].nr
        <5>1. i \in 1 .. Len(chr) /\ chr'[i] = chr[i]
          BY <4>2, <4>7
        <5>2. CASE chr'[j] = k
          BY <2>4, <5>1, <5>2
        <5>3. CASE j \in 1 .. Len(chr) /\ chr'[j] = chr[j]
          BY <2>5, <4>7, <5>1, <5>3 DEF Rising
        <5> QED
          BY <4>4, <5>2, <5>3
      <4>8. OrderInv'
        <5>1. Rising(chr')
          BY <4>7 DEF Rising
        <5> QED
          BY <1>1, <2>3, <2>5, <4>1, <4>5, <4>6, <5>1 DEF OrderInv, Rising, Above, UpTo
      <4>9. KeysInv'
        <5>1. /\ Len(kh') = Len(kh) - 1 /\ Len(chr') = Len(chr) + 1 /\ erased' = erased
              /\ out'.count = out.count /\ taken' = taken
          BY <1>1, <2>3, <4>1, <4>2
        <5>2. out.count + (Len(chr) + 1) + (Len(kh) - 1) + erased = taken
          <6>1. PICK c \in Nat, h \in Nat, n \in Nat, e \in Nat :
                  c = Len(chr) /\ h = Len(kh) /\ n = out.count /\ e = erased
            BY <3>6
          <6>2. n + c + h + e = taken
            BY <3>6, <6>1
          <6>3. n + (c + 1) + (h - 1) + e = taken
            BY <6>2
          <6> QED
            BY <6>1, <6>3
        <5> QED
          BY <5>1, <5>2 DEF KeysInv
      <4> QED
        BY <1>3, <3>2, <4>3, <4>8, <4>9 DEF KbdInv
    <3> QED
      BY <3>3, <3>4, <3>5
  <2> QED
    BY <2>6, <2>7
<1> QED
  BY <1>6, <1>7

LEMMA FlushLineInv ==
  ASSUME KbdInv, RingInv, NEW t \in READERS, FlushLine(t)
  PROVE  KbdInv'
<1>1. /\ kbdStep[t] = "flush" /\ kbdStep' = [kbdStep EXCEPT ![t] = "done"]
      /\ UNCHANGED <<kh, reqs, reqCv, len, taken, erased>>
  BY FlushRings DEF FlushLine, KbdGoto
<1>2. QueueInv' /\ kbdStep' \in [READERS -> KbdSteps]
  BY <1>1, QueueStays DEF KbdInv, KbdTypes, KbdSteps
<1>3. GetcharInv'
  <2>1. ASSUME NEW u \in READERS, kbdStep'[u] \in {"scan", "nap", "key"} PROVE FALSE
    <3>1. u # t /\ kbdStep[u] \in {"scan", "nap", "key"}
      BY <1>1, <2>1 DEF KbdInv, KbdTypes
    <3> QED
      BY <1>1, <3>1, OneServed
  <2> QED
    BY <2>1 DEF GetcharInv
<1>4. CASE UNCHANGED <<out, chr>>
  BY <1>1, <1>2, <1>3, <1>4 DEF KbdInv, KbdTypes, OrderInv, KeysInv, Rising, Above, UpTo
<1>5. ASSUME NEW m \in 1 .. Len(chr), NEW s \in Seq(Key), Len(s) = m,
             \A i \in 1 .. m : s[i] = chr[i], out' = Returned(s),
             Len(chr') = Len(chr) - m, chr' \in Seq(Key),
             \A i \in 1 .. Len(chr) - m : chr'[i] = chr[i + m]
      PROVE  KbdInv'
  <2>1. out' = [count |-> out.count + m, last |-> chr[m].nr, ordered |-> TRUE]
    BY <1>5, SomeReturned
  <2>2. m \in Nat \ {0} /\ m \in 0 .. Len(chr) /\ out.count + m \in Nat /\ chr[m].nr \in Nat
    BY NrTypes DEF KbdInv
  <2>3. /\ out'.count = out.count + m /\ out'.last = chr[m].nr /\ out'.ordered = TRUE
        /\ out' \in [count : Nat, last : Nat, ordered : BOOLEAN]
    BY <2>1, <2>2
  <2>4. OrderInv' /\ KeysInv'
    BY <1>1, <1>5, <2>2, <2>3, CharsReturned
  <2>5. KbdTypes'
    BY <1>1, <1>2, <1>5, <2>3 DEF KbdInv, KbdTypes
  <2> QED
    BY <1>2, <1>3, <2>4, <2>5 DEF KbdInv
<1> QED
  BY <1>4, <1>5, FlushRings

\* The thread that is served leaves the queue, and wakes the next.
LEMMA KbdDoneInv ==
  ASSUME KbdInv, NEW t \in READERS, KbdDone(t)
  PROVE  KbdInv'
<1>1. /\ kbdStep[t] = "done" /\ len' = [len EXCEPT ![t] = 0]
      /\ reqs' = RemoveAt(reqs, CHOOSE i \in DOMAIN reqs : reqs[i] = t)
      /\ reqCv' = IF reqCv = <<>> THEN reqCv ELSE Tail(reqCv)
      /\ UNCHANGED <<kh, chr, taken, erased, out>>
  BY ViewsStay DEF KbdDone
<1>2. \A u \in READERS :
        kbdStep'[u] = IF u = t THEN "none"
                      ELSE IF reqCv # <<>> /\ u = Head(reqCv) THEN "woken" ELSE kbdStep[u]
  BY DEF KbdDone
<1>3. kbdStep' \in [READERS -> KbdSteps]
  <2>1. kbdStep' = [u \in READERS |-> IF u = t THEN "none"
                    ELSE IF reqCv # <<>> /\ u = Head(reqCv) THEN "woken" ELSE kbdStep[u]]
    BY DEF KbdDone
  <2> QED
    BY <2>1 DEF KbdInv, KbdTypes, KbdSteps
<1>4. /\ reqs \in Seq(READERS) /\ reqs # <<>> /\ reqs[1] = t /\ Len(reqs) \in Nat \ {0}
      /\ \A i \in 1 .. Len(reqs) : reqs[i] = t => i = 1
  <2>1. reqs \in Seq(READERS) /\ reqs # <<>> /\ reqs[1] = t
    BY <1>1, ServedIsFirst DEF KbdInv, KbdTypes
  <2> QED
    BY <2>1 DEF KbdInv, QueueInv, Distinct
<1>5. /\ reqs' \in Seq(READERS) /\ Len(reqs') = Len(reqs) - 1
      /\ \A j \in 1 .. Len(reqs) - 1 : reqs'[j] = reqs[j + 1]
  <2>1. (CHOOSE i \in DOMAIN reqs : reqs[i] = t) = 1
    BY <1>4
  <2>2. reqs' = RemoveAt(reqs, 1) /\ 1 \in 1 .. Len(reqs)
    BY <1>1, <1>4, <2>1
  <2>3. /\ RemoveAt(reqs, 1) \in Seq(READERS) /\ Len(RemoveAt(reqs, 1)) = Len(reqs) - 1
        /\ \A j \in 1 .. Len(reqs) - 1 :
             RemoveAt(reqs, 1)[j] = IF j < 1 THEN reqs[j] ELSE reqs[j + 1]
    BY <1>4, <2>2, RemoveAtElements
  <2>4. \A j \in 1 .. Len(reqs) - 1 : ~(j < 1)
    BY <1>4
  <2> QED
    BY <2>2, <2>3, <2>4
<1>6. /\ reqCv' \in Seq(READERS)
      /\ Len(reqCv') = IF Len(reqs') = 0 THEN 0 ELSE Len(reqs') - 1
      /\ \A i \in 1 .. Len(reqCv') : reqCv'[i] = reqs'[i + 1]
      /\ Len(reqs) > 1 => reqCv # <<>> /\ Head(reqCv) = reqs[2]
  <2>1. /\ reqCv \in Seq(READERS) /\ Len(reqCv) = Len(reqs) - 1
        /\ \A i \in 1 .. Len(reqCv) : reqCv[i] = reqs[i + 1]
    BY <1>4 DEF KbdInv, KbdTypes, QueueInv
  <2>2. CASE reqCv = <<>>
    <3>1. Len(reqCv) = 0 /\ reqCv' = reqCv /\ Len(reqs) = 1
      BY <1>1, <1>4, <2>1, <2>2
    <3> QED
      BY <1>5, <2>1, <3>1
  <2>3. CASE reqCv # <<>>
    <3>1. /\ reqCv' \in Seq(READERS) /\ Len(reqCv') = Len(reqCv) - 1 /\ Head(reqCv) = reqCv[1]
          /\ \A i \in 1 .. Len(reqCv') : reqCv'[i] = reqCv[i + 1]
      BY <1>1, <2>1, <2>3, HeadTailProperties
    <3>2. Len(reqCv) >= 1 /\ Len(reqs) > 1
      BY <1>4, <2>1, <2>3
    <3>3. \A i \in 1 .. Len(reqCv') : reqCv'[i] = reqs'[i + 1]
      <4>1. ASSUME NEW i \in 1 .. Len(reqCv') PROVE reqCv'[i] = reqs'[i + 1]
        <5>1. i + 1 \in 1 .. Len(reqCv) /\ i + 1 \in 1 .. Len(reqs) - 1
          BY <1>4, <2>1, <3>1
        <5>2. reqCv'[i] = reqs[(i + 1) + 1] /\ reqs'[i + 1] = reqs[(i + 1) + 1]
          BY <1>5, <2>1, <3>1, <5>1
        <5> QED
          BY <5>2
      <4> QED
        BY <4>1
    <3>4. Head(reqCv) = reqs[2]
      BY <2>1, <3>1, <3>2
    <3>5. Len(reqCv') = IF Len(reqs') = 0 THEN 0 ELSE Len(reqs') - 1
      BY <1>4, <1>5, <2>1, <3>1, <3>2
    <3> QED
      BY <2>3, <3>1, <3>3, <3>4, <3>5
  <2> QED
    BY <2>2, <2>3
<1>7. KbdTypes'
  BY <1>1, <1>3, <1>5, <1>6 DEF KbdInv, KbdTypes
<1>8. GetcharInv'
  <2>1. ASSUME NEW u \in READERS, kbdStep'[u] \in {"scan", "nap", "key"} PROVE FALSE
    <3>1. u # t /\ kbdStep[u] \in {"scan", "nap", "key"}
      BY <1>2, <2>1
    <3> QED
      BY <1>1, <3>1, OneServed
  <2> QED
    BY <2>1 DEF GetcharInv
<1>9. OrderInv' /\ KeysInv'
  BY <1>1 DEF KbdInv, OrderInv, KeysInv, Rising, Above, UpTo
<1>10. Distinct(reqs')
  BY <1>4, <1>5 DEF KbdInv, QueueInv, Distinct
<1>11. ASSUME NEW u \in READERS, kbdStep'[u] # "none"
       PROVE  \E i \in 1 .. Len(reqs') : reqs'[i] = u
  <2>1. u # t
    BY <1>2, <1>11
  <2>2. PICK i \in 1 .. Len(reqs) : reqs[i] = u
    <3>1. CASE kbdStep[u] # "none"
      BY <3>1 DEF KbdInv, QueueInv
    <3>2. CASE kbdStep[u] = "none"
      <4>1. reqCv # <<>> /\ u = Head(reqCv)
        BY <1>2, <1>11, <2>1, <3>2
      <4>2. Len(reqs) > 1
        BY <1>4, <4>1 DEF KbdInv, KbdTypes, QueueInv
      <4>3. u = reqs[2] /\ 2 \in 1 .. Len(reqs)
        BY <1>4, <1>6, <4>1, <4>2
      <4> QED
        BY <4>3
    <3> QED
      BY <3>1, <3>2
  <2>3. i # 1 /\ i - 1 \in 1 .. Len(reqs) - 1 /\ (i - 1) + 1 = i
    BY <1>4, <2>1, <2>2
  <2>4. reqs'[i - 1] = reqs[i]
    BY <1>5, <2>3
  <2> QED
    BY <1>5, <2>2, <2>3, <2>4
<1>12. ASSUME NEW i \in 1 .. Len(reqs')
       PROVE  IF i = 1 THEN kbdStep'[reqs'[i]] \notin {"none", "asleep"}
              ELSE kbdStep'[reqs'[i]] = "asleep"
  <2>1. /\ i + 1 \in 1 .. Len(reqs) /\ i + 1 # 1 /\ reqs'[i] = reqs[i + 1]
        /\ reqs[i + 1] \in READERS /\ Len(reqs) > 1
    BY <1>4, <1>5
  <2>2. kbdStep[reqs[i + 1]] = "asleep" /\ reqs[i + 1] # t
    BY <1>4, <2>1 DEF KbdInv, QueueInv
  <2>3. reqCv # <<>> /\ Head(reqCv) = reqs[2] /\ 2 \in 1 .. Len(reqs)
    BY <1>4, <1>6, <2>1
  <2>4. reqs[i + 1] = reqs[2] => i = 1
    BY <2>1, <2>3 DEF KbdInv, QueueInv, Distinct
  <2> QED
    BY <1>2, <2>1, <2>2, <2>3, <2>4
<1>13. QueueInv'
  BY <1>6, <1>10, <1>11, <1>12 DEF QueueInv
<1> QED
  BY <1>7, <1>8, <1>9, <1>13 DEF KbdInv

LEMMA KbdNextInv == KbdInv /\ RingInv /\ [KbdNext]_kbdVars => KbdInv' /\ RingInv'
<1> SUFFICES ASSUME KbdInv, RingInv, [KbdNext]_kbdVars PROVE KbdInv' /\ RingInv'
  OBVIOUS
<1>1. ASSUME NEW kind \in {"letter", "newline", "erase"}, KbdHandler(kind)
      PROVE  KbdInv' /\ RingInv'
  BY <1>1, KbdHandlerInv, HandlerRings
<1>2. ASSUME NEW t \in READERS, NEW n \in Reads, KbdRequest(t, n) PROVE KbdInv' /\ RingInv'
  <2>1. /\ UNCHANGED <<khVars, chrVars>> /\ len' = [len EXCEPT ![t] = n]
        /\ \E l \in {"turn", "asleep"} : kbdStep' = [kbdStep EXCEPT ![t] = l]
    BY <1>2 DEF KbdRequest, KbdGoto
  <2>2. \A u \in READERS : kbdStep'[u] \in {"scan", "nap", "key", "flush"} =>
          kbdStep'[u] = kbdStep[u] /\ len'[u] = len[u]
    BY <2>1 DEF KbdInv, KbdTypes
  <2>3. RoomInv'
    BY <2>1, <2>2, ViewsStay DEF RingInv, RoomInv
  <2> QED
    BY <1>2, <2>1, <2>3, KbdRequestInv, RingTypesStay DEF RingInv
<1>3. ASSUME NEW t \in READERS, KbdWoken(t) PROVE KbdInv' /\ RingInv'
  <2>1. /\ UNCHANGED <<khVars, chrVars, len>>
        /\ \E l \in {"turn", "asleep"} : kbdStep' = [kbdStep EXCEPT ![t] = l]
    BY <1>3 DEF KbdWoken, KbdGoto
  <2>2. RoomInv'
    BY <2>1, RoomSame DEF RingInv, KbdSteps
  <2> QED
    BY <1>3, <2>1, <2>2, KbdWokenInv, RingTypesStay DEF RingInv
<1>4. ASSUME NEW t \in READERS, ScSleep(t) PROVE KbdInv' /\ RingInv'
  <2>1. /\ UNCHANGED <<khVars, chrVars, len>> /\ kbdStep[t] = "nap"
        /\ kbdStep' = [kbdStep EXCEPT ![t] = "key"]
    BY <1>4 DEF ScSleep, KbdGoto
  <2>2. RoomInv'
    BY <2>1, RoomSame DEF RingInv, KbdSteps
  <2> QED
    BY <1>4, <2>1, <2>2, ScSleepInv, RingTypesStay DEF RingInv
<1>5. ASSUME NEW t \in READERS, KbdDone(t) PROVE KbdInv' /\ RingInv'
  <2>1. /\ UNCHANGED <<khVars, chrVars>> /\ len' = [len EXCEPT ![t] = 0]
        /\ kbdStep' = [u \in READERS |-> IF u = t THEN "none"
                         ELSE IF reqCv # <<>> /\ u = Head(reqCv) THEN "woken" ELSE kbdStep[u]]
    BY <1>5 DEF KbdDone
  <2>2. \A u \in READERS : kbdStep'[u] \in {"scan", "nap", "key", "flush"} =>
          kbdStep'[u] = kbdStep[u] /\ len'[u] = len[u]
    BY <2>1 DEF KbdInv, KbdTypes
  <2>3. RoomInv'
    BY <2>1, <2>2, ViewsStay DEF RingInv, RoomInv
  <2> QED
    BY <1>5, <2>1, <2>3, KbdDoneInv, RingTypesStay DEF RingInv
<1>6. ASSUME NEW t \in READERS, KbdTurn(t) \/ ScProcess(t) \/ FlushLine(t)
      PROVE  KbdInv' /\ RingInv'
  BY <1>6, KbdTurnInv, ScProcessInv, FlushLineInv, TurnRings, ScRings, FlushRings
<1>7. CASE UNCHANGED kbdVars
  <2>1. /\ UNCHANGED <<khVars, chrVars, reqs, reqCv, kbdStep, len, taken, erased, out>>
        /\ kh' = kh /\ chr' = chr /\ ChrFull' = ChrFull
    BY <1>7, ViewsStay DEF kbdVars
  <2>2. KbdInv'
    BY <2>1 DEF KbdInv, KbdTypes, QueueInv, GetcharInv, OrderInv, KeysInv, Rising, Above, UpTo
  <2> QED
    BY <2>1, <2>2, RingTypesStay DEF RingInv, RoomInv
<1> QED
  BY <1>1, <1>2, <1>3, <1>4, <1>5, <1>6, <1>7 DEF KbdNext

\* The characters that wait are those of one ring, and then the other's.
LEMMA WaitingInOrder == KbdInv => KeysInOrder
<1> SUFFICES ASSUME KbdInv PROVE KeysInOrder
  OBVIOUS
<1> DEFINE waiting == chr \o kh
<1>1. chr \in Seq(Key) /\ kh \in Seq(Key) /\ Len(chr) \in Nat /\ Len(kh) \in Nat
  BY DEF KbdInv, KbdTypes
<1>2. /\ waiting \in Seq(Key) /\ Len(waiting) = Len(chr) + Len(kh)
      /\ \A i \in 1 .. Len(chr) + Len(kh) :
           waiting[i] = IF i <= Len(chr) THEN chr[i] ELSE kh[i - Len(chr)]
  BY <1>1, ConcatProperties
<1> HIDE DEF waiting
<1>3. out.count + Len(waiting) + erased = taken
  BY <1>1, <1>2, NrTypes DEF KbdInv, KeysInv
<1>4. ASSUME NEW i \in 1 .. Len(chr) + Len(kh)
      PROVE  waiting[i].nr > IF i = 1 THEN out.last ELSE waiting[i - 1].nr
  <2>1. i \in 1 .. Len(chr) \/ (i > Len(chr) /\ i - Len(chr) \in 1 .. Len(kh))
    BY <1>1
  <2>2. CASE i = 1
    <3>1. waiting[i] = IF 1 <= Len(chr) THEN chr[1] ELSE kh[1 - Len(chr)]
      BY <1>2, <2>2
    <3>2. /\ \A j \in 1 .. Len(chr) : out.last < chr[j].nr /\ chr[j].nr \in Nat
          /\ \A j \in 1 .. Len(kh) : out.last < kh[j].nr /\ kh[j].nr \in Nat
          /\ out.last \in Nat
      BY NrTypes DEF KbdInv, OrderInv, Above
    <3>3. CASE 1 <= Len(chr)
      BY <1>1, <2>2, <3>1, <3>2, <3>3
    <3>4. CASE ~(1 <= Len(chr))
      <4>1. Len(chr) = 0 /\ 1 \in 1 .. Len(kh)
        BY <1>1, <2>1, <2>2, <3>4
      <4> QED
        BY <2>2, <3>1, <3>2, <3>4, <4>1
    <3> QED
      BY <3>3, <3>4
  <2>3. CASE i # 1 /\ i \in 1 .. Len(chr)
    <3>1. i - 1 \in 1 .. Len(chr) /\ i - 1 < i
      BY <1>1, <2>3
    <3>2. waiting[i] = chr[i] /\ waiting[i - 1] = chr[i - 1]
      BY <1>1, <1>2, <2>3, <3>1
    <3> QED
      BY <2>3, <3>1, <3>2, NrTypes DEF KbdInv, OrderInv, Rising
  <2>4. CASE i = Len(chr) + 1 /\ i # 1
    <3>1. i - 1 \in 1 .. Len(chr) /\ i - Len(chr) \in 1 .. Len(kh)
      BY <1>1, <2>1, <2>4
    <3>2. waiting[i] = kh[i - Len(chr)] /\ waiting[i - 1] = chr[i - 1]
      BY <1>1, <1>2, <2>4, <3>1
    <3> QED
      BY <2>4, <3>1, <3>2, NrTypes DEF KbdInv, OrderInv
  <2>5. CASE i > Len(chr) + 1
    <3> DEFINE j == i - Len(chr)
    <3>1. /\ j \in 1 .. Len(kh) /\ j - 1 \in 1 .. Len(kh) /\ j - 1 < j /\ i # 1
          /\ i - 1 \in 1 .. Len(chr) + Len(kh) /\ (i - 1) - Len(chr) = j - 1
          /\ ~(i <= Len(chr)) /\ ~(i - 1 <= Len(chr))
      BY <1>1, <2>1, <2>5
    <3>2. waiting[i] = kh[j] /\ waiting[i - 1] = kh[j - 1]
      BY <1>2, <3>1
    <3> HIDE DEF j
    <3> QED
      BY <3>1, <3>2, NrTypes DEF KbdInv, OrderInv, Rising
  <2> QED
    BY <1>1, <2>1, <2>2, <2>3, <2>4, <2>5
<1>5. DOMAIN waiting = 1 .. Len(chr) + Len(kh)
  BY <1>2
<1>6. Increasing(waiting, out.last)
  BY <1>4, <1>5 DEF Increasing
<1>7. out.ordered
  BY DEF KbdInv, OrderInv
<1> QED
  BY <1>3, <1>6, <1>7 DEF KeysInOrder, waiting

LEMMA QueueServesOldest == KbdInv => OldestReads
<1> SUFFICES ASSUME KbdInv PROVE OldestReads
  OBVIOUS
<1>1. \A t \in READERS : kbdStep[t] \in {"turn", "scan", "nap", "key", "flush", "done"} =>
        reqs # <<>> /\ t = reqs[1]
  BY ServedIsFirst
<1>2. reqs # <<>> => Head(reqs) = reqs[1] /\ kbdStep[reqs[1]] # "asleep"
  BY DEF KbdInv, KbdTypes, QueueInv
<1> QED
  BY <1>1, <1>2 DEF OldestReads

\* Readers take their turns in the order of their requests, and every key that
\* the interrupt handler put into the ring reaches them once and in order, or
\* was erased: for any mix of getchar and readline, any size of the rings, and
\* a handler that comes between any two steps.
THEOREM KeysReachReaders == KbdSpec => []ReadsCorrect
<1>1. KbdInv => ReadsCorrect
  BY WaitingInOrder, QueueServesOldest DEF ReadsCorrect
<1>2. KbdInit => KbdInv /\ RingInv
  BY KbdInitInv
<1> QED
  BY <1>1, <1>2, KbdNextInv, PTL DEF KbdSpec
=============================================================================
