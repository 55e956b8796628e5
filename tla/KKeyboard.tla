----------------------------- MODULE KKeyboard -----------------------------
(***************************************************************************)
(* The keyboard side of a console (pts.c): the interrupt handler fills a   *)
(* ring of keys; getchar and readline turn keys into characters and lines, *)
(* one thread at a time in the order of their requests.  What a thread     *)
(* does under kbd_request_lock is one step; the handler takes no lock and  *)
(* runs between any two steps.  The rings are the arrays of the code with  *)
(* their two positions; kh and chr are what is in them.                    *)
(***************************************************************************)
EXTENDS Integers, Sequences, SequencesExt, FiniteSetsExt

CONSTANTS
  READERS,    \* threads of the console
  RingSize,   \* KH_RING_SIZE and CHR_RING_SIZE
  Reads,      \* the calls to consider: 0 for getchar, or readline's length
  MaxKeys     \* bound of the keys taken

ASSUME KbdAssumption ==
  RingSize \in Nat /\ RingSize > 1 /\ Reads \subseteq Nat

VARIABLES
  kh_ring, kh_r_pos, kh_w_pos,     \* the ring of keys: cells of [kind, nr]
  chr_ring, chr_r_pos, chr_w_pos,  \* the ring of characters
  reqs,     \* the queue of requests, and who sleeps on its condition variable
  reqCv,
  kbdStep,  \* kbdStep[t]: none, asleep, woken, turn, scan, nap, key, flush, done
  len,      \* len[t]: the call
  taken,    \* history: keys taken into the ring; nr counts them
  erased,   \* those of them that took back a character, or were taken back
  out       \* the characters returned so far: how many, the last one's nr, and
            \* did each come after the one before?

khVars  == <<kh_ring, kh_r_pos, kh_w_pos>>
chrVars == <<chr_ring, chr_r_pos, chr_w_pos>>
kbdVars == <<khVars, chrVars, reqs, reqCv, kbdStep, len, taken, erased, out>>

\* The cells of a ring, the one after cell i, and what is in them from r up to w.
Cells      == 0 .. RingSize - 1
NextPos(i) == (i + 1) % RingSize

Content(ring, r, w) == [i \in 1 .. (w - r) % RingSize |-> ring[(r + i - 1) % RingSize]]

kh  == Content(kh_ring, kh_r_pos, kh_w_pos)
chr == Content(chr_ring, chr_r_pos, chr_w_pos)

ChrFull       == chr_r_pos = NextPos(chr_w_pos)
Newlines      == {i \in DOMAIN chr : chr[i].kind = "newline"}
KbdGoto(t, s) == kbdStep' = [kbdStep EXCEPT ![t] = s]

Increasing(s, from) == \A i \in DOMAIN s : s[i].nr > IF i = 1 THEN from ELSE s[i - 1].nr

Returned(s) ==
  IF s = <<>> THEN out
  ELSE [count |-> out.count + Len(s), last |-> Last(s).nr,
        ordered |-> out.ordered /\ Increasing(s, out.last)]

-----------------------------------------------------------------------------
KbdInit ==
  /\ kh_ring = [i \in Cells |-> [kind |-> "letter", nr |-> 0]] /\ chr_ring = kh_ring
  /\ kh_r_pos = 0 /\ kh_w_pos = 0 /\ chr_r_pos = 0 /\ chr_w_pos = 0
  /\ reqs = <<>> /\ reqCv = <<>>
  /\ kbdStep = [t \in READERS |-> "none"] /\ len = [t \in READERS |-> 0]
  /\ taken = 0 /\ erased = 0 /\ out = [count |-> 0, last |-> 0, ordered |-> TRUE]

KeyStored(kind) ==
  /\ kh_ring' = [kh_ring EXCEPT ![kh_w_pos] = [kind |-> kind, nr |-> taken + 1]]
  /\ kh_w_pos' = NextPos(kh_w_pos) /\ taken' = taken + 1

\* Mutant: a full ring is not noticed, and one more key makes it look empty.
KbdHandlerWrap(kind) ==
  /\ taken < MaxKeys
  /\ KeyStored(kind)
  /\ \/ /\ \E t \in READERS : kbdStep[t] = "key" /\ KbdGoto(t, "scan")
     \/ (\A t \in READERS : kbdStep[t] # "key") /\ UNCHANGED kbdStep
  /\ UNCHANGED <<kh_r_pos, chrVars, reqs, reqCv, len, erased, out>>

\* kbd_handler_real: a key that finds the ring full is lost; cv_signal wakes the
\* thread that sleeps in sc_process.
KbdHandler(kind) ==
  /\ taken < MaxKeys
  /\ IF NextPos(kh_w_pos) = kh_r_pos THEN UNCHANGED <<kh_ring, kh_w_pos, taken>>
     ELSE KeyStored(kind)
  /\ \/ /\ \E t \in READERS : kbdStep[t] = "key" /\ KbdGoto(t, "scan")
     \/ (\A t \in READERS : kbdStep[t] # "key") /\ UNCHANGED kbdStep
  /\ UNCHANGED <<kh_r_pos, chrVars, reqs, reqCv, len, erased, out>>

\* Mutant: the newest request is served first.
KbdRequestHead(t, n) ==
  /\ kbdStep[t] = "none"
  /\ len' = [len EXCEPT ![t] = n]
  /\ reqs' = <<t>> \o reqs
  /\ KbdGoto(t, "turn")
  /\ UNCHANGED <<khVars, chrVars, reqCv, taken, erased, out>>

\* getchar or readline queues its request, and sleeps if it is not the first.
KbdRequest(t, n) ==
  /\ kbdStep[t] = "none"
  /\ len' = [len EXCEPT ![t] = n]
  /\ reqs' = Append(reqs, t)
  /\ IF reqs = <<>> THEN KbdGoto(t, "turn") /\ UNCHANGED reqCv
     ELSE KbdGoto(t, "asleep") /\ reqCv' = Append(reqCv, t)
  /\ UNCHANGED <<khVars, chrVars, taken, erased, out>>

KbdWoken(t) ==
  /\ kbdStep[t] = "woken"
  /\ IF Head(reqs) = t THEN KbdGoto(t, "turn") /\ UNCHANGED reqCv
     ELSE KbdGoto(t, "asleep") /\ reqCv' = Append(reqCv, t)
  /\ UNCHANGED <<khVars, chrVars, reqs, len, taken, erased, out>>

\* What is left of earlier input may do.
KbdTurn(t) ==
  /\ kbdStep[t] = "turn"
  /\ IF len[t] = 0 /\ chr_r_pos # chr_w_pos
     THEN /\ KbdGoto(t, "done") /\ out' = Returned(<<chr_ring[chr_r_pos]>>)
          /\ chr_r_pos' = NextPos(chr_r_pos)
     ELSE /\ KbdGoto(t, IF len[t] # 0 /\ (Newlines # {} \/ ChrFull) THEN "flush" ELSE "scan")
          /\ UNCHANGED <<out, chr_r_pos>>
  /\ UNCHANGED <<khVars, chr_ring, chr_w_pos, reqs, reqCv, len, taken, erased>>

\* The line of readline changes with a key; the screen does too.
Typed(t, k) ==
  IF k.kind = "erase"
  THEN /\ KbdGoto(t, "scan") /\ UNCHANGED <<chr_ring, out>>
       /\ IF chr_w_pos = chr_r_pos THEN erased' = erased + 1 /\ UNCHANGED chr_w_pos
          ELSE erased' = erased + 2 /\ chr_w_pos' = (chr_w_pos + RingSize - 1) % RingSize
  ELSE /\ chr_ring' = [chr_ring EXCEPT ![chr_w_pos] = k]
       /\ chr_w_pos' = NextPos(chr_w_pos)
       /\ KbdGoto(t, IF k.kind = "newline" \/ chr_r_pos = NextPos(chr_w_pos') THEN "flush" ELSE "scan")
       /\ UNCHANGED <<erased, out>>

\* sc_process finds a key, or is about to sleep: it has looked into the ring and
\* is not yet on the condition variable.
ScProcess(t) ==
  /\ kbdStep[t] = "scan"
  /\ IF kh_r_pos = kh_w_pos
     THEN KbdGoto(t, "nap") /\ UNCHANGED <<kh_r_pos, chr_ring, chr_w_pos, erased, out>>
     ELSE /\ kh_r_pos' = NextPos(kh_r_pos)
          /\ IF len[t] # 0 THEN Typed(t, kh_ring[kh_r_pos])
             ELSE /\ KbdGoto(t, "done") /\ out' = Returned(<<kh_ring[kh_r_pos]>>)
                  /\ UNCHANGED <<chr_ring, chr_w_pos, erased>>
  /\ UNCHANGED <<kh_ring, kh_w_pos, chr_r_pos, reqs, reqCv, len, taken>>

ScSleep(t) ==
  /\ kbdStep[t] = "nap" /\ KbdGoto(t, "key")
  /\ UNCHANGED <<khVars, chrVars, reqs, reqCv, len, taken, erased, out>>

\* The end of the first line, as far as n characters reach.
Line(n) == Min(Newlines \cup {Len(chr), n})

Part(from, size) == [i \in 1 .. size |-> chr_ring[from + i - 1]]

\* Mutant: the two halves of a line that wraps are copied in the wrong order.
CopiedSwapped(size, end) ==
  IF end > chr_r_pos THEN Part(chr_r_pos, size)
  ELSE Part(0, end) \o Part(chr_r_pos, RingSize - chr_r_pos)

\* What is copied, up to the position end: in two parts if the line wraps.
Copied(size, end) ==
  IF end > chr_r_pos THEN Part(chr_r_pos, size)
  ELSE Part(chr_r_pos, RingSize - chr_r_pos) \o Part(0, end)

\* The copy to the user may fail; then the characters stay.
FlushLine(t) ==
  /\ kbdStep[t] = "flush" /\ KbdGoto(t, "done")
  /\ LET size == Line(len[t])
         end  == (chr_r_pos + size) % RingSize
     IN  \/ out' = Returned(Copied(size, end)) /\ chr_r_pos' = end
         \/ UNCHANGED <<out, chr_r_pos>>
  /\ UNCHANGED <<khVars, chr_ring, chr_w_pos, reqs, reqCv, len, taken, erased>>

\* The request leaves the queue and one sleeper is signaled.
KbdDone(t) ==
  /\ kbdStep[t] = "done"
  /\ reqs' = RemoveAt(reqs, CHOOSE i \in DOMAIN reqs : reqs[i] = t)
  /\ reqCv' = IF reqCv = <<>> THEN reqCv ELSE Tail(reqCv)
  /\ kbdStep' = [u \in READERS |-> IF u = t THEN "none"
                ELSE IF reqCv # <<>> /\ u = Head(reqCv) THEN "woken" ELSE kbdStep[u]]
  /\ len' = [len EXCEPT ![t] = 0]
  /\ UNCHANGED <<khVars, chrVars, taken, erased, out>>

KbdNext ==
  \/ \E kind \in {"letter", "newline", "erase"} : KbdHandler(kind)
  \/ \E t \in READERS :
       \/ \E n \in Reads : KbdRequest(t, n)
       \/ KbdWoken(t) \/ KbdTurn(t) \/ ScProcess(t) \/ ScSleep(t) \/ FlushLine(t)
       \/ KbdDone(t)

KbdSpec == KbdInit /\ [][KbdNext]_kbdVars
-----------------------------------------------------------------------------
(* Properties *)

\* Every key taken is returned once, in the order of typing, whatever the mix of
\* readers and calls, or is one of those an erasing key took back.
KeysInOrder ==
  LET waiting == chr \o kh
  IN  /\ out.count + Len(waiting) + erased = taken
      /\ out.ordered /\ Increasing(waiting, out.last)

\* One thread reads at a time, the one whose request is the oldest, and it is
\* not left asleep among the others.
OldestReads ==
  /\ \A t \in READERS : kbdStep[t] \in {"turn", "scan", "nap", "key", "flush", "done"} =>
       reqs # <<>> /\ t = Head(reqs)
  /\ reqs # <<>> => kbdStep[Head(reqs)] # "asleep"

\* Readers take their turns in order, and no key is lost, doubled or reordered
\* between the interrupt handler and them.
ReadsCorrect == KeysInOrder /\ OldestReads
=============================================================================
