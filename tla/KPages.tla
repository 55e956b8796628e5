------------------------------- MODULE KPages -------------------------------
(***************************************************************************)
(* The physical page allocator (mm.c): the bitmap, the bins of free        *)
(* chunks, and the head and foot that a free chunk keeps in its own first  *)
(* and last page.  Every operation runs under the allocator's mm_lock and  *)
(* is one step.                                                            *)
(***************************************************************************)
EXTENDS Integers, SequencesExt

CONSTANTS
  NumPages,  \* num_user_pages
  NumBins    \* NUM_BINS

ASSUME PageAssumption == NumPages \in Nat \ {0} /\ NumBins \in Nat \ {0}

Pages == 0 .. NumPages - 1
Sizes == 1 .. NumPages
Bins  == 0 .. NumBins - 1

VARIABLES
  mm,     \* inuse (the bitmap), bins, and the head and foot in every page (0: other data)
  chunks  \* those handed out: first page and size

pageVars == <<mm, chunks>>

-----------------------------------------------------------------------------
FindBin(size) == Max({i \in Bins : 2 ^ i <= size})

\* bin_insert puts the chunk in front; the circular list is a sequence.
AddToBins(m, pn, size) ==
  [m EXCEPT !.inuse = [@ EXCEPT ![pn] = FALSE, ![pn + size - 1] = FALSE],
            !.bins[FindBin(size)] = <<pn>> \o @,
            !.head[pn] = size,
            !.foot[pn + size - 1] = size]

PlaceIn(bin, pn) == CHOOSE i \in DOMAIN bin : bin[i] = pn

RemoveFromBins(m, pn) ==
  [m EXCEPT !.bins[FindBin(m.head[pn])] = RemoveAt(@, PlaceIn(@, pn))]

Fits(m, b, size) == {i \in DOMAIN m.bins[b] : m.head[m.bins[b][i]] >= size}

\* Mutant: the last page of the chunk handed out is not marked.
AllocFromBinHead(m, b, size) ==
  LET pn == m.bins[b][Min(Fits(m, b, size))]
      rest == [m EXCEPT !.bins[b] = RemoveAt(@, Min(Fits(m, b, size)))]
      cut == IF m.head[pn] = size THEN rest
             ELSE AddToBins(rest, pn + size, m.head[pn] - size)
  IN  [pn |-> pn, mm |-> [cut EXCEPT !.inuse = [@ EXCEPT ![pn] = TRUE]]]

\* The first chunk of the bin that is large enough, less what is too much.
AllocFromBin(m, b, size) ==
  LET pn == m.bins[b][Min(Fits(m, b, size))]
      rest == [m EXCEPT !.bins[b] = RemoveAt(@, Min(Fits(m, b, size)))]
      cut == IF m.head[pn] = size THEN rest
             ELSE AddToBins(rest, pn + size, m.head[pn] - size)
  IN  [pn |-> pn,
       mm |-> [cut EXCEPT !.inuse = [@ EXCEPT ![pn] = TRUE, ![pn + size - 1] = TRUE]]]

\* The bins alloc_user_pages can take size pages from.
UsableBins(m, size) == {b \in Bins : b >= FindBin(size) /\ Fits(m, b, size) # {}}

\* The owner of a chunk writes what it likes into its pages.
Scribble(m, pn, size) ==
  LET own == pn .. pn + size - 1
  IN  [m EXCEPT !.head = [p \in Pages |-> IF p \in own THEN 0 ELSE @[p]],
                !.foot = [p \in Pages |-> IF p \in own THEN 0 ELSE @[p]]]

-----------------------------------------------------------------------------
PageInit ==
  /\ mm = AddToBins([inuse |-> [p \in -1 .. NumPages |-> p \notin Pages],
                     bins |-> [b \in Bins |-> <<>>],
                     head |-> [p \in Pages |-> 0], foot |-> [p \in Pages |-> 0]],
                    0, NumPages)
  /\ chunks = {}

AllocUserPages(size) ==
  /\ UsableBins(mm, size) # {}
  /\ LET r == AllocFromBin(mm, Min(UsableBins(mm, size)), size)
     IN  mm' = Scribble(r.mm, r.pn, size) /\ chunks' = chunks \cup {<<r.pn, size>>}

\* Mutant: a chunk is not merged with the free one after it.
MergeNextNever(m, pn, size) == [mm |-> m, size |-> size]

MergeNext(m, pn, size) ==
  LET next == pn + size
  IN  IF m.inuse[next] THEN [mm |-> m, size |-> size]
      ELSE [mm |-> RemoveFromBins(m, next), size |-> size + m.head[next]]

FreeUserPages(c) ==
  LET pn == c[1]
      before == IF mm.inuse[pn - 1] THEN 0 ELSE mm.foot[pn - 1]
      m == IF before = 0 THEN mm ELSE RemoveFromBins(mm, pn - before)
      r == MergeNext(m, pn, c[2])
  IN  /\ c \in chunks
      /\ chunks' = chunks \ {c}
      /\ mm' = AddToBins(r.mm, pn - before, r.size + before)

PageNext == \/ \E size \in Sizes : AllocUserPages(size)
            \/ \E c \in chunks : FreeUserPages(c)

PageSpec == PageInit /\ [][PageNext]_pageVars
-----------------------------------------------------------------------------
(* Properties *)

FreeChunks == {<<pn, mm.head[pn]>> : pn \in UNION {Range(mm.bins[b]) : b \in Bins}}

\* Every page belongs to exactly one chunk, handed out or free; a free chunk is
\* once in the bin of its size, and the bits and sizes its neighbours look at
\* when they are freed are its own.
PagesPartition ==
  /\ \A p \in Pages :
       Cardinality({c \in chunks \cup FreeChunks : p \in c[1] .. c[1] + c[2] - 1}) = 1
  /\ \A b \in Bins : IsInjective(mm.bins[b])
                     /\ \A pn \in Range(mm.bins[b]) : b = FindBin(mm.head[pn])
  /\ \A c \in FreeChunks : mm.foot[c[1] + c[2] - 1] = c[2]
  /\ \A c \in chunks \cup FreeChunks : \A p \in {c[1], c[1] + c[2] - 1} :
       mm.inuse[p] = (c \in chunks)

\* alloc_user_pages fails only when no run of that many pages is free: freed
\* chunks are merged with their neighbours and the bins hide no chunk.
FailsOnlyWhenFull ==
  \A size \in Sizes : UsableBins(mm, size) = {} =>
    \A pn \in 0 .. NumPages - size :
      \E c \in chunks : pn <= c[1] + c[2] - 1 /\ c[1] <= pn + size - 1

\* No page is lost or doubled, and what is free can be had.
PagesCorrect == PagesPartition /\ FailsOnlyWhenFull
=============================================================================
