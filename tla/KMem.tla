-------------------------------- MODULE KMem --------------------------------
(***************************************************************************)
(* Address spaces: regions, page directories and tables, zero-fill on      *)
(* demand, fork's copy and exec's loading (sched.c, syscall_memory.c,      *)
(* syscall_process.c, interrupt.c).  A system call works under its         *)
(* process's mm_lock, or on a process nobody else can reach, and is one    *)
(* step; a fault is one too.  The page allocator is KPages, seen through   *)
(* what it promises: a run of free frames, or failure if there is none.    *)
(***************************************************************************)
EXTENDS Integers, FiniteSetsExt, SequencesExt

CONSTANTS
  NumFrames,  \* physical frames
  NumVPages,  \* virtual pages of the user part of an address space
  PerTable,   \* entries of a page table
  PROCS,      \* processes
  NewCalls,   \* the calls of new_pages to consider: <<base, pages>>
  Layouts,    \* programs: sequences of segments [start, n, rw]
  None

Frames == 0 .. NumFrames - 1
VPages == 0 .. NumVPages - 1
Tables == 0 .. (NumVPages - 1) \div PerTable

VARIABLES
  mem,    \* the frames in use, and what each holds: "zero", "file", what its
          \* owner wrote ("own"), or what an earlier owner left ("old")
  space,  \* space[p]: cr3, pd (tables' frames), pte, regions; or None
  undone  \* history: a new_pages found no frame for a page table half-way

memVars == <<mem, space, undone>>

NoPte == [frame |-> None, present |-> FALSE, rw |-> FALSE]

-----------------------------------------------------------------------------
(* m is a record [used, data]; s an address space; alloc_user_pages takes    *)
(* the lowest run.                                                           *)

Run(base, n)   == base .. base + n - 1
Runs(m, n)     == {b \in 0 .. NumFrames - n : Run(b, n) \cap m.used = {}}
Take(m, b, n)  == [m EXCEPT !.used = @ \cup Run(b, n)]
Give(m, fs)    == [used |-> m.used \ fs,
                   data |-> [f \in Frames |-> IF f \in fs THEN "old" ELSE m.data[f]]]
Fill(m, f, d)  == [m EXCEPT !.data[f] = d]
TableOf(v)     == v \div PerTable

\* add_region's check: the new region is in the address space and meets no other.
RegionOk(s, start, n) ==
  /\ start + n <= NumVPages
  /\ \A r \in Range(s.regions) : start + n <= r.addr \/ r.addr + r.n <= start

\* find_or_create_pt in the order of the pages: the tables that own still needs,
\* each in the lowest frame left, as far as the frames reach.
Rank(x, S)         == Cardinality({y \in S : y < x})
Needed(s, own)     == {t \in {TableOf(v) : v \in own} : s.pd[t] = None}
NewTables(left, T) == [t \in {u \in T : Rank(u, T) < Cardinality(left)} |->
                         CHOOSE f \in left : Rank(f, left) = Rank(t, T)]

\* What load_segment, new_pages and copy_region share: frames, region, tables, and
\* an entry per page; the pages in the domain of fill are present at once, and filled.
\* If a table cannot be had, region and frames are given back; tables and entries stay.
MapRegion(m, s, start, n, rw, fill) ==
  LET b   == Min(Runs(m, n))
      own == Run(start, n)
      T   == Needed(s, own)
      new == NewTables(Frames \ (m.used \cup Run(b, n)), T)
      ok  == DOMAIN new = T
      entered == {v \in own : \A t \in T \ DOMAIN new : v < t * PerTable}
      page(f) == start + (f - b)
  IN  IF Runs(m, n) = {} \/ ~RegionOk(s, start, n) THEN [ok |-> FALSE, m |-> m, s |-> s]
      ELSE [ok |-> ok,
            m |-> [used |-> m.used \cup Range(new) \cup (IF ok THEN Run(b, n) ELSE {}),
                   data |-> [f \in Frames |-> IF ok /\ page(f) \in DOMAIN fill THEN fill[page(f)]
                                              ELSE m.data[f]]],
            s |-> [s EXCEPT
              !.pd  = [t \in Tables |-> IF t \in DOMAIN new THEN new[t] ELSE @[t]],
              !.pte = [v \in VPages |-> IF v \notin entered THEN @[v]
                        ELSE [frame |-> b + (v - start), present |-> v \in DOMAIN fill, rw |-> rw]],
              !.regions = IF ok
                THEN Append(@, [addr |-> start, n |-> n, base |-> b, rw |-> rw]) ELSE @]]

\* load_segment: the file is read through the new pages, which are writable
\* meanwhile.  A segment without a file stays zero-fill on demand.
LoadSegment(st, g) ==
  MapRegion(st.m, st.s, g.start, g.n, g.rw,
            [v \in IF g.file THEN Run(g.start, g.n) ELSE {} |-> "file"])

\* create_empty_process's page directory.
EmptySpace(m) ==
  IF Runs(m, 1) = {} THEN [ok |-> FALSE, m |-> m, s |-> None]
  ELSE LET f == Min(Runs(m, 1))
       IN  [ok |-> TRUE, m |-> Take(m, f, 1),
            s |-> [cr3 |-> f, pd |-> [t \in Tables |-> None],
                   pte |-> [v \in VPages |-> NoPte], regions |-> <<>>]]

FramesOf(s) == UNION {Run(r.base, r.n) : r \in Range(s.regions)}

\* destroy_thread, and destroy_pd: regions, tables and directory go back.
Destroy(m, s) == Give(m, FramesOf(s) \cup ({s.pd[t] : t \in Tables} \ {None}) \cup {s.cr3})

\* create_process: the program's segments in a new address space, or nothing.
Load(m, layout) ==
  LET build[i \in 0 .. Len(layout)] ==
        IF i = 0 THEN EmptySpace(m)
        ELSE IF build[i - 1].ok THEN LoadSegment(build[i - 1], layout[i]) ELSE build[i - 1]
      e == build[Len(layout)]
  IN  IF e.ok \/ e.s = None THEN e ELSE [e EXCEPT !.m = Destroy(e.m, e.s)]
-----------------------------------------------------------------------------
MemInit ==
  \E p \in PROCS, l \in Layouts :
    LET e == Load([used |-> {}, data |-> [f \in Frames |-> "old"]], l)
    IN  /\ e.ok /\ undone = FALSE
        /\ mem = e.m
        /\ space = [q \in PROCS |-> IF q = p THEN e.s ELSE None]

Alive(p) == space[p] # None

NewPages(p, base, n) ==
  LET e == MapRegion(mem, space[p], base, n, TRUE, << >>)
  IN  /\ Alive(p)
      /\ mem' = e.m /\ space' = [space EXCEPT ![p] = e.s]
      /\ undone' = (undone \/ (~e.ok /\ e.s.pte # space[p].pte))

\* Mutant: the entries of a removed region stay.
RemovePagesLazy(p, i) ==
  LET r == space[p].regions[i]
  IN  /\ mem' = Give(mem, Run(r.base, r.n))
      /\ space' = [space EXCEPT ![p].regions = RemoveAt(@, i)]
      /\ UNCHANGED undone

RemovePages(p, i) ==
  LET r == space[p].regions[i]
  IN  /\ mem' = Give(mem, Run(r.base, r.n))
      /\ space' = [space EXCEPT
           ![p].pte = [v \in VPages |-> IF v \in Run(r.addr, r.n) THEN NoPte ELSE @[v]],
           ![p].regions = RemoveAt(@, i)]
      /\ UNCHANGED undone

\* Mutant: the page is made present as it is.
HandleZfodDirty(p, v) ==
  /\ Alive(p) /\ space[p].pte[v].frame # None /\ ~space[p].pte[v].present
  /\ space' = [space EXCEPT ![p].pte[v].present = TRUE]
  /\ UNCHANGED <<mem, undone>>

HandleZfod(p, v) ==
  /\ Alive(p) /\ space[p].pte[v].frame # None /\ ~space[p].pte[v].present
  /\ space' = [space EXCEPT ![p].pte[v].present = TRUE]
  /\ mem' = Fill(mem, space[p].pte[v].frame, "zero")
  /\ UNCHANGED undone

\* The program stores into a page it may write.
UserWrite(p, v) ==
  /\ Alive(p) /\ space[p].pte[v].present /\ space[p].pte[v].rw
  /\ mem' = Fill(mem, space[p].pte[v].frame, "own")
  /\ UNCHANGED <<space, undone>>

\* What a read of a mapped page gives; it faults first if it is not present.
Content(m, s, v) == IF s.pte[v].present THEN m.data[s.pte[v].frame] ELSE "zero"

\* Mutant: every page counts as never accessed.
SeenNever(s, r, v) == FALSE

\* copy_region looks a page up in the table of the region's first page.
SeenPresent(s, r, v) == s.pte[(TableOf(r.addr) * PerTable) + (v % PerTable)].present

CopyRegion(st, s, r) ==
  MapRegion(st.m, st.s, r.addr, r.n, r.rw,
            [v \in {w \in Run(r.addr, r.n) : SeenPresent(s, r, w)} |-> Content(st.m, s, v)])

CopyAll(m, s) ==
  LET copy[i \in 0 .. Len(s.regions)] ==
        IF i = 0 THEN EmptySpace(m)
        ELSE IF copy[i - 1].ok THEN CopyRegion(copy[i - 1], s, s.regions[i])
        ELSE copy[i - 1]
      e == copy[Len(s.regions)]
  IN  IF e.ok \/ e.s = None THEN e ELSE [e EXCEPT !.m = Destroy(e.m, e.s)]

\* A fork that fails gives everything back.  To copy a page that is not there
\* after all, the kernel faults on it, in the parent.
Fork(p, q) ==
  LET e == CopyAll(mem, space[p])
      faulted == {v \in VPages : ~space[p].pte[v].present
                    /\ \E r \in Range(space[p].regions) :
                         v \in Run(r.addr, r.n) /\ SeenPresent(space[p], r, v)}
  IN  /\ Alive(p) /\ ~Alive(q) /\ e.ok
      /\ mem' = [e.m EXCEPT !.data = [f \in Frames |->
                  IF \E v \in faulted : space[p].pte[v].frame = f THEN "zero" ELSE @[f]]]
      /\ space' = [space EXCEPT
           ![q] = e.s,
           ![p].pte = [v \in VPages |-> IF v \in faulted THEN [@[v] EXCEPT !.present = TRUE]
                                        ELSE @[v]]]
      /\ UNCHANGED undone

Exec(p, l) ==
  LET e == Load(mem, l)
  IN  /\ Alive(p) /\ e.ok
      /\ mem' = Destroy(e.m, space[p]) /\ space' = [space EXCEPT ![p] = e.s]
      /\ UNCHANGED undone

Reclaim(p) ==
  /\ Alive(p)
  /\ mem' = Destroy(mem, space[p]) /\ space' = [space EXCEPT ![p] = None]
  /\ UNCHANGED undone

MemNext == ~undone /\ \E p \in PROCS :
  \/ \E v \in VPages : HandleZfod(p, v) \/ UserWrite(p, v)
  \/ \E c \in NewCalls : NewPages(p, c[1], c[2])
  \/ Alive(p) /\ \E i \in DOMAIN space[p].regions : RemovePages(p, i)
  \/ \E q \in PROCS : Fork(p, q)
  \/ \E l \in Layouts : Exec(p, l)
  \/ Reclaim(p)

\* A half-way failure is not followed further: what its stale entries lead to
\* is undefined.
MemSpec == MemInit /\ [][MemNext]_memVars
-----------------------------------------------------------------------------
(* Properties *)

OwnFrames(s) == FramesOf(s) \cup ({s.pd[t] : t \in Tables} \ {None}) \cup {s.cr3}

\* Every frame in use has one owner and one use: nothing is lost by a failing
\* call, and nothing is given back that somebody still holds.
FramesPartition ==
  LET alive == {p \in PROCS : Alive(p)}
  IN  /\ mem.used = UNION {OwnFrames(space[p]) : p \in alive}
      /\ \A p, q \in alive : p # q => OwnFrames(space[p]) \cap OwnFrames(space[q]) = {}
      /\ \A p \in alive :
           Cardinality(OwnFrames(space[p])) =
             1 + Cardinality({t \in Tables : space[p].pd[t] # None})
               + MapThenSumSet(LAMBDA r : r.n, Range(space[p].regions))

\* Unless a new_pages failed half-way, a page of a process is its region's, with
\* the region's rights, and what it can read there is not what an earlier owner
\* of the frame left.
OwnPages ==
  ~undone => \A p \in PROCS : Alive(p) => \A v \in VPages :
    LET e == space[p].pte[v]
        in == {r \in Range(space[p].regions) : v \in Run(r.addr, r.n)}
    IN  /\ e.frame = None <=> in = {}
        /\ \A r \in in : e.frame = r.base + (v - r.addr) /\ e.rw = r.rw
        /\ e.present => mem.data[e.frame] # "old"

OneTable(s) == \A r \in Range(s.regions) : TableOf(r.addr) = TableOf(r.addr + r.n - 1)

ReadsAs(p, q) == \A v \in VPages :
  /\ (space[p].pte[v].frame = None) <=> (space'[q].pte[v].frame = None)
  /\ Content(mem, space[p], v) = Content(mem', space'[q], v)
Created(q) == ~Alive(q) /\ space'[q] # None

\* After fork the child reads in every page what its parent reads, if no region
\* of the parent reaches into a second page table.
ForkCopies ==
  [][\A q \in PROCS : Created(q) =>
       \E p \in PROCS \ {q} : Alive(p) /\ (OneTable(space[p]) /\ ~undone => ReadsAs(p, q))]_memVars

\* The same whatever the regions: a page of the source that waits for its first
\* access waits in the copy too, the others are copied (syscall_process.c 139-165).
ForkCopiesAll ==
  [][\A q \in PROCS : Created(q) =>
       \E p \in PROCS \ {q} : Alive(p) /\ (~undone => ReadsAs(p, q))]_memVars
=============================================================================
