------------------------------- MODULE KTree -------------------------------
(***************************************************************************)
(* The red-black tree of threads (common.c; rb_tcb.c of the user library   *)
(* is the same algorithm).  A node is its key.  Insertion and deletion are *)
(* one step each, and so is every turn of their fix-up loops; all of them  *)
(* run under threads_lock.                                                 *)
(***************************************************************************)
EXTENDS Naturals, FiniteSets

CONSTANT MaxKey  \* bound of the keys (identifiers)

Keys  == 1 .. MaxKey
nil   == 0                \* rb_nil
Nodes == Keys \cup {nil}
Sides == {"left", "right"}

Other(s) == IF s = "left" THEN "right" ELSE "left"

VARIABLES
  tree,   \* root, and the fields of the nodes: kid (left and right), parent, color
  stored, \* the keys of the inserted nodes
  fix,    \* none, insert or delete: the loop that is running
  node    \* its node

treeVars == <<tree, stored, fix, node>>

EmptyTree ==
  [root |-> nil, kid |-> [s \in Sides |-> [n \in Nodes |-> nil]],
   parent |-> [n \in Nodes |-> nil], color |-> [n \in Nodes |-> "BLACK"]]

TreeInit == tree = EmptyTree /\ stored = {} /\ fix = "none" /\ node = nil

-----------------------------------------------------------------------------
SideOf(t, n) == IF n = t.kid["left"][t.parent[n]] THEN "left" ELSE "right"

\* The link to n, from its parent or from the root, now leads to m.
Relink(t, n, m) ==
  IF t.parent[n] = nil THEN [t EXCEPT !.root = m]
  ELSE [t EXCEPT !.kid[SideOf(t, n)][t.parent[n]] = m]

\* rb_rotate_left and rb_rotate_right: n goes down on side s.
Rotate(t, s, n) ==
  LET c == t.kid[Other(s)][n]
      g == t.kid[s][c]
      u == [Relink(t, n, c) EXCEPT !.kid[Other(s)][n] = g, !.kid[s][c] = n]
  IN  [u EXCEPT !.parent = [m \in Nodes |-> CASE m = c -> t.parent[n]
                                              [] m = n -> c
                                              [] m = g /\ g # nil -> n
                                              [] OTHER -> t.parent[m]]]

\* rb_transplant: m takes n's place; m may be rb_nil, whose parent is set too.
Transplant(t, n, m) == [Relink(t, n, m) EXCEPT !.parent[m] = t.parent[n]]

\* The node below which key k belongs.
RbParent(t, k) ==
  LET down[n \in Nodes] ==
        LET m == t.kid[IF k > n THEN "right" ELSE "left"][n]
        IN  IF m = nil THEN n ELSE down[m]
  IN  IF t.root = nil THEN nil ELSE down[t.root]

RbFind(t, k) ==
  LET find[n \in Nodes] ==
        IF n = nil \/ n = k THEN n
        ELSE find[t.kid[IF k > n THEN "right" ELSE "left"][n]]
  IN  find[t.root]

RbMin(t, n) ==
  LET down[m \in Nodes] ==
        IF t.kid["left"][m] = nil THEN m ELSE down[t.kid["left"][m]]
  IN  down[n]

RbNext(t, n) ==
  LET up[m \in Nodes] ==
        LET p == t.parent[m]
        IN  IF p # nil /\ m = t.kid["right"][p] THEN up[p] ELSE p
  IN  IF t.kid["right"][n] # nil THEN RbMin(t, t.kid["right"][n]) ELSE up[n]

-----------------------------------------------------------------------------
RbInsert(k) ==
  LET p == RbParent(tree, k)
      s == IF k > p THEN "right" ELSE "left"
      t == IF p = nil THEN [tree EXCEPT !.root = k]
           ELSE [tree EXCEPT !.kid[s][p] = k]
  IN  /\ fix = "none" /\ k \notin stored
      /\ tree' = [t EXCEPT !.parent[k] = p, !.color[k] = "RED",
                           !.kid["left"][k] = nil, !.kid["right"][k] = nil]
      /\ stored' = stored \cup {k}
      /\ fix' = "insert" /\ node' = k

\* Mutant: the grandparent keeps its colour.
RecolorTwo(t, p, u, g) == [t EXCEPT !.color[p] = "BLACK", !.color[u] = "BLACK"]

\* A red uncle: the red moves up to the grandparent.
Recolor(t, p, u, g) ==
  [t EXCEPT !.color[p] = "BLACK", !.color[u] = "BLACK", !.color[g] = "RED"]

\* One turn of rb_fixup at node n, whose parent is red.
FixupTurn(t, n) ==
  LET p == t.parent[n]
      g == t.parent[p]
      s == SideOf(t, p)
      u == t.kid[Other(s)][g]
      inner == n = t.kid[Other(s)][p]
      in == IF inner THEN Rotate(t, s, p) ELSE t
      m == IF inner THEN p ELSE n
  IN  IF t.color[u] = "RED"
      THEN [tree |-> Recolor(t, p, u, g), node |-> g]
      ELSE [tree |-> Rotate([in EXCEPT !.color[in.parent[m]] = "BLACK", !.color[g] = "RED"],
                            Other(s), g),
            node |-> m]

RbFixup ==
  /\ fix = "insert"
  /\ IF tree.color[tree.parent[node]] = "RED"
     THEN LET r == FixupTurn(tree, node)
          IN  tree' = r.tree /\ node' = r.node /\ UNCHANGED fix
     ELSE /\ tree' = [tree EXCEPT !.color[tree.root] = "BLACK"]
          /\ fix' = "none" /\ node' = nil
  /\ UNCHANGED stored

\* Mutant: the subtree y takes over still calls n its parent.
SpliceOrphan(t, n, y, x) ==
  LET a == IF t.parent[y] = n THEN [t EXCEPT !.parent[x] = y]
           ELSE [Transplant(t, y, x) EXCEPT !.kid["right"][y] = t.kid["right"][n]]
  IN  [Transplant(a, n, y) EXCEPT !.kid["left"][y] = t.kid["left"][n],
                                  !.parent[t.kid["left"][n]] = y,
                                  !.color[y] = t.color[n]]

\* y, the successor of n, leaves its place to its right child x and takes n's.
Splice(t, n, y, x) ==
  LET a == IF t.parent[y] = n THEN [t EXCEPT !.parent[x] = y]
           ELSE [Transplant(t, y, x) EXCEPT !.kid["right"][y] = t.kid["right"][n],
                                            !.parent[t.kid["right"][n]] = y]
  IN  [Transplant(a, n, y) EXCEPT !.kid["left"][y] = t.kid["left"][n],
                                  !.parent[t.kid["left"][n]] = y,
                                  !.color[y] = t.color[n]]

\* The deleted node's own fields mean nothing any more.
Forget(t, n) ==
  [t EXCEPT !.parent[n] = nil, !.color[n] = "BLACK",
            !.kid["left"][n] = nil, !.kid["right"][n] = nil]

RbDelete(n) ==
  LET two == tree.kid["left"][n] # nil /\ tree.kid["right"][n] # nil
      y == IF two THEN RbMin(tree, tree.kid["right"][n]) ELSE n
      x == IF ~two /\ tree.kid["left"][n] # nil THEN tree.kid["left"][n]
           ELSE tree.kid["right"][y]
  IN  /\ fix = "none" /\ n \in stored
      /\ tree' = Forget(IF two THEN Splice(tree, n, y, x) ELSE Transplant(tree, n, x), n)
      /\ stored' = stored \ {n}
      /\ IF tree.color[y] = "BLACK" THEN fix' = "delete" /\ node' = x
         ELSE UNCHANGED <<fix, node>>

\* The sibling of n, made black by a rotation if it was red.
BlackSibling(t, n) ==
  LET p == t.parent[n]
      s == SideOf(t, n)
      r == t.kid[Other(s)][p]
  IN  IF t.color[r] = "BLACK" THEN t
      ELSE Rotate([t EXCEPT !.color[r] = "BLACK", !.color[p] = "RED"], s, p)

\* The last case: a red nephew, turned outward if need be, ends the loop.
RedNephew(t, n) ==
  LET p == t.parent[n]
      s == SideOf(t, n)
      o == Other(s)
      r == t.kid[o][p]
      out == IF t.color[t.kid[o][r]] = "RED" THEN t
             ELSE Rotate([t EXCEPT !.color[t.kid[s][r]] = "BLACK", !.color[r] = "RED"], o, r)
      q == out.kid[o][p]
  IN  Rotate([out EXCEPT !.color[q] = out.color[p], !.color[p] = "BLACK",
                         !.color[out.kid[o][q]] = "BLACK"], s, p)

DeleteTurn(t0, n) ==
  LET t == BlackSibling(t0, n)
      r == t.kid[Other(SideOf(t, n))][t.parent[n]]
  IN  IF \A s \in Sides : t.color[t.kid[s][r]] = "BLACK"
      THEN [tree |-> [t EXCEPT !.color[r] = "RED"], node |-> t.parent[n]]
      ELSE LET u == RedNephew(t, n) IN [tree |-> u, node |-> u.root]

RbDeleteFixup ==
  /\ fix = "delete"
  /\ IF node # tree.root /\ tree.color[node] = "BLACK"
     THEN LET r == DeleteTurn(tree, node)
          IN  tree' = r.tree /\ node' = r.node /\ UNCHANGED fix
     ELSE /\ tree' = [tree EXCEPT !.color[node] = "BLACK"]
          /\ fix' = "none" /\ node' = nil
  /\ UNCHANGED stored

TreeNext == RbFixup \/ RbDeleteFixup \/ \E k \in Keys : RbInsert(k) \/ RbDelete(k)

TreeSpec == TreeInit /\ [][TreeNext]_treeVars
-----------------------------------------------------------------------------
(* Properties *)

\* Between operations the tree is a red-black tree: no red node has a red
\* child and every way down from a node meets as many black nodes; so rb_find
\* takes logarithmic time.
RedBlack ==
  fix = "none" =>
    LET height[n \in Nodes] ==
          IF n = nil THEN 1
          ELSE LET l == height[tree.kid["left"][n]]
                   r == height[tree.kid["right"][n]]
               IN  IF l = r /\ l # 0 THEN l + (IF tree.color[n] = "BLACK" THEN 1 ELSE 0)
                   ELSE 0
    IN  /\ height[tree.root] # 0 /\ tree.color[tree.root] = "BLACK"
        /\ \A n \in stored : \A s \in Sides :
             tree.color[n] = "RED" => tree.color[tree.kid[s][n]] = "BLACK"

\* Between operations rb_find finds the stored keys and no others, and rb_min
\* and rb_next, with which alloc_tid looks for free identifiers, walk them in
\* order.
Searchable ==
  fix = "none" =>
    /\ \A k \in Keys : RbFind(tree, k) = IF k \in stored THEN k ELSE nil
    /\ \A k \in stored :
         LET later == {m \in stored : m > k}
         IN  RbNext(tree, k) = IF later = {} THEN nil
                               ELSE CHOOSE m \in later : \A j \in later : m <= j
    /\ stored # {} => \A k \in stored : RbMin(tree, tree.root) <= k
=============================================================================
