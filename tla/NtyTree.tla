------------------------------ MODULE NtyTree -------------------------------
(* The tree of waiting coroutines: RB_GENERATE of NtyCo/core/nty_tree.h, as  *)
(* nty_schedule.c uses it.  A node is a coroutine and is named by the        *)
(* descriptor it waits for, by which nty_coroutine_wait_cmp compares; co is  *)
(* the coroutine.  Other than in kvs_rbtree.c there is no node for nil, and  *)
(* a node with two children is taken out by putting another one in its       *)
(* place.  Left and right code are mirror images and are written once.       *)
EXTENDS Naturals, TLC

NULL == 0
RB_BLACK == 0
RB_RED == 1

Opposite(side) == IF side = "left" THEN "right" ELSE "left"

RB_INIT ==
  [root |-> NULL, child |-> [side \in {"left", "right"} |-> << >>], parent |-> << >>,
   color |-> << >>, co |-> << >>]

IsRed(T, n) == n # NULL /\ T.color[n] = RB_RED

\* new takes the place of elm below parent, or at the root.
Hang(T, parent, elm, new) ==
  IF parent = NULL THEN [T EXCEPT !.root = new]
  ELSE [T EXCEPT !.child[IF T.child["left"][parent] = elm THEN "left" ELSE "right"][parent] = new]

SetParent(T, n, parent) == IF n = NULL THEN T ELSE [T EXCEPT !.parent[n] = parent]

\* RB_ROTATE_LEFT and RB_ROTATE_RIGHT: elm goes down on the given side.
RB_ROTATE(T, elm, side) ==
  LET tmp == T.child[Opposite(side)][elm]
      mid == T.child[side][tmp]
      up == T.parent[elm]
      U == SetParent([T EXCEPT !.child[Opposite(side)][elm] = mid], mid, elm)
  IN [Hang([U EXCEPT !.parent[tmp] = up], up, elm, tmp)
        EXCEPT !.child[side][tmp] = elm, !.parent[elm] = tmp]

RECURSIVE RB_INSERT_COLOR(_, _)
RB_INSERT_COLOR(T, elm) ==
  LET parent == T.parent[elm]
      gparent == T.parent[parent]
      side == IF parent = T.child["left"][gparent] THEN "left" ELSE "right"
      tmp == T.child[Opposite(side)][gparent]
      inner == T.child[Opposite(side)][parent] = elm
      U == IF inner THEN RB_ROTATE(T, parent, side) ELSE T
      top == IF inner THEN elm ELSE parent
      low == IF inner THEN parent ELSE elm
  IN IF ~IsRed(T, parent) THEN [T EXCEPT !.color[T.root] = RB_BLACK]
     ELSE IF IsRed(T, tmp)
     THEN RB_INSERT_COLOR(
            [T EXCEPT !.color[tmp] = RB_BLACK, !.color[parent] = RB_BLACK, !.color[gparent] = RB_RED],
            gparent)
     ELSE RB_INSERT_COLOR(
            RB_ROTATE([U EXCEPT !.color[top] = RB_BLACK, !.color[gparent] = RB_RED],
                      gparent, Opposite(side)), low)

RECURSIVE RB_REMOVE_COLOR(_, _, _)
RB_REMOVE_COLOR(T, parent, elm) ==
  LET side == IF T.child["left"][parent] = elm THEN "left" ELSE "right"
      far == Opposite(side)
      tmp0 == T.child[far][parent]
      A == IF T.color[tmp0] = RB_RED
           THEN RB_ROTATE([T EXCEPT !.color[tmp0] = RB_BLACK, !.color[parent] = RB_RED], parent, side)
           ELSE T
      tmp == A.child[far][parent]
      near == A.child[side][tmp]
      B == IF ~IsRed(A, A.child[far][tmp])
           THEN RB_ROTATE([A EXCEPT !.color = [n \in DOMAIN @ |-> IF n = tmp THEN RB_RED
                                                 ELSE IF n = near THEN RB_BLACK ELSE @[n]]], tmp, far)
           ELSE A
      v == B.child[far][parent]
      outer == B.child[far][v]
      C == RB_ROTATE([B EXCEPT !.color = [n \in DOMAIN @ |-> IF n = v THEN @[parent]
                                            ELSE IF n \in {parent, outer} THEN RB_BLACK ELSE @[n]]],
                     parent, side)
  IN IF IsRed(T, elm) \/ elm = T.root
     THEN IF elm = NULL THEN T ELSE [T EXCEPT !.color[elm] = RB_BLACK]
     ELSE IF ~IsRed(A, near) /\ ~IsRed(A, A.child[far][tmp])
     THEN RB_REMOVE_COLOR([A EXCEPT !.color[tmp] = RB_RED], A.parent[parent], parent)
     ELSE [C EXCEPT !.color[C.root] = RB_BLACK]

RECURSIVE Leftmost(_, _)
Leftmost(T, n) == IF T.child["left"][n] = NULL THEN n ELSE Leftmost(T, T.child["left"][n])

\* The fields of a coroutine that is not in the tree are not looked at again.
Drop(T, old) ==
  LET less(f) == [n \in DOMAIN f \ {old} |-> f[n]]
  IN [root |-> T.root, child |-> [side \in {"left", "right"} |-> less(T.child[side])],
      parent |-> less(T.parent), color |-> less(T.color), co |-> less(T.co)]

\* The successor elm of old leaves its own place to its child and takes, with
\* (elm)->field = (old)->field, the place of old; what is below or above old is
\* then linked to elm.
Swap(T, old, elm) ==
  LET child == T.child["right"][elm]
      U == Hang(SetParent(T, child, T.parent[elm]), T.parent[elm], elm, child)
      V == [U EXCEPT !.child = [side \in {"left", "right"} |-> [@[side] EXCEPT ![elm] = U.child[side][old]]],
                     !.parent[elm] = U.parent[old], !.color[elm] = U.color[old]]
      W == Hang(V, V.parent[old], old, elm)
  IN SetParent(SetParent(W, W.child["left"][old], elm), W.child["right"][old], elm)

RB_REMOVE(T, old) ==
  LET both == T.child["left"][old] # NULL /\ T.child["right"][old] # NULL
      elm == IF both THEN Leftmost(T, T.child["right"][old]) ELSE old
      child == IF T.child["left"][elm] = NULL THEN T.child["right"][elm] ELSE T.child["left"][elm]
      parent == IF T.parent[elm] = old THEN elm ELSE T.parent[elm]
      U == IF both THEN Swap(T, old, elm)
           ELSE Hang(SetParent(T, child, parent), parent, elm, child)
      V == IF T.color[elm] = RB_BLACK THEN RB_REMOVE_COLOR(U, parent, child) ELSE U
  IN Drop(V, old)

RECURSIVE Descend(_, _, _, _)
\* The loop of RB_INSERT: the node below which fd goes, or the node that has it.
Descend(T, tmp, parent, fd) ==
  IF tmp = NULL THEN parent ELSE IF tmp = fd THEN tmp
  ELSE Descend(T, T.child[IF fd < tmp THEN "left" ELSE "right"][tmp], tmp, fd)

\* Returns the tree and the node that is there already, or NULL.
RB_INSERT(T, fd, co) ==
  LET parent == Descend(T, T.root, NULL, fd)
      comp == IF fd < parent THEN "left" ELSE "right"
      RB_SET == [T EXCEPT !.child = [side \in {"left", "right"} |-> (fd :> NULL) @@ @[side]],
                          !.parent = (fd :> parent) @@ @, !.color = (fd :> RB_RED) @@ @,
                          !.co = (fd :> co) @@ @]
      U == IF parent = NULL THEN [RB_SET EXCEPT !.root = fd]
           ELSE [RB_SET EXCEPT !.child[comp][parent] = fd]
  IN IF parent = fd THEN <<T, fd>> ELSE <<RB_INSERT_COLOR(U, fd), NULL>>

RB_FIND(T, fd) ==
  LET found[tmp \in {NULL} \cup DOMAIN T.color] ==
        IF tmp = NULL \/ tmp = fd THEN tmp
        ELSE found[T.child[IF fd < tmp THEN "left" ELSE "right"][tmp]]
  IN found[T.root]
=============================================================================
