------------------------------- MODULE RbTree -------------------------------
(* kvs_rbtree.c.  Between calls a node is named by the key it holds; within  *)
(* rbtree_delete the names stay while the keys are exchanged, and the node   *)
(* that keeps the other key is renamed at the end.  The parent of nil is     *)
(* what the last delete left there, its children are never written: neither  *)
(* is in the domains between calls, so that reading one of them, or a freed  *)
(* node, is an error of evaluation.  Left and right code are mirror images   *)
(* and are written once, for a side.                                         *)
EXTENDS KvStore, TLC, Sequences

ASSUME RbTreeAssumption == Keys \subseteq Nat \ {0}

nil == 0
RED == 1
BLACK == 2

Other(side) == IF side = "left" THEN "right" ELSE "left"

kvs_rbtree_create ==
  [root |-> nil, child |-> [side \in {"left", "right"} |-> << >>], parent |-> << >>,
   color |-> nil :> BLACK, value |-> << >>]

rbtree_search(T, key) ==
  LET search[node \in DOMAIN T.color] ==
        IF node = nil \/ node = key THEN node
        ELSE search[T.child[IF key < node THEN "left" ELSE "right"][node]]
  IN search[T.root]

RECURSIVE rbtree_mini(_, _)
rbtree_mini(T, x) ==
  IF T.child["left"][x] = nil THEN x ELSE rbtree_mini(T, T.child["left"][x])

\* y takes the place of x below p, or at the root.
Replace(T, p, x, y) ==
  IF p = nil THEN [T EXCEPT !.root = y]
  ELSE [T EXCEPT !.child[IF x = T.child["left"][p] THEN "left" ELSE "right"][p] = y]

\* rbtree_left_rotate and rbtree_right_rotate: x goes down on the given side.
Rotate(T, x, side) ==
  LET y == T.child[Other(side)][x]
      mid == T.child[side][y]
      p == T.parent[x]
      U == Replace([T EXCEPT !.child[Other(side)][x] = mid], p, x, y)
  IN [U EXCEPT !.child[side][y] = x,
               !.parent = (y :> p) @@ (x :> y) @@ (IF mid = nil THEN << >> ELSE mid :> x) @@ @]

RECURSIVE rbtree_insert_fixup(_, _)
rbtree_insert_fixup(T, z) ==
  LET p == T.parent[z]
      g == T.parent[p]
      side == IF p = T.child["left"][g] THEN "left" ELSE "right"
      y == T.child[Other(side)][g]
      inner == z = T.child[Other(side)][p]
      U == IF inner THEN Rotate(T, p, side) ELSE T
      low == IF inner THEN p ELSE z
      up == U.parent[low]
  IN IF T.color[p] # RED THEN [T EXCEPT !.color[T.root] = BLACK]
     ELSE IF T.color[y] = RED
     THEN rbtree_insert_fixup(
            [T EXCEPT !.color[p] = BLACK, !.color[y] = BLACK, !.color[g] = RED], g)
     ELSE rbtree_insert_fixup(
            Rotate([U EXCEPT !.color[up] = BLACK, !.color[U.parent[up]] = RED],
                   U.parent[up], Other(side)), low)

\* The loop of rbtree_insert: the node below which the key goes, or the node
\* that has it.
RECURSIVE Below(_, _, _, _)
Below(T, x, y, key) ==
  IF x = nil THEN y ELSE IF x = key THEN key
  ELSE Below(T, T.child[IF key < x THEN "left" ELSE "right"][x], x, key)

rbtree_insert(T, key, value) ==
  LET y == Below(T, T.root, nil, key)
      side == IF key < y THEN "left" ELSE "right"
      U == [root |-> IF y = nil THEN key ELSE T.root,
            child |-> [s \in {"left", "right"} |->
                         (key :> nil) @@ (IF y # nil /\ s = side THEN y :> key ELSE << >>)
                         @@ T.child[s]],
            parent |-> (key :> y) @@ T.parent,
            color |-> (key :> RED) @@ T.color,
            value |-> (key :> value) @@ T.value]
  IN IF y = key THEN T ELSE rbtree_insert_fixup(U, key)

\* Mutant: with both nephews black the loop ends at the sibling's level.
FixupStopsEarly(T, x) ==
  LET p == T.parent[x]
      side == IF x = T.child["left"][p] THEN "left" ELSE "right"
      far == Other(side)
      w0 == T.child[far][p]
      A == IF T.color[w0] = RED
           THEN Rotate([T EXCEPT !.color[w0] = BLACK, !.color[p] = RED], p, side)
           ELSE T
      w == A.child[far][p]
  IN IF x = T.root \/ T.color[x] # BLACK THEN [T EXCEPT !.color[x] = BLACK]
     ELSE [A EXCEPT !.color[w] = RED, !.color[p] = BLACK]

RECURSIVE rbtree_delete_fixup(_, _)
rbtree_delete_fixup(T, x) ==
  LET p == T.parent[x]
      side == IF x = T.child["left"][p] THEN "left" ELSE "right"
      far == Other(side)
      w0 == T.child[far][p]
      A == IF T.color[w0] = RED
           THEN Rotate([T EXCEPT !.color[w0] = BLACK, !.color[p] = RED], p, side)
           ELSE T
      w == A.child[far][p]
      near == A.child[side][w]
      B == IF A.color[A.child[far][w]] = BLACK
           THEN Rotate([A EXCEPT !.color[near] = BLACK, !.color[w] = RED], w, far)
           ELSE A
      v == B.child[far][p]
      C == Rotate([B EXCEPT !.color[v] = B.color[p], !.color[p] = BLACK,
                            !.color[B.child[far][v]] = BLACK], p, side)
  IN IF x = T.root \/ T.color[x] # BLACK THEN [T EXCEPT !.color[x] = BLACK]
     ELSE IF A.color[near] = BLACK /\ A.color[A.child[far][w]] = BLACK
     THEN rbtree_delete_fixup([A EXCEPT !.color[w] = RED], p)
     ELSE rbtree_delete_fixup(C, C.root)

\* The caller frees y, and z, when it is another node, gets the name of the key
\* it now holds.  A pointer to the freed node would be -1, which is no node.
Freed(T, y, z) ==
  LET name(n) == IF n = y THEN -1 ELSE IF n = z THEN y ELSE n
      old(n) == IF n = y THEN z ELSE n
      Renamed(f) == [n \in DOMAIN f \ {nil, z} |-> name(f[old(n)])]
  IN [root |-> name(T.root),
      child |-> [s \in {"left", "right"} |-> Renamed(T.child[s])],
      parent |-> Renamed(T.parent),
      color |-> [n \in DOMAIN T.color \ {z} |-> T.color[old(n)]],
      value |-> [n \in DOMAIN T.value \ {z} |-> T.value[old(n)]]]

\* Mutant: the keys are exchanged and the values are not.
DeleteKeepsValue(T, z) ==
  LET y == IF T.child["left"][z] = nil \/ T.child["right"][z] = nil THEN z
           ELSE rbtree_mini(T, T.child["right"][z])
      x == IF T.child["left"][y] # nil THEN T.child["left"][y] ELSE T.child["right"][y]
      U == Replace([T EXCEPT !.parent = (x :> T.parent[y]) @@ @], T.parent[y], y, x)
  IN Freed(IF T.color[y] = BLACK THEN rbtree_delete_fixup(U, x) ELSE U, y, z)

\* y is unlinked; when it is not z, keys (as names, see Freed) and values of the
\* two are exchanged.
rbtree_delete(T, z) ==
  LET y == IF T.child["left"][z] = nil \/ T.child["right"][z] = nil THEN z
           ELSE rbtree_mini(T, T.child["right"][z])
      x == IF T.child["left"][y] # nil THEN T.child["left"][y] ELSE T.child["right"][y]
      U == Replace([T EXCEPT !.parent = (x :> T.parent[y]) @@ @], T.parent[y], y, x)
      W == [U EXCEPT !.value[z] = T.value[y], !.value[y] = T.value[z]]
  IN Freed(IF T.color[y] = BLACK THEN rbtree_delete_fixup(W, x) ELSE W, y, z)

RECURSIVE kvs_rbtree_destory(_)
\* Takes the smallest key out, with all the rebalancing, until none is left.
kvs_rbtree_destory(T) ==
  LET mini == rbtree_mini(T, T.root)
  IN IF T.root = nil THEN <<>> ELSE <<mini>> \o kvs_rbtree_destory(rbtree_delete(T, mini))

kvs_rbtree_get(T, key) ==
  IF rbtree_search(T, key) = nil THEN NONE ELSE T.value[key]

\* The allocation of the node itself is not tested; the other two are.
kvs_rbtree_set(T, key, value, oom) ==
  IF kvs_rbtree_get(T, key) # NONE THEN <<T, 1>>
  ELSE IF oom THEN <<T, -2>>
  ELSE <<rbtree_insert(T, key, value), 0>>

kvs_rbtree_del(T, key) ==
  IF rbtree_search(T, key) = nil THEN <<T, 1>> ELSE <<rbtree_delete(T, key), 0>>

\* The old value is freed before the new one is allocated.
kvs_rbtree_mod(T, key, value, oom) ==
  IF rbtree_search(T, key) = nil THEN <<T, 1>>
  ELSE IF oom THEN <<[T EXCEPT !.value[key] = NONE], -2>>
  ELSE <<[T EXCEPT !.value[key] = value], 0>>

kvs_rbtree_exist(T, key) == IF rbtree_search(T, key) = nil THEN 1 ELSE 0
=============================================================================
