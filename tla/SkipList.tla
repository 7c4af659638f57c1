------------------------------ MODULE SkipList ------------------------------
(* kvs_skiptable.c.  A node is named by its key, which never changes; its    *)
(* forward array has as many entries as its level gives it, so that reading  *)
(* past them, or reading a freed node, is an error of evaluation.            *)
EXTENDS KvStore, TLC, FiniteSetsExt, Sequences

CONSTANT SKIPLIST_MAX_LEVEL

ASSUME SkipListAssumption == /\ SKIPLIST_MAX_LEVEL \in Nat \ {0}
                             /\ Keys \subseteq Nat \ {0}

header == 0
NULL == -1

Levels == 0 .. SKIPLIST_MAX_LEVEL - 1      \* what randomLevel returns

kvs_skiplist_create ==
  [level |-> 0, value |-> << >>,
   forward |-> header :> [i \in 0 .. SKIPLIST_MAX_LEVEL |-> NULL]]

\* The inner loop: from a node on list i, go on while the next key is smaller.
Along(inst, i, from, key) ==
  LET along[cur \in DOMAIN inst.forward] ==
        LET next == inst.forward[cur][i]
        IN IF next # NULL /\ next < key THEN along[next] ELSE cur
  IN along[from]

\* The outer loop, from the highest list down.
Updates(inst, key) ==
  LET update[i \in 0 .. inst.level] ==
        Along(inst, i, IF i = inst.level THEN header ELSE update[i + 1], key)
  IN update

\* The node after the search, and whether it has the key.
Candidate(inst, key) == inst.forward[Updates(inst, key)[0]][0]
IsAt(inst, key) == LET node == Candidate(inst, key) IN node # NULL /\ node = key

kvs_skiplist_get(inst, key) == IF IsAt(inst, key) THEN inst.value[key] ELSE NONE

RECURSIVE Walk(_, _)
\* The nodes of the lowest list from node on.
Walk(inst, node) ==
  IF node = NULL THEN <<>> ELSE <<node>> \o Walk(inst, inst.forward[node][0])

\* Mutant: the walk starts with the first node of the highest list.
DestroyFromTop(inst) == Walk(inst, inst.forward[header][inst.level])

kvs_skiplist_destroy(inst) == Walk(inst, inst.forward[header][0])

kvs_skiplist_set(inst, key, value, oom, level) ==
  LET update == Updates(inst, key) @@ [i \in inst.level + 1 .. level |-> header]
  IN IF IsAt(inst, key) THEN <<inst, 1>>
     ELSE IF oom THEN <<inst, -2>>
     ELSE <<[level |-> Max({level, inst.level}),
             value |-> (key :> value) @@ inst.value,
             forward |-> (key :> [i \in 0 .. level |-> inst.forward[update[i]][i]])
                         @@ [n \in DOMAIN inst.forward |->
                               [i \in DOMAIN inst.forward[n] |->
                                  IF i <= level /\ update[i] = n THEN key
                                  ELSE inst.forward[n][i]]]], 0>>

\* Unlinking goes up from list 0 and stops at the first list without the node;
\* then the level goes down to the highest list in use.
kvs_skiplist_del(inst, key) ==
  LET update == Updates(inst, key)
      linked == {i \in 0 .. inst.level :
                   \A j \in 0 .. i : inst.forward[update[j]][j] = key}
      forward == [n \in DOMAIN inst.forward \ {key} |->
                    [i \in DOMAIN inst.forward[n] |->
                       IF i \in linked /\ update[i] = n THEN inst.forward[key][i]
                       ELSE inst.forward[n][i]]]
      used == {i \in 1 .. inst.level : forward[header][i] # NULL}
  IN IF ~IsAt(inst, key) THEN <<inst, 1>>
     ELSE <<[level |-> Max(used \cup {0}),
             value |-> [n \in DOMAIN inst.value \ {key} |-> inst.value[n]],
             forward |-> forward], 0>>

kvs_skiplist_mod(inst, key, value, oom) ==
  IF ~IsAt(inst, key) THEN <<inst, 1>>
  ELSE IF oom THEN <<inst, -2>>
  ELSE <<[inst EXCEPT !.value[key] = value], 0>>

kvs_skiplist_exist(inst, key) == IF kvs_skiplist_get(inst, key) = NONE THEN 1 ELSE 0
=============================================================================
