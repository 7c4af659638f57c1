----------------------------- MODULE HashEngine -----------------------------
(* kvs_hash.c: a table of chains, new nodes at the head, and their number.   *)
(* The hash function is any function from keys to places of the table.       *)
EXTENDS KvStore, SequencesExt

CONSTANTS MAX_TABLE_SIZE, Hash

ASSUME HashAssumption == /\ MAX_TABLE_SIZE \in Nat \ {0}
                         /\ Hash \in [Keys -> 0 .. MAX_TABLE_SIZE - 1]

kvs_hash_create == [nodes |-> [i \in 0 .. MAX_TABLE_SIZE - 1 |-> <<>>], count |-> 0]

Chain(inst, key) == inst.nodes[Hash[key]]

\* The place of the first node of the chain with the key, 0 if there is none.
Place(inst, key) ==
  SelectInSeq(Chain(inst, key), LAMBDA node : node.key = key)

kvs_hash_get(inst, key) ==
  IF Place(inst, key) = 0 THEN NONE ELSE Chain(inst, key)[Place(inst, key)].value

kvs_hash_set(inst, key, value, oom) ==
  IF Place(inst, key) # 0 THEN <<inst, 1>>
  ELSE IF oom THEN <<inst, -2>>
  ELSE <<[nodes |-> [inst.nodes EXCEPT ![Hash[key]] = <<[key |-> key, value |-> value]>> \o @],
          count |-> inst.count + 1], 0>>

kvs_hash_mod(inst, key, value, oom) ==
  IF Place(inst, key) = 0 THEN <<inst, 1>>
  ELSE IF oom THEN <<inst, -2>>
  ELSE <<[inst EXCEPT !.nodes[Hash[key]][Place(inst, key)].value = value], 0>>

kvs_hash_del(inst, key) ==
  IF Place(inst, key) = 0 THEN <<inst, -1>>
  ELSE <<[nodes |-> [inst.nodes EXCEPT ![Hash[key]] = RemoveAt(@, Place(inst, key))],
          count |-> inst.count - 1], 0>>

\* The chains in the order of the table, each from its head.
kvs_hash_destory(inst) ==
  LET keys(i) == [j \in DOMAIN inst.nodes[i] |-> inst.nodes[i][j].key]
  IN FoldLeft(LAMBDA freed, i : freed \o keys(i), <<>>, [i \in 1 .. MAX_TABLE_SIZE |-> i - 1])

kvs_hash_exist(inst, key) == IF kvs_hash_get(inst, key) = NONE THEN 1 ELSE 0
=============================================================================
