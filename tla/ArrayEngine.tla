---------------------------- MODULE ArrayEngine -----------------------------
(* kvs_array.c: a table of KVS_ARRAY_SIZE items and the number of used ones. *)
(* A call returns the new instance and the code's return value.              *)
EXTENDS KvStore, FiniteSetsExt, Sequences

CONSTANT KVS_ARRAY_SIZE

ASSUME ArrayAssumption == KVS_ARRAY_SIZE \in Nat \ {0}

Slots == 1 .. KVS_ARRAY_SIZE

Unused == [key |-> NONE, value |-> NONE]

kvs_array_create == [table |-> [i \in Slots |-> Unused], total |-> 0]

Holding(inst, key) == {i \in Slots : inst.table[i].key = key}

kvs_array_get(inst, key) ==
  IF Holding(inst, key) = {} THEN NONE ELSE inst.table[Min(Holding(inst, key))].value

\* oom: an allocation of the call returns NULL.
kvs_array_set(inst, key, value, oom) ==
  LET free == Holding(inst, NONE)
  IN CASE inst.total = KVS_ARRAY_SIZE -> <<inst, -1>>
       [] inst.total # KVS_ARRAY_SIZE /\ kvs_array_get(inst, key) # NONE -> <<inst, 1>>
       [] inst.total # KVS_ARRAY_SIZE /\ kvs_array_get(inst, key) = NONE ->
            IF oom THEN <<inst, -2>>
            ELSE IF free = {} THEN <<inst, 0>>
            ELSE <<[table |-> [inst.table EXCEPT ![Min(free)] = [key |-> key, value |-> value]],
                    total |-> inst.total + 1], 0>>

kvs_array_del(inst, key) ==
  IF Holding(inst, key) = {} THEN <<inst, KVS_ARRAY_SIZE>>
  ELSE <<[table |-> [inst.table EXCEPT ![Min(Holding(inst, key))] = Unused],
          total |-> inst.total - 1], 0>>

kvs_array_mod(inst, key, value, oom) ==
  IF inst.total = 0 \/ Holding(inst, key) = {} THEN <<inst, KVS_ARRAY_SIZE>>
  ELSE IF oom THEN <<inst, -2>>
  ELSE <<[inst EXCEPT !.table[Min(Holding(inst, key))].value = value], 0>>

\* The destructors return the keys of the nodes they free, in that order.
kvs_array_destory(inst) ==
  SelectSeq([i \in Slots |-> inst.table[i].key], LAMBDA key : key # NONE)

kvs_array_exist(inst, key) == IF kvs_array_get(inst, key) = NONE THEN 1 ELSE 0
=============================================================================
