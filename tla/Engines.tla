------------------------------ MODULE Engines -------------------------------
(* kvs_filter_protocol on one of the four engines: the write commands, the   *)
(* replies, and what GET and EXIST answer; and, as a fifth map, the tree in  *)
(* which the scheduler keeps the waiting coroutines by descriptor.  They     *)
(* share nothing, so a behaviour is about one of them, chosen at the start.  *)
EXTENDS ArrayEngine, HashEngine, SkipList, RbTree

CONSTANTS Calls,      \* the write commands issued to each engine
          Faults      \* the calls in which an allocation may fail

VARIABLES engine, inst,
          call, reply    \* the last write command and its answer
vars == <<engine, inst, call, reply>>

Waiting == INSTANCE NtyTree

EngineNames == {"array", "hash", "skiplist", "rbtree", "waiting"}

Init ==
  /\ engine \in EngineNames
  /\ inst = CASE engine = "array" -> kvs_array_create
              [] engine = "hash" -> kvs_hash_create
              [] engine = "skiplist" -> kvs_skiplist_create
              [] engine = "rbtree" -> kvs_rbtree_create
              [] engine = "waiting" -> Waiting!RB_INIT
  /\ call = NONE /\ reply = NONE

\* The replies of the write commands, from the engine's return value.
Answer(ret, otherwise) ==
  IF ret < 0 THEN "ERROR" ELSE IF ret = 0 THEN "OK" ELSE otherwise

Done(w, result) ==
  /\ \E r \in {result} :
       /\ inst' = r[1]
       /\ reply' = Answer(r[2], IF w.cmd = "SET" THEN "EXIST" ELSE "NO_EXIST")
  /\ call' = w /\ UNCHANGED engine

Oom(cmd) == {FALSE} \cup (IF cmd \in Faults THEN {TRUE} ELSE {})

ArrayCall(w) ==
  /\ engine = "array"
  /\ \/ w.cmd = "SET" /\ \E oom \in Oom("SET") :
          Done(w, kvs_array_set(inst, w.key, w.val, oom))
     \/ w.cmd = "MOD" /\ \E oom \in Oom("MOD") :
          Done(w, kvs_array_mod(inst, w.key, w.val, oom))
     \/ w.cmd = "DEL" /\ Done(w, kvs_array_del(inst, w.key))

HashCall(w) ==
  /\ engine = "hash"
  /\ \/ w.cmd = "SET" /\ \E oom \in Oom("HSET") :
          Done(w, kvs_hash_set(inst, w.key, w.val, oom))
     \/ w.cmd = "MOD" /\ \E oom \in Oom("HMOD") :
          Done(w, kvs_hash_mod(inst, w.key, w.val, oom))
     \/ w.cmd = "DEL" /\ Done(w, kvs_hash_del(inst, w.key))

SkipListCall(w) ==
  /\ engine = "skiplist"
  /\ \/ w.cmd = "SET" /\ \E oom \in Oom("LSET"), level \in Levels :
          Done(w, kvs_skiplist_set(inst, w.key, w.val, oom, level))
     \/ w.cmd = "MOD" /\ \E oom \in Oom("LMOD") :
          Done(w, kvs_skiplist_mod(inst, w.key, w.val, oom))
     \/ w.cmd = "DEL" /\ Done(w, kvs_skiplist_del(inst, w.key))

RbTreeCall(w) ==
  /\ engine = "rbtree"
  /\ \/ w.cmd = "SET" /\ \E oom \in Oom("RSET") :
          Done(w, kvs_rbtree_set(inst, w.key, w.val, oom))
     \/ w.cmd = "MOD" /\ \E oom \in Oom("RMOD") :
          Done(w, kvs_rbtree_mod(inst, w.key, w.val, oom))
     \/ w.cmd = "DEL" /\ Done(w, kvs_rbtree_del(inst, w.key))

\* nty_schedule_sched_wait and nty_schedule_desched_wait of coroutine w.val on
\* descriptor w.key.  A present node makes the first fail its assertion, an absent
\* one the second dereference NULL: here the answers EXIST and NO_EXIST.
WaitingCall(w) ==
  /\ engine = "waiting"
  /\ \/ w.cmd = "SET" /\ LET r == Waiting!RB_INSERT(inst, w.key, w.val)
                          IN Done(w, <<r[1], IF r[2] = Waiting!NULL THEN 0 ELSE 1>>)
     \/ w.cmd = "DEL" /\ LET co == Waiting!RB_FIND(inst, w.key)
                          IN Done(w, IF co = Waiting!NULL THEN <<inst, 1>>
                                     ELSE <<Waiting!RB_REMOVE(inst, co), 0>>)

Next == \E w \in Calls[engine] :
          ArrayCall(w) \/ HashCall(w) \/ SkipListCall(w) \/ RbTreeCall(w) \/ WaitingCall(w)

Spec == Init /\ [][Next]_vars

\* The coroutine that waits for a descriptor.
Waiter(fd) ==
  LET co == Waiting!RB_FIND(inst, fd) IN IF co = Waiting!NULL THEN NONE ELSE inst.co[co]

\* GET, HGET, LGET and RGET of every key.
Content ==
  [key \in Keys |-> CASE engine = "array" -> kvs_array_get(inst, key)
                      [] engine = "hash" -> kvs_hash_get(inst, key)
                      [] engine = "skiplist" -> kvs_skiplist_get(inst, key)
                      [] engine = "rbtree" -> kvs_rbtree_get(inst, key)
                      [] engine = "waiting" -> Waiter(key)]

\* EXIST, HEXIST, LEXIST and REXIST.
Exists(key) ==
  0 = CASE engine = "array" -> kvs_array_exist(inst, key)
        [] engine = "hash" -> kvs_hash_exist(inst, key)
        [] engine = "skiplist" -> kvs_skiplist_exist(inst, key)
        [] engine = "rbtree" -> kvs_rbtree_exist(inst, key)
        [] engine = "waiting" -> IF Waiter(key) = NONE THEN 1 ELSE 0

\* dest_kvengine: the keys of the nodes freed.
Destroyed ==
  CASE engine = "array" -> kvs_array_destory(inst)
    [] engine = "hash" -> kvs_hash_destory(inst)
    [] engine = "skiplist" -> kvs_skiplist_destroy(inst)
    [] engine = "rbtree" -> kvs_rbtree_destory(inst)
-----------------------------------------------------------------------------
(* Properties *)

Map == INSTANCE KvMap WITH map <- Content

\* Each engine is a map, seen through its replies and through GET of every key,
\* also of those the commands did not name: a command answered +OK takes effect on
\* the data as the commands before it left them, one answered otherwise changes
\* nothing, and a present or an absent key is reported exactly when it is.
ImplementsMap == Map!Spec

\* Whatever the commands were, kvs_deinit frees the node of every key that is
\* there, and none twice: the destructors follow links and rebalance as they go.
DestroyFreesAll ==
  engine # "waiting" =>
    /\ Len(Destroyed) = Cardinality(ToSet(Destroyed))
    /\ ToSet(Destroyed) = {key \in Keys : Content[key] # NONE}

RECURSIVE BlackHeight(_, _)
\* The black nodes on the way down, -1 if the ways disagree or red follows red.
\* The color of red is the same in both trees, and nil and NULL are 0.
BlackHeight(T, n) ==
  LET l == BlackHeight(T, T.child["left"][n])
      r == BlackHeight(T, T.child["right"][n])
      red(m) == m # nil /\ T.color[m] = RED
  IN IF n = nil THEN 0
     ELSE IF \/ l # r \/ l < 0
             \/ red(n) /\ (red(T.child["left"][n]) \/ red(T.child["right"][n]))
     THEN -1 ELSE l + (IF red(n) THEN 0 ELSE 1)

\* A red-black tree whose links go both ways.
RedBlack ==
  engine \in {"rbtree", "waiting"} =>
    /\ engine = "rbtree" => inst.color[nil] = BLACK
    /\ inst.root # nil => inst.color[inst.root] # RED
    /\ BlackHeight(inst, inst.root) >= 0
    /\ \A n \in DOMAIN inst.parent :
         /\ inst.parent[n] = nil <=> n = inst.root
         /\ \A s \in {"left", "right"} :
              inst.child[s][n] # nil => inst.parent[inst.child[s][n]] = n

RECURSIVE OnList(_, _, _)
\* The nodes of list i from node n on.
OnList(sl, i, n) == IF n = NULL THEN {} ELSE {n} \cup OnList(sl, i, sl.forward[n][i])

\* On every level the list holds, in order, exactly the nodes that are that high,
\* and level is the highest list in use.
Levelled ==
  engine = "skiplist" =>
    /\ \A n \in DOMAIN inst.forward : \A i \in DOMAIN inst.forward[n] :
         inst.forward[n][i] # NULL => n < inst.forward[n][i]
    /\ \A i \in 0 .. SKIPLIST_MAX_LEVEL :
         /\ OnList(inst, i, header) = {n \in DOMAIN inst.forward : i \in DOMAIN inst.forward[n]}
         /\ i > inst.level => inst.forward[header][i] = NULL
    /\ inst.level > 0 => inst.forward[header][inst.level] # NULL

\* The array is full exactly when total says so, and kvs_hash_count is the
\* number of keys.
Counted ==
  /\ engine = "array" => inst.total = Cardinality({i \in Slots : inst.table[i].key # NONE})
  /\ engine = "hash" => inst.count = Cardinality({key \in Keys : Content[key] # NONE})

\* After every sequence of calls, with failed allocations among them, the engine
\* has the shape its next call relies on.  Searches in the trees stay logarithmic,
\* and rbtree_delete_fixup and RB_REMOVE_COLOR find the sibling they need at every
\* level; no list of the skip list keeps a freed node; each key is counted once,
\* however it came and went; and EXIST agrees with GET.
WellFormed ==
  /\ RedBlack /\ Levelled /\ Counted
  /\ \A key \in Keys : Exists(key) <=> Content[key] # NONE
=============================================================================
