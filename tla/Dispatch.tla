------------------------------ MODULE Dispatch ------------------------------
(***************************************************************************)
(* One command against the four engines and its reply: kvs_filter_protocol *)
(* and kvs_protocol (kvstore.c).  The engines appear as the maps that      *)
(* module Engines shows them to be, each with the results its C functions  *)
(* return.  SYNC and the commands of a synchronisation are the subject of  *)
(* module Replication, what SAVE starts of module SaveChild, and the log   *)
(* of module Persistence; memory is not exhausted here.                    *)
(***************************************************************************)
EXTENDS Protocol

CONSTANTS
    KVS_ARRAY_SIZE,     \* room of the array engine
    REPLY_RESERVE,      \* kept free in wbuf for a reply of fixed size (32)
    VALUE_OVERHEAD      \* counted beside the value in a reply with one (15)

\* A reply of fixed size has at most 4 bytes here, a length at most 2 digits;
\* with the terminating NUL they fit what the code reserves.
ASSUME DispatchAssumption ==
    /\ KVS_ARRAY_SIZE \in Nat
    /\ REPLY_RESERVE \in Nat /\ REPLY_RESERVE >= 5
    /\ VALUE_OVERHEAD \in Nat /\ VALUE_OVERHEAD >= 8

Engine == {"array", "rbtree", "hash", "skiplist"}

Op == {"SET", "GET", "DEL", "MOD", "EXIST"}

\* The words of the engines' commands.
command ==
    [array    |-> [SET |-> "SET",  GET |-> "GET",  DEL |-> "DEL",  MOD |-> "MOD",  EXIST |-> "EXIST"],
     rbtree   |-> [SET |-> "RSET", GET |-> "RGET", DEL |-> "RDEL", MOD |-> "RMOD", EXIST |-> "REXIST"],
     hash     |-> [SET |-> "HSET", GET |-> "HGET", DEL |-> "HDEL", MOD |-> "HMOD", EXIST |-> "HEXIST"],
     skiplist |-> [SET |-> "LSET", GET |-> "LGET", DEL |-> "LDEL", MOD |-> "LMOD", EXIST |-> "LEXIST"]]

EngineCommands == Engine \X Op

\* What the functions of engine e return: negative, 0 or positive.  The array
\* looks at its room before it looks for the key, and HDEL reports an absent
\* key as an error.
set_ret(e, map, key) ==
    IF e = "array" /\ Cardinality(DOMAIN map) = KVS_ARRAY_SIZE THEN -1
    ELSE IF key \in DOMAIN map THEN 1 ELSE 0

del_ret(e, map, key) ==
    IF key \in DOMAIN map THEN 0 ELSE IF e = "hash" THEN -1 ELSE 1

mod_ret(e, map, key) == IF key \in DOMAIN map THEN 0 ELSE 1

ReplyOf(ret, positive) ==
    IF ret < 0 THEN "ERROR" ELSE IF ret = 0 THEN "OK" ELSE positive

\* The reply to command o of engine e, and the map after it.  The commands
\* carry their arguments, as those of every client in the repository do.
EngineReply(e, o, map, args) ==
    LET key == args[1]
    IN  CASE o = "SET"   -> ReplyOf(set_ret(e, map, key), "EXIST")
          [] o = "DEL"   -> ReplyOf(del_ret(e, map, key), "NO_EXIST")
          [] o = "MOD"   -> ReplyOf(mod_ret(e, map, key), "NO_EXIST")
          [] o = "GET"   -> IF key \in DOMAIN map THEN "VALUE" ELSE "NO_EXIST"
          [] o = "EXIST" -> IF key \in DOMAIN map THEN "EXIST" ELSE "NO_EXIST"

EngineEffect(o, map, args) ==
    IF o = "DEL" THEN Restrict(map, DOMAIN map \ {args[1]})
    ELSE (args[1] :> args[2]) @@ map

\* The bytes of a reply.
OkReply == <<"+OK">> \o CRLF

ErrorReply == <<"-ERR message">> \o CRLF

ExistReply == <<":1">> \o CRLF

NoExistReply == <<"$", "-1">> \o CRLF

CommandReply == <<"*0">> \o CRLF

ProtocolErrorReply == <<"-ERR protocol error">> \o CRLF

ValueReply(v) == <<"$">> \o Decimal[Len(v)] \o CRLF \o v \o CRLF

ReplyBytes(reply, value, word) ==
    CASE reply = "OK"       -> OkReply
      [] reply = "ERROR"    -> ErrorReply
      [] reply = "EXIST"    -> ExistReply
      [] reply = "NO_EXIST" -> NoExistReply
      [] reply = "VALUE"    -> ValueReply(value)
      [] reply = "NONE"     -> <<"-ERR no such command">> \o word \o CRLF
      [] reply = "COMMAND"  -> CommandReply
      [] reply = "START"    -> <<>>

\* The write buffer grows twice at most: for a reply of fixed size before the
\* command is executed, and for a value.
Reserved(w_pos, w_cap) == IF w_cap - w_pos < REPLY_RESERVE THEN 2 * w_cap ELSE w_cap

ValueRoom(w_pos, w_cap, value) ==
    LET needed == Len(value) + VALUE_OVERHEAD
    IN  IF needed > w_cap - w_pos THEN w_cap + needed ELSE w_cap

\* What a command does: the reply's bytes, the engines and the capacity of
\* the write buffer afterwards.  ok is FALSE when the length is negative.
kvs_filter_protocol(tokens, store, w_pos, w_cap) ==
    LET word  == tokens[1]
        args  == Tail(tokens)
        ec    == {x \in EngineCommands : <<command[x[1]][x[2]]>> = word}
        x     == CHOOSE y \in ec : TRUE
        map   == store[x[1]]
        reply == IF ec # {} THEN EngineReply(x[1], x[2], map, args)
                 ELSE CASE word = <<"SAVE">>              -> "OK"
                        [] word = <<"FULLSYNC FINISHED">> -> "START"
                        [] word = <<"COMMAND">>           -> "COMMAND"
                        [] OTHER                          -> "NONE"
        value == IF reply = "VALUE" THEN map[args[1]] ELSE <<>>
        room  == Reserved(w_pos, w_cap)
    IN  IF tokens = <<>> THEN [ok |-> FALSE, reply |-> <<>>, store |-> store, w_cap |-> w_cap]
        ELSE [ok    |-> TRUE,
              reply |-> ReplyBytes(reply, value, word),
              store |-> IF ec # {} /\ reply = "OK"
                        THEN [store EXCEPT ![x[1]] = EngineEffect(x[2], map, args)]
                        ELSE store,
              w_cap |-> IF reply = "VALUE" THEN ValueRoom(w_pos, room, value) ELSE room]

kvs_protocol(protocol, cmd, head, store, w_pos, w_cap) ==
    LET split == kvs_split_token(protocol, cmd, head)
    IN  IF split.ok THEN kvs_filter_protocol(split.tokens, store, w_pos, w_cap)
        ELSE [ok |-> FALSE, reply |-> <<>>, store |-> store, w_cap |-> w_cap]
=============================================================================
