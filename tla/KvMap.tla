------------------------------- MODULE KvMap --------------------------------
(* What an engine promises to kvs_filter_protocol: it is a map, and a write  *)
(* command either takes effect and is answered +OK, or changes nothing and   *)
(* is answered with the reason.                                              *)
EXTENDS KvStore

VARIABLES map, call, reply

Init == map = Empty /\ call = NONE /\ reply = NONE

Succeeds(w) == reply' = "OK" /\ Takes(map, w) /\ map' = Exec(map, w)

Refused(w) ==
  /\ reply' = IF w.cmd = "SET" THEN "EXIST" ELSE "NO_EXIST"
  /\ ~Takes(map, w) /\ UNCHANGED map

\* No memory, a full array, or HDEL of an absent key.
Fails == reply' = "ERROR" /\ UNCHANGED map

Next == \E w \in WriteCommands : call' = w /\ (Succeeds(w) \/ Refused(w) \/ Fails)

Spec == Init /\ [][Next]_<<map, call, reply>>
=============================================================================
