----------------------------- MODULE MCEngines ------------------------------
(* Three or four keys for the engines whose shape depends on the history, as *)
(* many as the shapes need for the tree, where a key has one value of its    *)
(* own and MOD is called on one key.                                         *)
EXTENDS Engines

CONSTANTS a, b, TreeKeys, ModKeys, WaitKeys

AllKeys == 1 .. TreeKeys

SmallCalls == {w \in WriteCommands : w.key <= 4 /\ (w.cmd = "DEL" => w.val = a)}

TreeCalls ==
  {w \in WriteCommands : \/ w.cmd = "SET" /\ w.val = (IF w.key % 2 = 0 THEN a ELSE b)
                         \/ w.cmd = "DEL" /\ w.val = a
                         \/ w.cmd = "MOD" /\ w.key \in ModKeys}

WaitingCalls == {w \in TreeCalls : w.cmd # "MOD" /\ w.key <= WaitKeys}

EngineCalls == [e \in EngineNames |-> CASE e = "rbtree" -> TreeCalls
                                         [] e = "waiting" -> WaitingCalls
                                         [] OTHER -> SmallCalls]

\* What the next step depends on.
Data == <<engine, inst>>

\* Keys 1, 3, 5, ... collide.
Parity == [key \in Keys |-> key % 2]
=============================================================================
