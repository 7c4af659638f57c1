--------------------------- MODULE MCPersistence ----------------------------
(* One key and two values: SET, MOD and DEL in every order that succeeds.    *)
EXTENDS Persistence

CONSTANTS k, a, b

KeyWrites == {[cmd |-> "SET", key |-> k, val |-> a], [cmd |-> "SET", key |-> k, val |-> b],
              [cmd |-> "MOD", key |-> k, val |-> b], [cmd |-> "DEL", key |-> k, val |-> a]}

\* Nothing is claimed of the data once the file is damaged.
Undamaged == ~damaged
=============================================================================
