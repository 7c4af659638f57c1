--------------------------- MODULE MCReplication ----------------------------
(* Instances of Replication: the write commands of one key, with one value  *)
(* (the order of the writes is what matters) or with two (the data does).   *)
EXTENDS Replication, TLC

CONSTANTS k, a, b

SlaveSymmetry == Permutations(Slaves)

OneWrite == {[cmd |-> "SET", key |-> k, val |-> a]}
AllWrites == {[cmd |-> "SET", key |-> k, val |-> a], [cmd |-> "MOD", key |-> k, val |-> b],
              [cmd |-> "DEL", key |-> k, val |-> a]}
=============================================================================
