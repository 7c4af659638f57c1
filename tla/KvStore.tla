------------------------------ MODULE KvStore -------------------------------
(* What the write commands of kvs_filter_protocol do to the data, whichever *)
(* of the four engines holds it: SET adds a key that is absent, MOD and DEL *)
(* act on a key that is present, and any other call changes nothing.        *)
EXTENDS Integers, Sequences

CONSTANTS Keys, Values,
          NONE        \* an absent value

Empty == [k \in Keys |-> NONE]

WriteCommands == [cmd : {"SET", "MOD", "DEL"}, key : Keys, val : Values]

\* The engine returns 0, and the command counts as a successful write.
Takes(st, w) == IF w.cmd = "SET" THEN st[w.key] = NONE ELSE st[w.key] # NONE

Exec(st, w) ==
  IF ~Takes(st, w) THEN st
  ELSE [st EXCEPT ![w.key] = IF w.cmd = "DEL" THEN NONE ELSE w.val]

\* kvs_file_read with kvs_save_handler: one SET for every pair of the file.
Load(st, file) == [k \in Keys |-> IF st[k] = NONE THEN file[k] ELSE st[k]]
=============================================================================
