----------------------------- MODULE MCStartup ------------------------------
(* A slave with two keys of the array and one of another engine.             *)
EXTENDS Startup

CONSTANTS a, b

Rec(key, val) == [key |-> key, val |-> val]
Line(key, form, value) == [key |-> key, form |-> form, value |-> value]
Set(key, value) == Line(key, "spaced", value)

\* Records of the array come first.  The last one is as long as Word.
Snapshots == {<<>>, <<Rec(3, a)>>, <<Rec(1, a), Rec(3, a)>>,
              <<Rec(1, a), Rec(2, a), Rec(3, a)>>,
              <<Rec(1, a), Rec(2, a), Rec(3, a), Rec(4, a)>>}

\* The slave has nothing, an old value of a key, or an array that is full.
OldFiles == {[dump |-> <<>>, log |-> <<>>],
             [dump |-> <<Rec(3, b)>>, log |-> <<[cmd |-> "SET", key |-> 4, val |-> b]>>],
             [dump |-> <<Rec(1, b)>>, log |-> <<[cmd |-> "SET", key |-> 2, val |-> b],
                                                [cmd |-> "MOD", key |-> 1, val |-> a]>>]}

Common == <<Set("Master", 1), Set("Agent", 1), Set("ENABLE_MODULE_SYNC", 1),
            Set("ENABLE_MODULE_SAVE", 1), Set("ENABLE_MODULE_LOG", 1)>>

\* A slave, one whose second line for the mode makes it a master, one whose line
\* for the mode lacks the blank, one without persistence or an agent, a key
\* without a value, and no file.
Confs == {Common \o <<Set("Mode", 1)>>, Common \o <<Set("Mode", 1), Set("Mode", 0)>>,
          Common \o <<Line("Mode", "glued", 1)>>,
          <<Set("Mode", 1), Set("ENABLE_MODULE_SYNC", 1), Set("Master", 1)>>,
          Common \o <<Line("Mode", "bare", 0)>>, <<>>}
=============================================================================
