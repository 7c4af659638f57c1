---------------------------- MODULE MallocSpec ----------------------------
(***************************************************************************)
(* What the callers of kvs_malloc, kvs_free and kvs_realloc rely on: a heap *)
(* of separate blocks, each of which keeps what was written to it until it  *)
(* is freed, wherever a realloc moves it.                                   *)
(***************************************************************************)
CONSTANTS Pointer, Data

VARIABLE heap           \* the live pointers and what each one's block holds

Init == heap = [p \in {} |-> 0]

Malloc(p, d) ==
    /\ p \notin DOMAIN heap
    /\ heap' = [q \in DOMAIN heap \cup {p} |-> IF q = p THEN d ELSE heap[q]]

Write(p, d) ==
    /\ p \in DOMAIN heap
    /\ heap' = [heap EXCEPT ![p] = d]

Free(p) ==
    /\ p \in DOMAIN heap
    /\ heap' = [q \in DOMAIN heap \ {p} |-> heap[q]]

Move(p, n) ==
    /\ p \in DOMAIN heap
    /\ n \notin DOMAIN heap
    /\ heap' = [q \in (DOMAIN heap \ {p}) \cup {n} |->
                    IF q = n THEN heap[p] ELSE heap[q]]

Exit == heap' = [p \in {} |-> 0]

Next ==
    \/ \E p \in Pointer, d \in Data : Malloc(p, d) \/ Write(p, d)
    \/ \E p \in Pointer : Free(p)
    \/ \E p \in Pointer, n \in Pointer : Move(p, n)
    \/ Exit

Spec == Init /\ [][Next]_heap
=============================================================================
