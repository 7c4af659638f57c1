--------------------------- MODULE AgentCacheSpec ---------------------------
(***************************************************************************)
(* What an agent_cache of kvs-ebpf promises its users: a bounded FIFO      *)
(* queue of buffers.  Every stored buffer costs its own length plus a      *)
(* fixed overhead; a buffer is refused as a whole, and only when it is     *)
(* empty or does not fit; a read hands out the oldest buffer exactly as    *)
(* it was written.  AgentCache, the ring of bytes, implements this module. *)
(***************************************************************************)
EXTENDS Integers, Sequences

CONSTANTS Capacity,   \* bytes the cache may hold
          Overhead,   \* bytes a stored buffer costs beside its own
          Buffers,    \* the buffers a caller may write
          NULL        \* what a read returns when it returns no buffer

VARIABLES queue,      \* the stored buffers, oldest first
          load,       \* the bytes they cost
          arg,        \* the buffer of the last write
          ret,        \* what that write returned
          out         \* what the last read returned

specVars == <<queue, load, arg, ret, out>>

Init == queue = <<>> /\ load = 0 /\ arg = NULL /\ ret = 0 /\ out = NULL

Cost(buf) == Overhead + Len(buf)

Fits(buf) == load + Cost(buf) <= Capacity

Write(buf) ==
  /\ buf # <<>>
  /\ Fits(buf)
  /\ queue' = Append(queue, buf)
  /\ load' = load + Cost(buf)
  /\ arg' = buf
  /\ ret' = 0
  /\ UNCHANGED out

Refuse(buf) ==
  /\ \/ buf = <<>> /\ ret' = -1
     \/ buf # <<>> /\ ~Fits(buf) /\ ret' = -2
  /\ arg' = buf
  /\ UNCHANGED <<queue, load, out>>

Read ==
  /\ queue # <<>>
  /\ out' = Head(queue)
  /\ queue' = Tail(queue)
  /\ load' = load - Cost(Head(queue))
  /\ UNCHANGED <<arg, ret>>

\* A read that finds nothing, or cannot allocate, keeps the queue.
ReadNothing ==
  /\ out' = NULL
  /\ UNCHANGED <<queue, load, arg, ret>>

Next ==
  \/ \E buf \in Buffers : Write(buf) \/ Refuse(buf)
  \/ Read
  \/ ReadNothing

Spec == Init /\ [][Next]_specVars
=============================================================================
