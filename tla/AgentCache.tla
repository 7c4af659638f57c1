----------------------------- MODULE AgentCache -----------------------------
(***************************************************************************)
(* agent_cache of src/kvs-ebpf/kvs_agent_ds.c: a byte ring that stores     *)
(* records [buf_len][buf].  Two such rings sit in the agent process: one   *)
(* between the eBPF callback and the agent thread (under cache_mutex), one *)
(* that keeps the writes received during a full synchronisation (used by   *)
(* the agent thread alone); every call therefore runs without interleaving *)
(* with another call on the same ring.                                     *)
(***************************************************************************)
EXTENDS Integers, Sequences

CONSTANTS Capacity,      \* ac->capacity
          HeadLen,       \* sizeof(size_t), the length prefix of a record
          SizeMax,       \* SIZE_MAX
          Byte,          \* the values of a byte
          LenBytes(_),   \* the bytes of a size_t in memory
          LenOf(_),      \* the size_t those bytes stand for
          Buffers,       \* the buffers the callers write
          NULL           \* the null pointer

ASSUME CacheAssumption ==
  /\ Capacity \in Nat \ {0}
  /\ HeadLen \in Nat \ {0}
  /\ SizeMax \in Nat
  /\ Capacity <= SizeMax
  /\ \A buf \in Buffers : buf \in Seq(Byte) /\ Len(buf) <= SizeMax
  /\ NULL \notin Buffers

\* Reading back the bytes of a size_t gives the same size_t.
ASSUME LenCoding ==
  \A n \in 0 .. SizeMax : /\ LenBytes(n) \in Seq(Byte)
                          /\ Len(LenBytes(n)) = HeadLen
                          /\ LenOf(LenBytes(n)) = n

VARIABLES ac,       \* the struct: cache, read_pos, write_pos, used
          arg,      \* the buffer of the last kvs_agent_cache_write
          ret,      \* what that call returned
          out,      \* what the last kvs_agent_cache_read returned
          stored    \* history: the records the ring should hold, oldest
                    \* first, each with its distance in bytes from read_pos

vars == <<ac, arg, ret, out, stored>>

Slots == 0 .. Capacity - 1

AgentCacheType == [cache : [Slots -> Byte], read_pos : Slots,
                   write_pos : Slots, used : 0 .. Capacity]

-----------------------------------------------------------------------------
(* memcpy into the ring at a position, and out of it.                      *)
CopyIn(cache, pos, buf) ==
  [i \in Slots |-> IF i \in pos .. pos + Len(buf) - 1
                   THEN buf[i - pos + 1] ELSE cache[i]]

CopyOut(cache, pos, n) == [i \in 1 .. n |-> cache[pos + i - 1]]

\* Mutant: the rest of a wrapped buffer starts one byte too early.
WrapOffByOne(r, buf) ==
  LET toEnd == Capacity - r.write_pos
  IN [cache     |-> IF toEnd >= Len(buf) THEN CopyIn(r.cache, r.write_pos, buf)
                    ELSE CopyIn(CopyIn(r.cache, r.write_pos, SubSeq(buf, 1, toEnd)),
                                0, SubSeq(buf, toEnd, Len(buf) - 1)),
      read_pos  |-> r.read_pos,
      write_pos |-> (r.write_pos + Len(buf)) % Capacity,
      used      |-> r.used + Len(buf)]

cache_write_bytes(r, buf) ==
  LET toEnd == Capacity - r.write_pos
      wrap  == (r.write_pos + toEnd) % Capacity
      first == SubSeq(buf, 1, toEnd)
      rest  == SubSeq(buf, toEnd + 1, Len(buf))
  IN IF toEnd >= Len(buf)
     THEN [cache     |-> CopyIn(r.cache, r.write_pos, buf),
           read_pos  |-> r.read_pos,
           write_pos |-> (r.write_pos + Len(buf)) % Capacity,
           used      |-> r.used + Len(buf)]
     ELSE [cache     |-> CopyIn(CopyIn(r.cache, r.write_pos, first), wrap, rest),
           read_pos  |-> r.read_pos,
           write_pos |-> (wrap + Len(rest)) % Capacity,
           used      |-> r.used + Len(buf)]

\* n bytes from read_pos on, in one piece or in two.
BytesFrom(r, pos, n) ==
  LET toEnd == Capacity - pos
      wrap  == (pos + toEnd) % Capacity
  IN IF toEnd >= n
     THEN CopyOut(r.cache, pos, n)
     ELSE CopyOut(r.cache, pos, toEnd) \o CopyOut(r.cache, wrap, n - toEnd)

cache_read_bytes(r, n) ==
  LET toEnd == Capacity - r.read_pos
      wrap  == (r.read_pos + toEnd) % Capacity
  IN [r EXCEPT !.read_pos = IF toEnd >= n THEN (@ + n) % Capacity
                            ELSE (wrap + (n - toEnd)) % Capacity,
               !.used = @ - n]

cache_peek_len(r) == LenOf(BytesFrom(r, r.read_pos, HeadLen))
-----------------------------------------------------------------------------
\* malloc leaves the bytes of the ring undefined.
Init ==
  /\ ac \in {[cache |-> c, read_pos |-> 0, write_pos |-> 0, used |-> 0] :
               c \in [Slots -> Byte]}
  /\ arg = NULL
  /\ ret = 0
  /\ out = NULL
  /\ stored = <<>>

\* Mutant: a ring that is filled up exactly.
RoomNeverFull(r, n) == Capacity - r.used > n

Room(r, n) == Capacity - r.used >= n

\* The early returns of kvs_agent_cache_write: nothing is written.
WriteRefused(buf) ==
  /\ \/ Len(buf) = 0 /\ ret' = -1
     \/ /\ Len(buf) > 0
        /\ Len(buf) > SizeMax - HeadLen \/ ~Room(ac, HeadLen + Len(buf))
        /\ ret' = -2
  /\ arg' = buf
  /\ UNCHANGED <<ac, out, stored>>

\* The length, then the buffer; each of the two writes checks the room
\* again, and a failure of the second would leave the length behind.
WriteStored(buf) ==
  LET head == cache_write_bytes(ac, LenBytes(Len(buf)))
      ok   == Room(ac, HeadLen) /\ Room(head, Len(buf))
  IN /\ Len(buf) > 0
     /\ Len(buf) <= SizeMax - HeadLen
     /\ Room(ac, HeadLen + Len(buf))
     /\ arg' = buf
     /\ ret' = IF ok THEN 0 ELSE -3
     /\ ac' = IF ok THEN cache_write_bytes(head, buf)
              ELSE IF Room(ac, HeadLen) THEN head ELSE ac
     /\ stored' = Append(stored, [at |-> ac.used, buf |-> buf])
     /\ UNCHANGED out

kvs_agent_cache_write(buf) == WriteRefused(buf) \/ WriteStored(buf)

\* A length prefix is there, and the ring holds as much as it announces.
Readable == /\ ac.used >= HeadLen
            /\ cache_peek_len(ac) \in 1 .. ac.used - HeadLen

\* No record, a bad length, or malloc failed: nothing is consumed.
ReadNull ==
  /\ out' = NULL
  /\ UNCHANGED <<ac, arg, ret, stored>>

\* The length prefix is stepped over, not read again.
SkipLen(r) == [r EXCEPT !.read_pos = (@ + HeadLen) % Capacity,
                        !.used = @ - HeadLen]

ReadRecord ==
  LET len  == cache_peek_len(ac)
      skip == SkipLen(ac)
  IN /\ Readable
     /\ out' = BytesFrom(skip, skip.read_pos, len)
     /\ ac' = cache_read_bytes(skip, len)
     /\ stored' = [i \in 1 .. Len(stored) - 1 |->
                     [at  |-> stored[i + 1].at - (HeadLen + len),
                      buf |-> stored[i + 1].buf]]
     /\ UNCHANGED <<arg, ret>>

kvs_agent_cache_read == ReadNull \/ ReadRecord

Next ==
  \/ \E buf \in Buffers : kvs_agent_cache_write(buf)
  \/ kvs_agent_cache_read

Spec == Init /\ [][Next]_vars
-----------------------------------------------------------------------------
TypeOK ==
  /\ ac \in AgentCacheType
  /\ arg \in Buffers \cup {NULL}
  /\ ret \in {0, -1, -2}
  /\ out \in Buffers \cup {NULL}
  /\ stored \in Seq([at : 0 .. Capacity, buf : Buffers])

\* The slot of the byte at distance d behind the position pos.
Slot(pos, d) == IF pos + d < Capacity THEN pos + d ELSE pos + d - Capacity

\* The first byte behind a record, and the record as the bytes of the ring r.
RecordEnd(rec) == rec.at + HeadLen + Len(rec.buf)

HoldsRecord(r, rec) ==
  /\ \A j \in 1 .. HeadLen :
       r.cache[Slot(r.read_pos, rec.at + j - 1)] = LenBytes(Len(rec.buf))[j]
  /\ \A j \in 1 .. Len(rec.buf) :
       r.cache[Slot(r.read_pos, rec.at + HeadLen + j - 1)] = rec.buf[j]

\* The ring of kvs_agent_ds.c is exactly the accepted records that were not
\* read yet: they are laid end to end from read_pos to write_pos, used counts
\* them, and each is the bytes of its length followed by the bytes of its
\* buffer, wherever the ring wraps.
RingHoldsRecords ==
  /\ ac.write_pos = Slot(ac.read_pos, ac.used)
  /\ stored = <<>> => ac.used = 0
  /\ stored # <<>> => stored[1].at = 0 /\ RecordEnd(stored[Len(stored)]) = ac.used
  /\ \A i \in 1 .. Len(stored) :
       /\ Len(stored[i].buf) > 0
       /\ RecordEnd(stored[i]) <= ac.used
       /\ HoldsRecord(ac, stored[i])
       /\ i > 1 => stored[i].at = RecordEnd(stored[i - 1])
       /\ \A k \in 1 .. i - 1 : RecordEnd(stored[k]) <= stored[i].at

Queue == [i \in 1 .. Len(stored) |-> stored[i].buf]

Fifo == INSTANCE AgentCacheSpec WITH Overhead <- HeadLen, queue <- Queue,
                                     load <- ac.used

\* The ring implements the bounded FIFO queue of AgentCacheSpec: a write is
\* all or nothing and refused only for want of room, a read returns the oldest
\* record unchanged (kvs_agent_cache_write, kvs_agent_cache_read).
ImplementsFifo == Fifo!Spec
=============================================================================
