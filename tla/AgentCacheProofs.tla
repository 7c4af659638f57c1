-------------------------- MODULE AgentCacheProofs --------------------------
(* The ring of AgentCache is correct for every capacity, prefix and byte.   *)
EXTENDS AgentCache, SequenceTheorems, TLAPS

\* The time the prover may take for a leaf; a few milliseconds are the rule.
USE SMTT(20)

(* The capacity and the size of the prefix are positive.                    *)
LEMMA CapacityPositive == Capacity \in Nat \ {0} /\ HeadLen \in Nat \ {0}
BY CacheAssumption

(* Positions are reduced modulo the capacity after adding at most one       *)
(* capacity: the reduction is a single subtraction, as in Slot.             *)
LEMMA Advance ==
  ASSUME NEW p \in Slots, NEW n \in 0 .. Capacity
  PROVE  (p + n) % Capacity = Slot(p, n) /\ Slot(p, n) \in Slots
<1>1. p + n \in Nat /\ p + n < Capacity + Capacity
  BY CapacityPositive DEF Slots
<1>2. CASE p + n < Capacity
  BY <1>1, <1>2, CapacityPositive DEF Slot, Slots
<1>3. CASE p + n >= Capacity
  BY <1>1, <1>3, CapacityPositive DEF Slot, Slots
<1> QED  BY <1>1, <1>2, <1>3, CapacityPositive

(* Walking u bytes and then d more is walking u + d bytes.                  *)
LEMMA SlotSlot ==
  ASSUME NEW q \in Slots, NEW u \in 0 .. Capacity, NEW d \in Nat,
         u + d <= Capacity
  PROVE  Slot(q, u + d) = Slot(Slot(q, u), d)
BY CapacityPositive DEF Slot, Slots

(* The used bytes of a ring and the next n free ones share no slot.         *)
LEMMA UsedApartFromFree ==
  ASSUME NEW q \in Slots, NEW u \in 0 .. Capacity, NEW n \in Nat,
         u + n <= Capacity, NEW d \in 0 .. u - 1, NEW p, p = Slot(q, u)
  PROVE  /\ Slot(q, d) \in Slots
         /\ p + n <= Capacity => Slot(q, d) < p \/ Slot(q, d) >= p + n
         /\ p + n > Capacity => Slot(q, d) < p /\ Slot(q, d) >= p + n - Capacity
BY CapacityPositive DEF Slot, Slots

(* memcpy into the ring writes buf at pos and nothing else.                 *)
LEMMA CopyInFacts ==
  ASSUME NEW c \in [Slots -> Byte], NEW p \in Slots, NEW buf \in Seq(Byte),
         NEW n, n = Len(buf), p + n <= Capacity,
         NEW w, w = CopyIn(c, p, buf)
  PROVE  /\ w \in [Slots -> Byte]
         /\ \A i \in Slots : i < p \/ i >= p + n => w[i] = c[i]
         /\ \A j \in 1 .. n : w[p + j - 1] = buf[j]
<1>1. n \in Nat /\ \A i \in 1 .. n : buf[i] \in Byte
  BY LenProperties
<1>2. p \in 0 .. Capacity - 1 /\ p + n <= Capacity
  BY DEF Slots
<1>3. \A i \in Slots : w[i] = IF i \in p .. p + n - 1 THEN buf[i - p + 1] ELSE c[i]
  BY DEF CopyIn
<1>4. w = [i \in Slots |-> w[i]]
  BY DEF CopyIn
<1>5. ASSUME NEW i \in Slots  PROVE w[i] \in Byte
  <2>1. CASE i \in p .. p + n - 1
    <3>1. i - p + 1 \in 1 .. n
      BY <2>1, <1>1, <1>2, CapacityPositive DEF Slots
    <3> QED  BY <3>1, <2>1, <1>1, <1>3
  <2>2. CASE i \notin p .. p + n - 1
    BY <2>2, <1>3
  <2> QED  BY <2>1, <2>2
<1>6. w \in [Slots -> Byte]
  BY <1>4, <1>5
<1>7. \A i \in Slots : i < p \/ i >= p + n => w[i] = c[i]
  BY <1>1, <1>2, <1>3, CapacityPositive DEF Slots
<1>8. ASSUME NEW j \in 1 .. n  PROVE w[p + j - 1] = buf[j]
  <2>1. p + j - 1 \in Slots /\ p + j - 1 \in p .. p + n - 1
    BY <1>1, <1>2, CapacityPositive DEF Slots
  <2>2. (p + j - 1) - p + 1 = j
    BY <1>1, <1>2
  <2> QED  BY <2>1, <2>2, <1>3
<1> QED  BY <1>6, <1>7, <1>8

(* The two pieces of a buffer that is split at k.                           *)
LEMMA SplitBuffer ==
  ASSUME NEW buf \in Seq(Byte), NEW k \in 1 .. Len(buf) - 1
  PROVE  LET first == SubSeq(buf, 1, k)
             rest  == SubSeq(buf, k + 1, Len(buf))
         IN /\ first \in Seq(Byte) /\ Len(first) = k
            /\ \A i \in 1 .. k : first[i] = buf[i]
            /\ rest \in Seq(Byte) /\ Len(rest) = Len(buf) - k
            /\ \A i \in k + 1 .. Len(buf) : rest[i - k] = buf[i]
<1> DEFINE n == Len(buf)
           first == SubSeq(buf, 1, k)
           rest  == SubSeq(buf, k + 1, n)
<1>1. n \in Nat /\ \A i \in 1 .. n : buf[i] \in Byte
  BY LenProperties
<1>2. /\ first \in Seq(Byte) /\ Len(first) = k
      /\ \A i \in 1 .. k - 1 + 1 : first[i] = buf[1 + i - 1]
  BY <1>1, SubSeqProperties
<1>3. \A i \in k + 1 .. n : buf[i] \in Byte
  BY <1>1
<1>4. /\ rest \in Seq(Byte) /\ Len(rest) = n - (k + 1) + 1
      /\ \A i \in 1 .. n - (k + 1) + 1 : rest[i] = buf[(k + 1) + i - 1]
  BY <1>1, <1>3, SubSeqProperties
<1>5. ASSUME NEW i \in k + 1 .. n  PROVE rest[i - k] = buf[i]
  <2>1. i - k \in 1 .. n - (k + 1) + 1 /\ (k + 1) + (i - k) - 1 = i
    BY <1>1
  <2> QED  BY <1>4, <2>1
<1>6. ASSUME NEW i \in 1 .. k  PROVE first[i] = buf[i]
  <2>1. i \in 1 .. k - 1 + 1 /\ 1 + i - 1 = i
    BY <1>1
  <2> QED  BY <1>2, <2>1
<1> QED  BY <1>1, <1>2, <1>4, <1>5, <1>6

(* cache_write_bytes, in one piece or wrapped, appends buf behind the used  *)
(* bytes: those keep their values, and buf follows them.                    *)
LEMMA WriteBytes ==
  ASSUME NEW r \in AgentCacheType, NEW buf \in Seq(Byte), Len(buf) > 0,
         r.used + Len(buf) <= Capacity,
         r.write_pos = Slot(r.read_pos, r.used),
         NEW w, w = cache_write_bytes(r, buf)
  PROVE  /\ w \in AgentCacheType
         /\ w.read_pos = r.read_pos
         /\ w.used = r.used + Len(buf)
         /\ w.write_pos = Slot(w.read_pos, w.used)
         /\ \A d \in 0 .. r.used - 1 :
              w.cache[Slot(w.read_pos, d)] = r.cache[Slot(r.read_pos, d)]
         /\ \A j \in 1 .. Len(buf) :
              w.cache[Slot(w.read_pos, r.used + j - 1)] = buf[j]
<1> DEFINE n == Len(buf)
           p == r.write_pos
           q == r.read_pos
           u == r.used
           c == r.cache
           toEnd == Capacity - p
           first == SubSeq(buf, 1, toEnd)
           rest  == SubSeq(buf, toEnd + 1, n)
<1>1. /\ n \in Nat /\ n > 0 /\ \A i \in 1 .. n : buf[i] \in Byte
      /\ u \in 0 .. Capacity /\ u + n <= Capacity
      /\ p \in Slots /\ q \in Slots /\ p = Slot(q, u)
      /\ c \in [Slots -> Byte]
  BY LenProperties DEF AgentCacheType
<1>2. /\ w = [cache |-> w.cache, read_pos |-> w.read_pos,
              write_pos |-> w.write_pos, used |-> w.used]
      /\ w.read_pos = q
      /\ w.used = u + n
  BY Zenon DEF cache_write_bytes
<1>3. toEnd >= n => /\ w.cache = CopyIn(c, p, buf)
                    /\ w.write_pos = (p + n) % Capacity
  BY DEF cache_write_bytes
<1>4. ~(toEnd >= n) =>
        /\ w.cache = CopyIn(CopyIn(c, p, first), (p + toEnd) % Capacity, rest)
        /\ w.write_pos = (((p + toEnd) % Capacity) + Len(rest)) % Capacity
  BY Zenon DEF cache_write_bytes
<1>5. toEnd \in 1 .. Capacity
  BY <1>1, CapacityPositive DEF Slots
<1> HIDE DEF n, p, q, u, c
<1>6. Slot(q, u + n) = Slot(p, n)
  BY <1>1, SlotSlot
<1>7. ASSUME NEW j \in 1 .. n
      PROVE  Slot(q, u + j - 1) = Slot(p, j - 1)
  <2>1. j - 1 \in Nat /\ u + (j - 1) <= Capacity /\ u + (j - 1) = u + j - 1
    BY <1>1, CapacityPositive
  <2> QED  BY <1>1, <2>1, SlotSlot
<1> SUFFICES /\ w.cache \in [Slots -> Byte]
             /\ w.write_pos = Slot(p, n)
             /\ \A d \in 0 .. u - 1 : w.cache[Slot(q, d)] = c[Slot(q, d)]
             /\ \A j \in 1 .. n : w.cache[Slot(p, j - 1)] = buf[j]
  <2>1. n \in 0 .. Capacity /\ u + n \in 0 .. Capacity
    BY <1>1, CapacityPositive
  <2>2. Slot(p, n) \in Slots
    BY <1>1, <2>1, Advance
  <2>3. w.write_pos = Slot(p, n) /\ w.cache \in [Slots -> Byte] => w \in AgentCacheType
    BY <1>1, <1>2, <2>1, <2>2 DEF AgentCacheType
  <2> QED  BY <1>2, <1>6, <1>7, <2>3 DEF n, p, q, u, c
<1>8. CASE toEnd >= n
  <2>1. n \in 0 .. Capacity /\ p + n <= Capacity
    BY <1>1, <1>5, <1>8, CapacityPositive DEF Slots
  <2>2. w.write_pos = Slot(p, n)
    BY <1>1, <1>3, <1>8, <2>1, Advance, Zenon
  <2>3. /\ w.cache \in [Slots -> Byte]
        /\ \A i \in Slots : i < p \/ i >= p + n => w.cache[i] = c[i]
        /\ \A j \in 1 .. n : w.cache[p + j - 1] = buf[j]
    <3>1. n = Len(buf)  BY DEF n
    <3> QED  BY <1>1, <1>3, <1>8, <2>1, <3>1, CopyInFacts
  <2>4. \A d \in 0 .. u - 1 : w.cache[Slot(q, d)] = c[Slot(q, d)]
    BY <1>1, <2>1, <2>3, UsedApartFromFree, Zenon
  <2>5. ASSUME NEW j \in 1 .. n  PROVE w.cache[Slot(p, j - 1)] = buf[j]
    <3>1. Slot(p, j - 1) = p + j - 1
      BY <1>1, <2>1, CapacityPositive DEF Slot, Slots
    <3> QED  BY <3>1, <2>3
  <2> QED  BY <2>2, <2>3, <2>4, <2>5, Zenon
<1>9. CASE ~(toEnd >= n)
  <2>1. /\ toEnd < n /\ n - toEnd \in 0 .. Capacity /\ n - toEnd <= p
        /\ p + toEnd = Capacity /\ 0 \in Slots
    BY <1>1, <1>5, <1>9, CapacityPositive DEF Slots, Slot
  <2>2. (p + toEnd) % Capacity = 0
    BY <1>1, <1>5, Advance, <2>1, CapacityPositive DEF Slot
  <2>3. /\ first \in Seq(Byte) /\ Len(first) = toEnd
        /\ \A i \in 1 .. toEnd : first[i] = buf[i]
        /\ rest \in Seq(Byte) /\ Len(rest) = n - toEnd
        /\ \A i \in toEnd + 1 .. n : rest[i - toEnd] = buf[i]
    <3>1. toEnd \in 1 .. n - 1  BY <1>1, <1>5, <2>1
    <3> HIDE DEF toEnd
    <3> QED  BY <3>1, SplitBuffer DEF n
  <2> DEFINE one == CopyIn(c, p, first)
  <2>5. w.cache = CopyIn(one, 0, rest) /\ w.write_pos = (0 + (n - toEnd)) % Capacity
    BY <1>4, <1>9, <2>2, <2>3
  <2> HIDE DEF first, rest, toEnd
  <2>6. /\ one \in [Slots -> Byte]
        /\ \A i \in Slots : i < p \/ i >= p + toEnd => one[i] = c[i]
        /\ \A j \in 1 .. toEnd : one[p + j - 1] = first[j]
    <3>1. toEnd = Len(first) /\ p + toEnd <= Capacity
      BY <2>1, <2>3, CapacityPositive
    <3>2. one = CopyIn(c, p, first)
      OBVIOUS
    <3> HIDE DEF one
    <3>3. c \in [Slots -> Byte] /\ p \in Slots /\ first \in Seq(Byte)
      BY <1>1, <2>3
    <3> QED  BY <3>1, <3>2, <3>3, CopyInFacts
  <2> HIDE DEF one
  <2>7. /\ w.cache \in [Slots -> Byte]
        /\ \A i \in Slots : i < 0 \/ i >= 0 + (n - toEnd) => w.cache[i] = one[i]
        /\ \A j \in 1 .. n - toEnd : w.cache[0 + j - 1] = rest[j]
    <3>1. n - toEnd = Len(rest) /\ 0 + (n - toEnd) <= Capacity
      BY <2>1, <2>3, CapacityPositive
    <3> QED  BY <2>1, <2>3, <2>5, <2>6, <3>1, CopyInFacts
  <2>8. w.write_pos = Slot(p, n)
    <3>1. (0 + (n - toEnd)) % Capacity = Slot(0, n - toEnd)
      BY <2>1, Advance
    <3> QED  BY <1>1, <1>5, <2>1, <2>5, <3>1, CapacityPositive DEF Slot, Slots
  <2>9. ASSUME NEW d \in 0 .. u - 1  PROVE w.cache[Slot(q, d)] = c[Slot(q, d)]
    <3>1. Slot(q, d) \in Slots /\ Slot(q, d) < p /\ Slot(q, d) >= p + n - Capacity
      <4>1. p + n > Capacity
        BY <1>1, <1>5, <2>1, CapacityPositive DEF Slots
      <4> QED  BY <1>1, <4>1, UsedApartFromFree
    <3>2. Slot(q, d) >= 0 + (n - toEnd)
      BY <1>1, <1>5, <2>1, <3>1, CapacityPositive DEF Slots
    <3> QED  BY <2>6, <2>7, <3>1, <3>2
  <2>10. ASSUME NEW j \in 1 .. n  PROVE w.cache[Slot(p, j - 1)] = buf[j]
    <3>1. CASE j <= toEnd
      <4>1. Slot(p, j - 1) = p + j - 1 /\ p + j - 1 \in Slots
        BY <1>1, <1>5, <2>1, <3>1, CapacityPositive DEF Slot, Slots
      <4>2. p + j - 1 >= 0 + (n - toEnd)
        BY <1>1, <1>5, <2>1, CapacityPositive DEF Slots
      <4>3. w.cache[p + j - 1] = one[p + j - 1]
        BY <2>7, <4>1, <4>2
      <4> QED  BY <1>1, <1>5, <2>3, <2>6, <3>1, <4>1, <4>3
    <3>2. CASE j > toEnd
      <4>1. Slot(p, j - 1) = 0 + (j - toEnd) - 1
        BY <1>1, <1>5, <2>1, <3>2, CapacityPositive DEF Slot, Slots
      <4>2. j - toEnd \in 1 .. n - toEnd
        BY <1>1, <1>5, <3>2
      <4>3. w.cache[0 + (j - toEnd) - 1] = rest[j - toEnd]
        BY <2>7, <4>2
      <4>4. rest[j - toEnd] = buf[j]
        BY <1>1, <1>5, <2>3, <3>2
      <4> QED  BY <4>1, <4>3, <4>4
    <3> QED  BY <1>1, <1>5, <3>1, <3>2
  <2> QED  BY <2>7, <2>8, <2>9, <2>10, Zenon
<1> QED  BY <1>8, <1>9, Zenon


(* cache_read_bytes and cache_peek_len: n bytes from pos on are the bytes   *)
(* at the distances 0 .. n-1 from it, in one piece or in two.               *)
LEMMA ReadBytes ==
  ASSUME NEW r \in AgentCacheType, NEW pos \in Slots, NEW n \in 1 .. Capacity
  PROVE  /\ BytesFrom(r, pos, n) \in Seq(Byte)
         /\ Len(BytesFrom(r, pos, n)) = n
         /\ \A j \in 1 .. n : BytesFrom(r, pos, n)[j] = r.cache[Slot(pos, j - 1)]
<1> DEFINE c == r.cache
           toEnd == Capacity - pos
           x == BytesFrom(r, pos, n)
<1>1. c \in [Slots -> Byte] /\ n \in Nat /\ pos \in Nat
  BY CapacityPositive DEF AgentCacheType, Slots
<1>2. toEnd \in 1 .. Capacity /\ (pos + toEnd) % Capacity = 0
  <2>1. toEnd \in 1 .. Capacity /\ pos + toEnd = Capacity
    BY CapacityPositive DEF Slots
  <2> QED  BY <2>1, Advance, CapacityPositive DEF Slot, Slots
<1>3. toEnd >= n => x = CopyOut(c, pos, n)
  BY DEF BytesFrom
<1>4. ~(toEnd >= n) => x = CopyOut(c, pos, toEnd) \o CopyOut(c, 0, n - toEnd)
  BY <1>2, Zenon DEF BytesFrom
<1>5. pos + toEnd = Capacity
  BY <1>1, CapacityPositive
<1> HIDE DEF c, toEnd, x
<1> SUFFICES x \in Seq(Byte) /\ Len(x) = n /\ \A j \in 1 .. n : x[j] = c[Slot(pos, j - 1)]
  BY DEF x, c
<1>6. CASE toEnd >= n
  <2>1. x = [i \in 1 .. n |-> c[pos + i - 1]]
    BY <1>3, <1>6 DEF CopyOut
  <2>2. ASSUME NEW j \in 1 .. n
        PROVE  pos + j - 1 \in Slots /\ Slot(pos, j - 1) = pos + j - 1
    BY <1>1, <1>2, <1>5, <1>6, CapacityPositive DEF Slots, Slot
  <2>3. \A j \in 1 .. n : c[pos + j - 1] \in Byte
    BY <1>1, <2>2
  <2>4. x \in Seq(Byte) /\ Len(x) = n
    <3>1. CopyOut(c, pos, n) \in Seq(Byte) /\ Len(CopyOut(c, pos, n)) = n
      BY <1>1, <2>3 DEF CopyOut
    <3> QED  BY <1>3, <1>6, <3>1
  <2> QED  BY <2>1, <2>2, <2>4
<1>7. CASE ~(toEnd >= n)
  <2> DEFINE m == n - toEnd
             a == CopyOut(c, pos, toEnd)
             b == CopyOut(c, 0, m)
  <2>1. m \in 1 .. Capacity /\ m <= pos /\ toEnd \in Nat /\ m \in Nat /\ toEnd + m = n
    BY <1>1, <1>2, <1>5, <1>7, CapacityPositive
  <2> HIDE DEF m
  <2>2. ASSUME NEW j \in 1 .. toEnd
        PROVE  pos + j - 1 \in Slots /\ Slot(pos, j - 1) = pos + j - 1
    BY <1>1, <1>2, <1>5, CapacityPositive DEF Slots, Slot
  <2>3. ASSUME NEW j \in 1 .. m
        PROVE  0 + j - 1 \in Slots
    BY <1>1, <2>1, CapacityPositive DEF Slots
  <2>4. a \in Seq(Byte) /\ Len(a) = toEnd /\ \A j \in 1 .. toEnd : a[j] = c[pos + j - 1]
    BY <1>1, <2>1, <2>2 DEF CopyOut
  <2>5. b \in Seq(Byte) /\ Len(b) = m /\ \A j \in 1 .. m : b[j] = c[0 + j - 1]
    BY <1>1, <2>1, <2>3 DEF CopyOut
  <2>6. x = a \o b
    BY <1>4, <1>7 DEF m
  <2> HIDE DEF a, b
  <2>7. /\ x \in Seq(Byte) /\ Len(x) = toEnd + m
        /\ \A j \in 1 .. toEnd + m : x[j] = IF j <= toEnd THEN a[j] ELSE b[j - toEnd]
    BY <2>1, <2>4, <2>5, <2>6, ConcatProperties
  <2>8. ASSUME NEW j \in 1 .. n  PROVE x[j] = c[Slot(pos, j - 1)]
    <3>1. CASE j <= toEnd
      <4>1. x[j] = a[j] /\ j \in 1 .. toEnd
        BY <1>1, <2>1, <2>7, <3>1
      <4> QED  BY <2>2, <2>4, <4>1
    <3>2. CASE j > toEnd
      <4>1. j - toEnd \in 1 .. m /\ Slot(pos, j - 1) = 0 + (j - toEnd) - 1
        BY <1>1, <1>5, <2>1, <3>2, CapacityPositive DEF Slot
      <4>2. x[j] = b[j - toEnd]
        BY <1>1, <2>1, <2>7, <3>2
      <4> QED  BY <2>5, <4>1, <4>2
    <3> QED  BY <1>1, <2>1, <3>1, <3>2
  <2> QED  BY <2>1, <2>7, <2>8
<1> QED  BY <1>6, <1>7

(* The position and the count after cache_read_bytes.                       *)
LEMMA ReadAdvances ==
  ASSUME NEW r, r \in AgentCacheType, NEW n \in 1 .. Capacity, n <= r.used,
         NEW w, w = cache_read_bytes(r, n)
  PROVE  /\ w \in AgentCacheType
         /\ w.cache = r.cache
         /\ w.write_pos = r.write_pos
         /\ w.read_pos = Slot(r.read_pos, n)
         /\ w.used = r.used - n
<1> DEFINE p == r.read_pos
           u == r.used
           toEnd == Capacity - p
<1>1. /\ p \in Slots /\ p \in Nat /\ u \in 0 .. Capacity /\ n \in Nat
      /\ r.write_pos \in Slots /\ r.cache \in [Slots -> Byte]
  BY CapacityPositive DEF AgentCacheType, Slots
<1>2. /\ w.cache = r.cache
      /\ w.write_pos = r.write_pos
      /\ w.read_pos = IF toEnd >= n THEN (p + n) % Capacity
                      ELSE (((p + toEnd) % Capacity) + (n - toEnd)) % Capacity
      /\ w.used = u - n
      /\ w = [cache |-> w.cache, read_pos |-> w.read_pos,
              write_pos |-> w.write_pos, used |-> w.used]
  BY Zenon DEF cache_read_bytes, AgentCacheType
<1> HIDE DEF p, u
<1>3. Slot(p, n) \in Slots /\ (p + n) % Capacity = Slot(p, n)
  <2>1. n \in 0 .. Capacity
    BY CapacityPositive
  <2> QED  BY <1>1, <2>1, Advance
<1>4. w.read_pos = Slot(p, n)
  <2>1. CASE toEnd >= n
    BY <1>2, <1>3, <2>1
  <2>2. CASE ~(toEnd >= n)
    <3>1. toEnd \in 0 .. Capacity /\ p + toEnd = Capacity /\ n - toEnd \in 0 .. Capacity
          /\ 0 \in Slots
      BY <1>1, <2>2, CapacityPositive DEF Slots
    <3>2. (p + toEnd) % Capacity = 0
      BY <1>1, <3>1, Advance, CapacityPositive DEF Slot
    <3>3. (0 + (n - toEnd)) % Capacity = Slot(0, n - toEnd)
      BY <3>1, Advance
    <3>4. Slot(0, n - toEnd) = Slot(p, n)
      BY <1>1, <2>2, <3>1, CapacityPositive DEF Slot, Slots
    <3> QED  BY <1>2, <2>2, <3>2, <3>3, <3>4
  <2> QED  BY <2>1, <2>2
<1>5. u - n \in 0 .. Capacity
  BY <1>1, CapacityPositive DEF u
<1> QED  BY <1>1, <1>2, <1>3, <1>4, <1>5 DEF AgentCacheType, p, u


(* What the assumptions say of a buffer a caller may write.                 *)
LEMMA BufferFacts ==
  ASSUME NEW buf \in Buffers, NEW n, n = Len(buf)
  PROVE  /\ buf \in Seq(Byte) /\ n \in 0 .. SizeMax /\ n \in Nat
         /\ LenBytes(n) \in Seq(Byte)
         /\ Len(LenBytes(n)) = HeadLen
         /\ LenOf(LenBytes(n)) = n
<1>1. buf \in Seq(Byte) /\ n \in Nat /\ n <= SizeMax
  BY CacheAssumption, LenProperties
<1>2. n \in 0 .. SizeMax
  BY <1>1, CacheAssumption
<1> QED  BY <1>1, <1>2, LenCoding

(* The two writes of kvs_agent_cache_write, taken together.                 *)
LEMMA WriteRecord ==
  ASSUME NEW r \in AgentCacheType, NEW buf \in Buffers, NEW n, n = Len(buf), n > 0,
         HeadLen + n <= Capacity - r.used,
         r.write_pos = Slot(r.read_pos, r.used),
         NEW h, h = cache_write_bytes(r, LenBytes(n)),
         NEW w, w = cache_write_bytes(h, buf),
         NEW rec, rec = [at |-> r.used, buf |-> buf]
  PROVE  /\ w \in AgentCacheType
         /\ w.read_pos = r.read_pos
         /\ w.used = r.used + HeadLen + n
         /\ w.write_pos = Slot(w.read_pos, w.used)
         /\ Room(r, HeadLen) /\ Room(h, n)
         /\ \A d \in 0 .. r.used - 1 :
              w.cache[Slot(w.read_pos, d)] = r.cache[Slot(r.read_pos, d)]
         /\ HoldsRecord(w, rec)
<1> DEFINE u == r.used
           lb == LenBytes(n)
<1>1. /\ u \in 0 .. Capacity /\ u \in Nat /\ n \in Nat
      /\ buf \in Seq(Byte) /\ lb \in Seq(Byte) /\ Len(lb) = HeadLen
      /\ HeadLen + n <= Capacity - u
  BY BufferFacts, CapacityPositive DEF AgentCacheType
<1> HIDE DEF u, lb
<1>2. u + HeadLen <= Capacity /\ HeadLen > 0 /\ (u + HeadLen) + n <= Capacity
  BY <1>1, CapacityPositive
<1>3. /\ h \in AgentCacheType
      /\ h.read_pos = r.read_pos
      /\ h.used = u + HeadLen
      /\ h.write_pos = Slot(h.read_pos, h.used)
      /\ \A d \in 0 .. u - 1 : h.cache[Slot(h.read_pos, d)] = r.cache[Slot(r.read_pos, d)]
      /\ \A j \in 1 .. HeadLen : h.cache[Slot(h.read_pos, u + j - 1)] = lb[j]
  <2>1. /\ Len(lb) > 0 /\ r.used + Len(lb) <= Capacity
        /\ h = cache_write_bytes(r, lb)
    BY <1>1, <1>2 DEF u, lb
  <2>2. /\ h \in AgentCacheType
        /\ h.read_pos = r.read_pos
        /\ h.used = r.used + Len(lb)
        /\ h.write_pos = Slot(h.read_pos, h.used)
        /\ \A d \in 0 .. r.used - 1 : h.cache[Slot(h.read_pos, d)] = r.cache[Slot(r.read_pos, d)]
        /\ \A j \in 1 .. Len(lb) : h.cache[Slot(h.read_pos, r.used + j - 1)] = lb[j]
    BY <1>1, <2>1, WriteBytes
  <2> QED  BY <1>1, <2>2 DEF u
<1>4. /\ w \in AgentCacheType
      /\ w.read_pos = h.read_pos
      /\ w.used = h.used + Len(buf)
      /\ w.write_pos = Slot(w.read_pos, w.used)
      /\ \A d \in 0 .. h.used - 1 : w.cache[Slot(w.read_pos, d)] = h.cache[Slot(h.read_pos, d)]
      /\ \A j \in 1 .. Len(buf) : w.cache[Slot(w.read_pos, h.used + j - 1)] = buf[j]
  <2>1. Len(buf) > 0 /\ h.used + Len(buf) <= Capacity
    BY <1>1, <1>2, <1>3
  <2>2. h \in AgentCacheType /\ h.write_pos = Slot(h.read_pos, h.used)
    BY <1>3
  <2>3. buf \in Seq(Byte)
    BY <1>1
  <2> QED  BY <2>1, <2>2, <2>3, WriteBytes
<1>5. ASSUME NEW d \in 0 .. u + HeadLen - 1
      PROVE  w.cache[Slot(w.read_pos, d)] = h.cache[Slot(h.read_pos, d)]
  <2>1. h.used = u + HeadLen
    BY <1>3
  <2>2. d \in 0 .. h.used - 1
    BY <1>1, <2>1, CapacityPositive
  <2> QED  BY <1>4, <2>2, Zenon
<1>6. ASSUME NEW d \in 0 .. u - 1
      PROVE  w.cache[Slot(w.read_pos, d)] = r.cache[Slot(r.read_pos, d)]
  <2>1. d \in 0 .. u + HeadLen - 1
    BY <1>1, CapacityPositive
  <2> QED  BY <1>3, <1>5, <2>1
<1>7. ASSUME NEW j \in 1 .. HeadLen
      PROVE  w.cache[Slot(w.read_pos, u + j - 1)] = lb[j]
  <2>1. u + j - 1 \in 0 .. u + HeadLen - 1
    BY <1>1, CapacityPositive
  <2> QED  BY <1>3, <1>5, <2>1
<1>8. ASSUME NEW j \in 1 .. n
      PROVE  w.cache[Slot(w.read_pos, u + HeadLen + j - 1)] = buf[j]
  BY <1>3, <1>4
<1>9. HoldsRecord(w, rec)
  <2>1. rec.at = u /\ rec.buf = buf /\ Len(rec.buf) = n
    BY DEF u
  <2> QED  BY <1>7, <1>8, <2>1 DEF HoldsRecord, lb
<1>10. w.used = u + HeadLen + n
  BY <1>3, <1>4
<1>11. Room(r, HeadLen) /\ Room(h, n)
  <2>1. Capacity - u >= HeadLen /\ Capacity - (u + HeadLen) >= n
    BY <1>1, <1>2, CapacityPositive
  <2> QED  BY <1>3, <2>1 DEF Room, u
<1> QED  BY <1>3, <1>4, <1>6, <1>9, <1>10, <1>11, Zenon DEF u

(* A record keeps its bytes when bytes are written behind it.               *)
LEMMA WriteKeepsRecord ==
  ASSUME NEW r, NEW w, NEW rec, r.used \in Nat, rec.at \in Nat, Len(rec.buf) \in Nat,
         RecordEnd(rec) <= r.used, HoldsRecord(r, rec),
         \A d \in 0 .. r.used - 1 :
           w.cache[Slot(w.read_pos, d)] = r.cache[Slot(r.read_pos, d)]
  PROVE  HoldsRecord(w, rec)
<1> DEFINE n == Len(rec.buf)
           a == rec.at
           u == r.used
<1>1. n \in Nat /\ a \in Nat /\ u \in Nat /\ a + HeadLen + n <= u
  BY DEF RecordEnd
<1>2. \A d \in 0 .. u - 1 : w.cache[Slot(w.read_pos, d)] = r.cache[Slot(r.read_pos, d)]
  OBVIOUS
<1>3. /\ \A j \in 1 .. HeadLen : r.cache[Slot(r.read_pos, a + j - 1)] = LenBytes(n)[j]
      /\ \A j \in 1 .. n : r.cache[Slot(r.read_pos, a + HeadLen + j - 1)] = rec.buf[j]
  BY DEF HoldsRecord
<1> HIDE DEF n, a, u
<1>4. ASSUME NEW j \in 1 .. HeadLen
      PROVE  w.cache[Slot(w.read_pos, a + j - 1)] = LenBytes(n)[j]
  <2>1. a + j - 1 \in 0 .. u - 1
    BY <1>1, CapacityPositive
  <2> QED  BY <1>2, <1>3, <2>1, Zenon
<1>5. ASSUME NEW j \in 1 .. n
      PROVE  w.cache[Slot(w.read_pos, a + HeadLen + j - 1)] = rec.buf[j]
  <2>1. a + HeadLen + j - 1 \in 0 .. u - 1
    BY <1>1, CapacityPositive
  <2> QED  BY <1>2, <1>3, <2>1, Zenon
<1> QED  BY <1>4, <1>5 DEF HoldsRecord, a, n


(* A record keeps its bytes, at a smaller distance, when the bytes in front *)
(* of it are consumed.                                                      *)
LEMMA ReadKeepsRecord ==
  ASSUME NEW r \in AgentCacheType, NEW k \in 0 .. Capacity, NEW w, NEW rec, NEW moved,
         rec.at \in Nat, Len(rec.buf) \in Nat, k <= rec.at,
         RecordEnd(rec) <= r.used, HoldsRecord(r, rec),
         w.cache = r.cache, w.read_pos = Slot(r.read_pos, k),
         moved = [at |-> rec.at - k, buf |-> rec.buf]
  PROVE  HoldsRecord(w, moved)
<1> DEFINE n == Len(rec.buf)
           a == rec.at
           b == a - k
           q == r.read_pos
<1>1. /\ n \in Nat /\ a \in Nat /\ q \in Slots /\ k \in Nat
      /\ b \in Nat /\ k + b = a /\ a + HeadLen + n <= Capacity
  BY CapacityPositive DEF RecordEnd, AgentCacheType
<1>2. /\ \A j \in 1 .. HeadLen : w.cache[Slot(q, a + j - 1)] = LenBytes(n)[j]
      /\ \A j \in 1 .. n : w.cache[Slot(q, a + HeadLen + j - 1)] = rec.buf[j]
  BY DEF HoldsRecord
<1>3. moved.at = b /\ moved.buf = rec.buf /\ w.read_pos = Slot(q, k)
  OBVIOUS
<1> HIDE DEF n, a, b, q
<1>4. ASSUME NEW j \in 1 .. HeadLen
      PROVE  w.cache[Slot(Slot(q, k), b + j - 1)] = LenBytes(n)[j]
  <2>1. b + j - 1 \in Nat /\ k + (b + j - 1) <= Capacity /\ k + (b + j - 1) = a + j - 1
    BY <1>1, CapacityPositive
  <2> DEFINE d == b + j - 1
  <2> HIDE DEF d
  <2>2. Slot(q, k + d) = Slot(Slot(q, k), d)
    BY <1>1, <2>1, SlotSlot DEF d
  <2> QED  BY <1>2, <2>1, <2>2 DEF d
<1>5. ASSUME NEW j \in 1 .. n
      PROVE  w.cache[Slot(Slot(q, k), b + HeadLen + j - 1)] = rec.buf[j]
  <2>1. /\ b + HeadLen + j - 1 \in Nat /\ k + (b + HeadLen + j - 1) <= Capacity
        /\ k + (b + HeadLen + j - 1) = a + HeadLen + j - 1
    <3>1. j \in Nat /\ j >= 1 /\ j <= n
      BY <1>1
    <3>2. n \in Nat /\ k \in Nat /\ b \in Nat /\ a \in Nat /\ k + b = a
      BY <1>1
    <3>3. a + HeadLen + n <= Capacity
      BY <1>1
    <3>4. k + (b + HeadLen + j - 1) = a + HeadLen + j - 1
      BY <3>1, <3>2, CapacityPositive
    <3>5. a + HeadLen + j - 1 <= Capacity /\ b + HeadLen + j - 1 \in Nat
      BY <3>1, <3>2, <3>3, CapacityPositive
    <3> QED  BY <3>4, <3>5
  <2> DEFINE d == b + HeadLen + j - 1
  <2> HIDE DEF d
  <2>2. Slot(q, k + d) = Slot(Slot(q, k), d)
    <3>1. q \in Slots /\ d \in Nat /\ k + d <= Capacity
      BY <1>1, <2>1 DEF d
    <3> QED  BY <3>1, SlotSlot
  <2> QED  BY <1>2, <2>1, <2>2 DEF d
<1> QED  BY <1>3, <1>4, <1>5 DEF HoldsRecord, n

(* The oldest record is read back: cache_peek_len finds its length, and the *)
(* bytes behind the prefix are its buffer.                                  *)
LEMMA ReadOldest ==
  ASSUME NEW r \in AgentCacheType, NEW rec, rec.at = 0, rec.buf \in Buffers,
         NEW n, n = Len(rec.buf), n > 0,
         RecordEnd(rec) <= r.used, HoldsRecord(r, rec),
         NEW skip, skip = SkipLen(r),
         NEW w, w = cache_read_bytes(skip, n)
  PROVE  /\ HeadLen + n <= r.used
         /\ cache_peek_len(r) = n
         /\ BytesFrom(skip, skip.read_pos, n) = rec.buf
         /\ w \in AgentCacheType
         /\ w.cache = r.cache
         /\ w.write_pos = r.write_pos
         /\ w.read_pos = Slot(r.read_pos, HeadLen + n)
         /\ w.used = r.used - (HeadLen + n)
<1> DEFINE q == r.read_pos
           u == r.used
           c == r.cache
           hd == BytesFrom(r, q, HeadLen)
           bd == BytesFrom(skip, skip.read_pos, n)
<1>1. /\ n \in Nat /\ rec.buf \in Seq(Byte) /\ LenBytes(n) \in Seq(Byte)
      /\ Len(LenBytes(n)) = HeadLen /\ LenOf(LenBytes(n)) = n
  BY BufferFacts
<1>2. /\ q \in Slots /\ q \in Nat /\ u \in 0 .. Capacity /\ c \in [Slots -> Byte]
      /\ r.write_pos \in Slots
  BY CapacityPositive DEF AgentCacheType, Slots
<1>3. HeadLen + n <= u /\ 0 + HeadLen + n <= u
  BY <1>1, CapacityPositive DEF RecordEnd
<1>4. /\ skip.cache = c /\ skip.used = u - HeadLen /\ skip.write_pos = r.write_pos
      /\ skip.read_pos = (q + HeadLen) % Capacity
      /\ skip = [cache |-> skip.cache, read_pos |-> skip.read_pos,
                 write_pos |-> skip.write_pos, used |-> skip.used]
  BY Zenon DEF AgentCacheType, SkipLen
<1>5. /\ \A j \in 1 .. HeadLen : c[Slot(q, 0 + j - 1)] = LenBytes(n)[j]
      /\ \A j \in 1 .. n : c[Slot(q, 0 + HeadLen + j - 1)] = rec.buf[j]
  BY DEF HoldsRecord
<1> HIDE DEF q, u, c
<1>6. HeadLen \in 1 .. Capacity /\ n \in 1 .. Capacity /\ HeadLen \in 0 .. Capacity
      /\ u - HeadLen \in 0 .. Capacity /\ n <= u - HeadLen /\ HeadLen + n <= Capacity
  BY <1>1, <1>2, <1>3, CapacityPositive
<1>7. skip.read_pos = Slot(q, HeadLen) /\ skip.read_pos \in Slots
  BY <1>2, <1>4, <1>6, Advance
<1>8. skip \in AgentCacheType
  BY <1>2, <1>4, <1>6, <1>7 DEF AgentCacheType
<1>9. cache_peek_len(r) = n
  <2>1. /\ hd \in Seq(Byte) /\ Len(hd) = HeadLen
        /\ \A j \in 1 .. HeadLen : hd[j] = c[Slot(q, j - 1)]
    BY <1>2, <1>6, ReadBytes DEF c
  <2>2. cache_peek_len(r) = LenOf(hd)
    BY DEF cache_peek_len, q
  <2> HIDE DEF hd
  <2>3. ASSUME NEW j \in 1 .. HeadLen  PROVE hd[j] = LenBytes(n)[j]
    <3>1. 0 + j - 1 = j - 1
      BY CapacityPositive
    <3> QED  BY <1>5, <2>1, <3>1
  <2>4. hd = LenBytes(n)
    BY <1>1, <2>1, <2>3, SeqEqual
  <2> QED  BY <1>1, <2>2, <2>4
<1>10. bd = rec.buf
  <2>1. /\ bd \in Seq(Byte) /\ Len(bd) = n
        /\ \A j \in 1 .. n : bd[j] = c[Slot(skip.read_pos, j - 1)]
    BY <1>4, <1>6, <1>7, <1>8, ReadBytes
  <2> HIDE DEF bd
  <2>2. ASSUME NEW j \in 1 .. n  PROVE bd[j] = rec.buf[j]
    <3>1. j - 1 \in Nat /\ HeadLen + (j - 1) <= Capacity /\ HeadLen + (j - 1) = 0 + HeadLen + j - 1
      BY <1>1, <1>6, CapacityPositive
    <3>2. Slot(q, 0 + HeadLen + j - 1) = Slot(skip.read_pos, j - 1)
      BY <1>2, <1>6, <1>7, <3>1, SlotSlot
    <3> QED  BY <1>5, <2>1, <3>2
  <2> QED  BY <1>1, <2>1, <2>2, SeqEqual
<1>11. /\ w \in AgentCacheType
       /\ w.cache = skip.cache
       /\ w.write_pos = skip.write_pos
       /\ w.read_pos = Slot(skip.read_pos, n)
       /\ w.used = skip.used - n
  <2>1. n <= skip.used
    BY <1>4, <1>6
  <2>2. n \in 1 .. Capacity
    BY <1>6
  <2> QED  BY <1>8, <2>1, <2>2, ReadAdvances
<1>12. Slot(skip.read_pos, n) = Slot(q, HeadLen + n)
  BY <1>1, <1>2, <1>6, <1>7, SlotSlot
<1>13. skip.used - n = u - (HeadLen + n)
  BY <1>1, <1>2, <1>4, CapacityPositive
<1> HIDE DEF bd
<1> QED  BY <1>3, <1>4, <1>9, <1>10, <1>11, <1>12, <1>13 DEF q, u, c, bd


(* The inductive invariant: RingHoldsRecords is inductive once the fields   *)
(* and the history have their types.                                        *)
Inv == TypeOK /\ RingHoldsRecords

(* kvs_agent_cache_create makes an empty ring, whatever malloc left in it.  *)
LEMMA InitInv == Init => Inv
<1> SUFFICES ASSUME Init PROVE Inv
  OBVIOUS
<1>1. /\ ac \in AgentCacheType /\ ac.used = 0 /\ ac.read_pos = 0 /\ ac.write_pos = 0
  BY CapacityPositive DEF Init, AgentCacheType, Slots
<1>2. Slot(0, 0) = 0
  BY CapacityPositive DEF Slot
<1>3. stored = <<>> /\ Len(stored) = 0 /\ arg = NULL /\ ret = 0 /\ out = NULL
  BY DEF Init
<1>4. TypeOK
  BY <1>1, <1>3 DEF TypeOK
<1>5. RingHoldsRecords
  BY <1>1, <1>2, <1>3 DEF RingHoldsRecords
<1> QED  BY <1>4, <1>5 DEF Inv

(* The records of the history, one by one.                                  *)
LEMMA StoredFacts ==
  ASSUME Inv, NEW i \in 1 .. Len(stored)
  PROVE  /\ stored[i].at \in 0 .. Capacity /\ stored[i].buf \in Buffers
         /\ stored[i] \in [at : 0 .. Capacity, buf : Buffers]
         /\ stored[i].buf \in Seq(Byte)
         /\ Len(stored[i].buf) \in Nat /\ Len(stored[i].buf) > 0
         /\ RecordEnd(stored[i]) \in Nat
         /\ RecordEnd(stored[i]) <= ac.used
         /\ HoldsRecord(ac, stored[i])
         /\ i > 1 => stored[i].at = RecordEnd(stored[i - 1])
         /\ \A k \in 1 .. i - 1 : RecordEnd(stored[k]) <= stored[i].at
<1>1. stored[i] \in [at : 0 .. Capacity, buf : Buffers]
  BY ElementOfSeq, Zenon DEF Inv, TypeOK
<1>2. stored[i].at \in 0 .. Capacity /\ stored[i].buf \in Buffers
  BY <1>1
<1>3. stored[i].buf \in Seq(Byte) /\ Len(stored[i].buf) \in Nat
  BY <1>2, BufferFacts
<1>4. RecordEnd(stored[i]) \in Nat
  BY <1>2, <1>3, CapacityPositive DEF RecordEnd
<1> QED  BY <1>1, <1>2, <1>3, <1>4 DEF Inv, RingHoldsRecords

(* An accepted kvs_agent_cache_write keeps the invariant.                   *)
LEMMA WriteKeepsInv ==
  ASSUME Inv, NEW buf \in Buffers, WriteStored(buf)
  PROVE  Inv'
<1> DEFINE n == Len(buf)
           m == Len(stored)
           u == ac.used
           h == cache_write_bytes(ac, LenBytes(n))
           w == cache_write_bytes(h, buf)
           rec == [at |-> u, buf |-> buf]
<1>1. /\ ac \in AgentCacheType /\ u \in 0 .. Capacity /\ u \in Nat
      /\ ac.write_pos = Slot(ac.read_pos, ac.used)
      /\ stored \in Seq([at : 0 .. Capacity, buf : Buffers]) /\ m \in Nat
  BY LenProperties, CapacityPositive DEF Inv, TypeOK, RingHoldsRecords, AgentCacheType
<1>2. n \in Nat /\ n > 0 /\ HeadLen + n <= Capacity - u
  BY <1>1, BufferFacts, CapacityPositive DEF WriteStored, Room
<1>3. rec \in [at : 0 .. Capacity, buf : Buffers] /\ rec.at = u /\ rec.buf = buf
  BY <1>1
<1>4. /\ stored' = Append(stored, rec)
      /\ out' = out /\ arg' = buf
      /\ Room(ac, HeadLen) /\ Room(h, n) => ac' = w /\ ret' = 0
  BY DEF WriteStored
<1>5. /\ w \in AgentCacheType
      /\ w.read_pos = ac.read_pos
      /\ w.used = ac.used + HeadLen + n
      /\ w.write_pos = Slot(w.read_pos, w.used)
      /\ Room(ac, HeadLen) /\ Room(h, n)
      /\ \A d \in 0 .. ac.used - 1 :
           w.cache[Slot(w.read_pos, d)] = ac.cache[Slot(ac.read_pos, d)]
      /\ HoldsRecord(w, rec)
  <2>1. n = Len(buf) /\ h = cache_write_bytes(ac, LenBytes(n)) /\ w = cache_write_bytes(h, buf)
        /\ rec = [at |-> ac.used, buf |-> buf]
    OBVIOUS
  <2>2. HeadLen + n <= Capacity - ac.used
    BY <1>2
  <2> HIDE DEF n, h, w, rec, u, m
  <2> QED  BY <1>1, <1>2, <2>1, <2>2, WriteRecord
<1> HIDE DEF h, w
<1>6. ac' = w /\ ret' = 0
  BY <1>4, <1>5
<1> HIDE DEF rec, n
<1>7. /\ stored' \in Seq([at : 0 .. Capacity, buf : Buffers])
      /\ Len(stored') = m + 1 /\ stored' # <<>>
      /\ \A i \in 1 .. m : stored'[i] = stored[i]
      /\ stored'[m + 1] = rec
  BY <1>1, <1>3, <1>4, AppendProperties
<1> HIDE DEF m
<1>8. TypeOK'
  BY <1>4, <1>5, <1>6, <1>7 DEF TypeOK, Inv
<1>9. RecordEnd(rec) = w.used /\ RecordEnd(rec) = u + HeadLen + n
  BY <1>3, <1>5 DEF RecordEnd, n
<1>10. ASSUME NEW i \in 1 .. m
       PROVE  /\ RecordEnd(stored[i]) <= u /\ RecordEnd(stored[i]) <= w.used
              /\ Len(stored[i].buf) > 0
              /\ HoldsRecord(w, stored[i])
              /\ i > 1 => stored[i].at = RecordEnd(stored[i - 1])
              /\ \A k \in 1 .. i - 1 : RecordEnd(stored[k]) <= stored[i].at
  <2>1. /\ stored[i].at \in Nat /\ Len(stored[i].buf) \in Nat /\ Len(stored[i].buf) > 0
        /\ RecordEnd(stored[i]) \in Nat /\ RecordEnd(stored[i]) <= ac.used
        /\ HoldsRecord(ac, stored[i])
        /\ i > 1 => stored[i].at = RecordEnd(stored[i - 1])
        /\ \A k \in 1 .. i - 1 : RecordEnd(stored[k]) <= stored[i].at
    BY StoredFacts, CapacityPositive DEF m
  <2>2. HoldsRecord(w, stored[i])
    BY <1>1, <1>5, <2>1, WriteKeepsRecord, Zenon
  <2>3. RecordEnd(stored[i]) <= w.used
    BY <1>1, <1>2, <1>5, <2>1, CapacityPositive
  <2> QED  BY <2>1, <2>2, <2>3
<1>11. ASSUME NEW i \in 1 .. m + 1
       PROVE  /\ Len(stored'[i].buf) > 0
              /\ RecordEnd(stored'[i]) <= w.used
              /\ HoldsRecord(w, stored'[i])
              /\ i > 1 => stored'[i].at = RecordEnd(stored'[i - 1])
              /\ \A k \in 1 .. i - 1 : RecordEnd(stored'[k]) <= stored'[i].at
  <2>1. CASE i \in 1 .. m
    <3>1. stored'[i] = stored[i] /\ (i > 1 => stored'[i - 1] = stored[i - 1])
      BY <1>1, <1>7, <2>1
    <3>2. \A k \in 1 .. i - 1 : stored'[k] = stored[k]
      BY <1>1, <1>7, <2>1
    <3> QED  BY <1>10, <2>1, <3>1, <3>2
  <2>2. CASE i = m + 1
    <3>1. stored'[i] = rec /\ rec.at = u /\ rec.buf = buf
      BY <1>3, <1>7, <2>2
    <3>2. ASSUME NEW k \in 1 .. i - 1  PROVE RecordEnd(stored'[k]) <= u
      <4>1. k \in 1 .. m
        BY <1>1, <2>2
      <4>2. stored'[k] = stored[k]
        BY <1>7, <4>1
      <4> QED  BY <1>10, <4>1, <4>2
    <3>3. i > 1 => u = RecordEnd(stored'[i - 1])
      <4>1. i > 1 => m \in 1 .. m /\ i - 1 = m
        BY <1>1, <2>2
      <4>2. i > 1 => stored'[i - 1] = stored[m]
        BY <1>7, <4>1
      <4>3. stored # <<>> => u = RecordEnd(stored[m])
        BY DEF Inv, RingHoldsRecords, m
      <4>4. i > 1 => stored # <<>>
        BY <1>1, <4>1, EmptySeq DEF m
      <4> QED  BY <4>2, <4>3, <4>4
    <3>4. RecordEnd(rec) <= w.used
      BY <1>1, <1>2, <1>9, CapacityPositive
    <3> QED  BY <1>2, <1>5, <3>1, <3>2, <3>3, <3>4 DEF n
  <2> QED  BY <1>1, <2>1, <2>2
<1>12. stored'[1].at = 0
  <2>1. CASE m = 0
    <3>1. stored = <<>>
      BY <1>1, <2>1, EmptySeq DEF m
    <3> QED  BY <1>3, <1>7, <2>1, <3>1 DEF Inv, RingHoldsRecords
  <2>2. CASE m > 0
    <3>1. stored'[1] = stored[1] /\ stored # <<>>
      BY <1>1, <1>7, <2>2 DEF m
    <3> QED  BY <3>1 DEF Inv, RingHoldsRecords
  <2> QED  BY <1>1, <2>1, <2>2
<1>13. RingHoldsRecords'
  BY <1>5, <1>6, <1>7, <1>9, <1>11, <1>12, Zenon DEF RingHoldsRecords, HoldsRecord, RecordEnd
<1> QED  BY <1>8, <1>13 DEF Inv


(* A successful read returns the oldest record of the history.              *)
LEMMA ReadFacts ==
  ASSUME Inv, ReadRecord, NEW n, n = Len(stored[1].buf), NEW k, k = HeadLen + n
  PROVE  /\ Len(stored) >= 1 /\ 1 \in 1 .. Len(stored)
         /\ n \in Nat /\ n > 0 /\ k \in 0 .. Capacity /\ k = RecordEnd(stored[1])
         /\ out' = stored[1].buf
         /\ stored' = [i \in 1 .. Len(stored) - 1 |->
                         [at |-> stored[i + 1].at - k, buf |-> stored[i + 1].buf]]
         /\ ret' = ret /\ arg' = arg
         /\ ac' \in AgentCacheType
         /\ ac'.cache = ac.cache
         /\ ac'.write_pos = ac.write_pos
         /\ ac'.read_pos = Slot(ac.read_pos, k)
         /\ ac'.used = ac.used - k
<1>1. /\ ac \in AgentCacheType /\ ac.used \in 0 .. Capacity
      /\ stored \in Seq([at : 0 .. Capacity, buf : Buffers]) /\ Len(stored) \in Nat
  BY LenProperties DEF Inv, TypeOK, AgentCacheType
<1>2. stored # <<>>
  <2>1. ac.used >= HeadLen
    BY DEF ReadRecord, Readable
  <2>2. ac.used # 0
    BY <1>1, <2>1, CapacityPositive
  <2> QED  BY <2>2 DEF Inv, RingHoldsRecords
<1>3. Len(stored) >= 1 /\ 1 \in 1 .. Len(stored)
  BY <1>1, <1>2, EmptySeq
<1> DEFINE rec == stored[1]
<1>4. /\ rec.at = 0 /\ rec.buf \in Buffers /\ n = Len(rec.buf) /\ n \in Nat /\ n > 0
      /\ RecordEnd(rec) <= ac.used /\ HoldsRecord(ac, rec)
  BY <1>2, <1>3, StoredFacts DEF Inv, RingHoldsRecords
<1> DEFINE skip == SkipLen(ac)
           w == cache_read_bytes(skip, n)
<1>5. skip = SkipLen(ac) /\ w = cache_read_bytes(skip, n)
  OBVIOUS
<1>6. /\ out' = BytesFrom(skip, skip.read_pos, cache_peek_len(ac))
      /\ ac' = cache_read_bytes(skip, cache_peek_len(ac))
      /\ stored' = [i \in 1 .. Len(stored) - 1 |->
                      [at  |-> stored[i + 1].at - (HeadLen + cache_peek_len(ac)),
                       buf |-> stored[i + 1].buf]]
      /\ ret' = ret /\ arg' = arg
  BY DEF ReadRecord
<1>7. k = RecordEnd(rec)
  BY <1>4, CapacityPositive DEF RecordEnd
<1> HIDE DEF rec, skip, w
<1>8. /\ HeadLen + n <= ac.used
      /\ cache_peek_len(ac) = n
      /\ BytesFrom(skip, skip.read_pos, n) = rec.buf
      /\ w \in AgentCacheType
      /\ w.cache = ac.cache
      /\ w.write_pos = ac.write_pos
      /\ w.read_pos = Slot(ac.read_pos, HeadLen + n)
      /\ w.used = ac.used - (HeadLen + n)
  BY <1>1, <1>4, <1>5, ReadOldest
<1>9. k \in 0 .. Capacity
  BY <1>1, <1>4, <1>8, CapacityPositive
<1>10. ac' = w /\ out' = rec.buf
  BY <1>5, <1>6, <1>8
<1>11. stored' = [i \in 1 .. Len(stored) - 1 |->
                    [at |-> stored[i + 1].at - k, buf |-> stored[i + 1].buf]]
  BY <1>6, <1>8
<1> QED  BY <1>3, <1>4, <1>6, <1>7, <1>8, <1>9, <1>10, <1>11, Zenon DEF rec

(* A kvs_agent_cache_read that returns a record keeps the invariant.        *)
LEMMA ReadKeepsInv ==
  ASSUME Inv, ReadRecord
  PROVE  Inv'
<1> DEFINE n == Len(stored[1].buf)
           k == HeadLen + n
           m == Len(stored)
           u == ac.used
           q == ac.read_pos
           Rec == [at : 0 .. Capacity, buf : Buffers]
           moved(i) == [at |-> stored[i + 1].at - k, buf |-> stored[i + 1].buf]
<1>1. /\ ac \in AgentCacheType /\ u \in 0 .. Capacity /\ u \in Nat /\ q \in Slots
      /\ ac.write_pos = Slot(q, u)
      /\ stored \in Seq(Rec) /\ m \in Nat
  BY LenProperties, CapacityPositive DEF Inv, TypeOK, RingHoldsRecords, AgentCacheType
<1>2. /\ m >= 1 /\ 1 \in 1 .. m
      /\ n \in Nat /\ n > 0 /\ k \in 0 .. Capacity /\ k = RecordEnd(stored[1])
      /\ out' = stored[1].buf
      /\ stored' = [i \in 1 .. m - 1 |-> moved(i)]
      /\ ret' = ret /\ arg' = arg
      /\ ac' \in AgentCacheType
      /\ ac'.cache = ac.cache
      /\ ac'.write_pos = ac.write_pos
      /\ ac'.read_pos = Slot(ac.read_pos, k)
      /\ ac'.used = u - k
  BY ReadFacts, Zenon
<1>3. k \in Nat /\ k <= u
  BY <1>1, <1>2, StoredFacts
<1> HIDE DEF n, k, u, q
<1>4. ASSUME NEW i \in 1 .. m
      PROVE  /\ stored[i].at \in 0 .. Capacity /\ stored[i].at \in Nat
             /\ stored[i].buf \in Buffers
             /\ Len(stored[i].buf) \in Nat /\ Len(stored[i].buf) > 0
             /\ RecordEnd(stored[i]) \in Nat /\ RecordEnd(stored[i]) <= u
             /\ HoldsRecord(ac, stored[i])
             /\ i > 1 => stored[i].at = RecordEnd(stored[i - 1])
             /\ \A j \in 1 .. i - 1 : RecordEnd(stored[j]) <= stored[i].at
             /\ i > 1 => k <= stored[i].at
  <2>1. /\ stored[i].at \in 0 .. Capacity /\ stored[i].buf \in Buffers
        /\ Len(stored[i].buf) \in Nat /\ Len(stored[i].buf) > 0
        /\ RecordEnd(stored[i]) \in Nat /\ RecordEnd(stored[i]) <= u
        /\ HoldsRecord(ac, stored[i])
        /\ i > 1 => stored[i].at = RecordEnd(stored[i - 1])
        /\ \A j \in 1 .. i - 1 : RecordEnd(stored[j]) <= stored[i].at
    BY StoredFacts DEF u
  <2>2. i > 1 => 1 \in 1 .. i - 1
    BY <1>1
  <2>3. i > 1 => k <= stored[i].at
    BY <1>2, <2>1, <2>2
  <2>4. stored[i].at \in Nat
    BY <2>1, CapacityPositive
  <2> QED  BY <2>1, <2>3, <2>4
<1>5. ASSUME NEW i \in 1 .. m - 1
      PROVE  /\ stored'[i] = moved(i) /\ i + 1 \in 1 .. m /\ i + 1 > 1
             /\ moved(i).at = stored[i + 1].at - k /\ moved(i).buf = stored[i + 1].buf
             /\ moved(i) \in Rec
             /\ RecordEnd(moved(i)) = RecordEnd(stored[i + 1]) - k
  <2>1. i + 1 \in 1 .. m /\ i + 1 > 1
    BY <1>1
  <2>2. moved(i).at = stored[i + 1].at - k /\ moved(i).buf = stored[i + 1].buf
    OBVIOUS
  <2>3. stored[i + 1].at - k \in 0 .. Capacity
    BY <1>3, <1>4, <2>1, CapacityPositive
  <2>4. moved(i) \in Rec
    BY <1>4, <2>1, <2>3
  <2>5. RecordEnd(moved(i)) = RecordEnd(stored[i + 1]) - k
    <3> DEFINE a == stored[i + 1].at
               b == Len(stored[i + 1].buf)
    <3>1. /\ RecordEnd(moved(i)) = (a - k) + HeadLen + b
          /\ RecordEnd(stored[i + 1]) = a + HeadLen + b
      BY DEF RecordEnd
    <3>2. a \in Nat /\ b \in Nat
      BY <1>4, <2>1
    <3> HIDE DEF a, b, moved
    <3> QED  BY <1>3, <3>1, <3>2, CapacityPositive
  <2> QED  BY <1>2, <2>1, <2>2, <2>4, <2>5
<1>6. stored' \in Seq(Rec) /\ Len(stored') = m - 1
  <2>1. m - 1 \in Nat
    BY <1>1, <1>2
  <2>2. \A i \in 1 .. m - 1 : moved(i) \in Rec
    BY <1>5, Zenon
  <2>3. stored' = [i \in 1 .. m - 1 |-> moved(i)]
    BY <1>2
  <2> HIDE DEF moved, Rec, m
  <2>4. [i \in 1 .. m - 1 |-> moved(i)] \in Seq(Rec)
        /\ Len([i \in 1 .. m - 1 |-> moved(i)]) = m - 1
    BY <2>1, <2>2
  <2> QED  BY <2>3, <2>4, Zenon
<1>7. TypeOK'
  BY <1>2, <1>4, <1>6 DEF TypeOK, Inv
<1>8. ac'.write_pos = Slot(ac'.read_pos, ac'.used)
  <2>1. u - k \in Nat /\ k + (u - k) = u /\ k + (u - k) <= Capacity
    BY <1>1, <1>3, CapacityPositive
  <2>2. Slot(q, k + (u - k)) = Slot(Slot(q, k), u - k)
    BY <1>1, <1>2, <2>1, SlotSlot
  <2> QED  BY <1>1, <1>2, <2>1, <2>2 DEF q
<1>9. ASSUME NEW i \in 1 .. m - 1
      PROVE  /\ Len(stored'[i].buf) > 0
             /\ RecordEnd(stored'[i]) <= ac'.used
             /\ HoldsRecord(ac', stored'[i])
             /\ i > 1 => stored'[i].at = RecordEnd(stored'[i - 1])
             /\ \A j \in 1 .. i - 1 : RecordEnd(stored'[j]) <= stored'[i].at
  <2> DEFINE rec == stored[i + 1]
  <2>1. /\ stored'[i] = moved(i) /\ i + 1 \in 1 .. m /\ i + 1 > 1
        /\ stored'[i] = [at |-> rec.at - k, buf |-> rec.buf]
        /\ stored'[i].at = rec.at - k /\ stored'[i].buf = rec.buf
        /\ RecordEnd(stored'[i]) = RecordEnd(rec) - k
    BY <1>5
  <2>2. /\ rec.at \in Nat /\ k <= rec.at
        /\ Len(rec.buf) \in Nat /\ Len(rec.buf) > 0
        /\ RecordEnd(rec) \in Nat /\ RecordEnd(rec) <= u /\ HoldsRecord(ac, rec)
        /\ rec.at = RecordEnd(stored[(i + 1) - 1])
        /\ \A j \in 1 .. (i + 1) - 1 : RecordEnd(stored[j]) <= rec.at
    BY <1>4, <2>1
  <2>3. RecordEnd(stored'[i]) <= ac'.used
    BY <1>1, <1>2, <1>3, <2>1, <2>2
  <2>4. HoldsRecord(ac', stored'[i])
    <3>1. RecordEnd(rec) <= ac.used
      BY <2>2 DEF u
    <3> HIDE DEF rec
    <3> QED  BY <1>1, <1>2, <2>1, <2>2, <3>1, ReadKeepsRecord, Zenon
  <2>5. ASSUME NEW j \in 1 .. i - 1
        PROVE  /\ RecordEnd(stored'[j]) <= stored'[i].at
               /\ j = i - 1 => stored'[i].at = RecordEnd(stored'[j])
    <3>1. j \in 1 .. m - 1 /\ j + 1 \in 1 .. (i + 1) - 1 /\ j + 1 \in 1 .. m
      BY <1>1
    <3>2. RecordEnd(stored'[j]) = RecordEnd(stored[j + 1]) - k
      BY <1>5, <3>1, Zenon
    <3>3. RecordEnd(stored[j + 1]) <= rec.at /\ RecordEnd(stored[j + 1]) \in Nat
      BY <1>4, <2>2, <3>1
    <3>4. RecordEnd(stored'[j]) <= stored'[i].at
      BY <1>3, <2>1, <2>2, <3>2, <3>3
    <3>5. j = i - 1 => (i + 1) - 1 = j + 1
      BY <1>1
    <3> QED  BY <2>1, <2>2, <3>2, <3>4, <3>5
  <2>6. i > 1 => i - 1 \in 1 .. i - 1
    BY <1>1
  <2> QED  BY <2>1, <2>2, <2>3, <2>4, <2>5, <2>6
<1>10. m = 1 => ac'.used = 0
  <2>1. m = 1 => RecordEnd(stored[1]) = u
    BY <1>1, <1>2, EmptySeq DEF Inv, RingHoldsRecords, u
  <2> QED  BY <1>1, <1>2, <2>1
<1>11. stored' # <<>> => m > 1
  BY <1>1, <1>2, <1>6, EmptySeq
<1>12. m > 1 => /\ stored'[1].at = 0
               /\ RecordEnd(stored'[Len(stored')]) = ac'.used
  <2> SUFFICES ASSUME m > 1
               PROVE  stored'[1].at = 0 /\ RecordEnd(stored'[Len(stored')]) = ac'.used
    OBVIOUS
  <2>1. 1 \in 1 .. m - 1 /\ m - 1 \in 1 .. m - 1 /\ (m - 1) + 1 = m /\ 1 + 1 = 2 /\ 2 \in 1 .. m
        /\ 2 - 1 = 1
    BY <1>1
  <2>2. stored'[1].at = stored[2].at - k /\ RecordEnd(stored'[m - 1]) = RecordEnd(stored[m]) - k
    BY <1>5, <2>1, Zenon
  <2>3. stored[2].at = k
    BY <1>2, <1>4, <2>1
  <2>4. stored # <<>>
    BY <1>1, EmptySeq
  <2>5. RecordEnd(stored[m]) = u
    BY <2>4 DEF Inv, RingHoldsRecords, u
  <2> QED  BY <1>2, <1>3, <1>6, <2>2, <2>3, <2>5
<1>13. stored' = <<>> => m = 1
  <2>1. stored' = <<>> => Len(stored') = 0
    OBVIOUS
  <2>2. Len(stored') = m - 1 /\ m \in Nat
    BY <1>1, <1>6
  <2> HIDE DEF m
  <2> QED  BY <2>1, <2>2
<1>14. RingHoldsRecords'
  <2>1. /\ stored' = <<>> => ac'.used = 0
        /\ stored' # <<>> => stored'[1].at = 0 /\ RecordEnd(stored'[Len(stored')]) = ac'.used
    BY <1>10, <1>11, <1>12, <1>13
  <2>2. \A i \in 1 .. Len(stored') :
             /\ Len(stored'[i].buf) > 0
             /\ RecordEnd(stored'[i]) <= ac'.used
             /\ HoldsRecord(ac', stored'[i])
             /\ i > 1 => stored'[i].at = RecordEnd(stored'[i - 1])
             /\ \A j \in 1 .. i - 1 : RecordEnd(stored'[j]) <= stored'[i].at
    <3>1. 1 .. Len(stored') = 1 .. m - 1
      BY <1>6, Zenon
    <3> QED  BY <1>9, <3>1, Zenon
  <2> QED  BY <1>8, <2>1, <2>2, Zenon DEF RingHoldsRecords, HoldsRecord, RecordEnd
<1> QED  BY <1>7, <1>14 DEF Inv


(* Every step of kvs_agent_cache_write and kvs_agent_cache_read keeps Inv.  *)
LEMMA StepInv == Inv /\ [Next]_vars => Inv'
<1> SUFFICES ASSUME Inv, [Next]_vars PROVE Inv'
  OBVIOUS
<1>1. ASSUME NEW buf \in Buffers, WriteRefused(buf)  PROVE Inv'
  <2>1. ac' = ac /\ out' = out /\ stored' = stored /\ ret' \in {-1, -2} /\ arg' = buf
    BY <1>1 DEF WriteRefused
  <2>2. TypeOK'
    BY <2>1 DEF Inv, TypeOK
  <2>3. RingHoldsRecords'
    BY <2>1, Zenon DEF Inv, RingHoldsRecords, HoldsRecord, RecordEnd
  <2> QED  BY <2>2, <2>3 DEF Inv
<1>2. ASSUME NEW buf \in Buffers, WriteStored(buf)  PROVE Inv'
  BY <1>2, WriteKeepsInv
<1>3. CASE ReadNull
  <2>1. ac' = ac /\ out' = NULL /\ stored' = stored /\ ret' = ret /\ arg' = arg /\ arg' = arg
    BY <1>3 DEF ReadNull
  <2>2. TypeOK'
    BY <2>1 DEF Inv, TypeOK
  <2>3. RingHoldsRecords'
    BY <2>1 DEF Inv, RingHoldsRecords, HoldsRecord, RecordEnd
  <2> QED  BY <2>2, <2>3 DEF Inv
<1>4. CASE ReadRecord
  BY <1>4, ReadKeepsInv
<1>5. CASE UNCHANGED vars
  <2>1. ac' = ac /\ out' = out /\ stored' = stored /\ ret' = ret /\ arg' = arg /\ arg' = arg
    BY <1>5 DEF vars
  <2>2. TypeOK'
    BY <2>1 DEF Inv, TypeOK
  <2>3. RingHoldsRecords'
    BY <2>1 DEF Inv, RingHoldsRecords, HoldsRecord, RecordEnd
  <2> QED  BY <2>2, <2>3 DEF Inv
<1> QED
  BY <1>1, <1>2, <1>3, <1>4, <1>5 DEF Next, kvs_agent_cache_write, kvs_agent_cache_read

(* Inv holds in every reachable state of the ring.                          *)
LEMMA InvAlways == Spec => []Inv
BY InitInv, StepInv, PTL DEF Spec

(* The fields of an agent_cache stay in range: read_pos and write_pos are   *)
(* slots, used never exceeds the capacity, every read returns NULL or a     *)
(* buffer some caller wrote, and no write returns -3.                       *)
THEOREM TypeCorrect == Spec => []TypeOK
<1>1. Inv => TypeOK
  BY DEF Inv
<1> QED  BY <1>1, InvAlways, PTL

(* The ring holds the accepted and unread records, laid end to end, for     *)
(* every capacity, size of the prefix and contents.                         *)
THEOREM RingCorrect == Spec => []RingHoldsRecords
<1>1. Inv => RingHoldsRecords
  BY DEF Inv
<1> QED  BY <1>1, InvAlways, PTL

(* The records of the history, without their places, are a queue.           *)
LEMMA QueueFacts ==
  ASSUME Inv
  PROVE  /\ Queue \in Seq(Buffers) /\ Len(Queue) = Len(stored)
         /\ \A i \in 1 .. Len(stored) : Queue[i] = stored[i].buf
<1>1. Len(stored) \in Nat
  BY LenProperties DEF Inv, TypeOK
<1>2. \A i \in 1 .. Len(stored) : stored[i].buf \in Buffers
  BY StoredFacts
<1> QED  BY <1>1, <1>2 DEF Queue

(* Storing a record is a Write of the queue.                                *)
LEMMA WriteRefines ==
  ASSUME Inv, NEW buf \in Buffers, WriteStored(buf)
  PROVE  Fifo!Write(buf)
<1> DEFINE n == Len(buf)
           m == Len(stored)
           rec == [at |-> ac.used, buf |-> buf]
           h == cache_write_bytes(ac, LenBytes(n))
           w == cache_write_bytes(h, buf)
<1>1. /\ ac \in AgentCacheType /\ ac.used \in 0 .. Capacity /\ ac.used \in Nat
      /\ ac.write_pos = Slot(ac.read_pos, ac.used)
      /\ stored \in Seq([at : 0 .. Capacity, buf : Buffers]) /\ m \in Nat
  BY LenProperties, CapacityPositive DEF Inv, TypeOK, RingHoldsRecords, AgentCacheType
<1>2. n \in Nat /\ n > 0 /\ HeadLen + n <= Capacity - ac.used /\ buf # <<>>
  BY <1>1, BufferFacts, CapacityPositive DEF WriteStored, Room
<1>3. /\ stored' = Append(stored, rec)
      /\ out' = out /\ arg' = buf
      /\ Room(ac, HeadLen) /\ Room(h, n) => ac' = w /\ ret' = 0
  BY DEF WriteStored
<1>4. w.used = ac.used + HeadLen + n /\ Room(ac, HeadLen) /\ Room(h, n)
  <2>1. n = Len(buf) /\ h = cache_write_bytes(ac, LenBytes(n)) /\ w = cache_write_bytes(h, buf)
        /\ rec = [at |-> ac.used, buf |-> buf]
    OBVIOUS
  <2> HIDE DEF n, h, w, rec, m
  <2> QED  BY <1>1, <1>2, <2>1, WriteRecord
<1> HIDE DEF h, w
<1>5. ac'.used = ac.used + HeadLen + n /\ ret' = 0
  BY <1>3, <1>4
<1>6. rec \in [at : 0 .. Capacity, buf : Buffers] /\ rec.buf = buf
  BY <1>1
<1> HIDE DEF rec
<1>7. /\ stored' \in Seq([at : 0 .. Capacity, buf : Buffers])
      /\ Len(stored') = m + 1
      /\ \A i \in 1 .. m : stored'[i] = stored[i]
      /\ stored'[m + 1] = rec
  BY <1>1, <1>3, <1>6, AppendProperties
<1>8. Queue' = Append(Queue, buf)
  <2>1. Queue \in Seq(Buffers) /\ Len(Queue) = m /\ \A i \in 1 .. m : Queue[i] = stored[i].buf
    BY QueueFacts
  <2>2. /\ Append(Queue, buf) \in Seq(Buffers) /\ Len(Append(Queue, buf)) = m + 1
        /\ \A i \in 1 .. m : Append(Queue, buf)[i] = Queue[i]
        /\ Append(Queue, buf)[m + 1] = buf
    BY <2>1, AppendProperties
  <2>3. Queue' \in Seq(Buffers) /\ Len(Queue') = m + 1
        /\ \A i \in 1 .. m + 1 : Queue'[i] = stored'[i].buf
    <3>1. Queue' = [i \in 1 .. m + 1 |-> stored'[i].buf]
      BY <1>7 DEF Queue
    <3>2. \A i \in 1 .. m + 1 : stored'[i] \in [at : 0 .. Capacity, buf : Buffers]
      BY <1>7, ElementOfSeq, Zenon
    <3>3. \A i \in 1 .. m + 1 : stored'[i].buf \in Buffers
      BY <3>2
    <3>4. m + 1 \in Nat
      BY <1>1
    <3> HIDE DEF m
    <3>5. [i \in 1 .. m + 1 |-> stored'[i].buf] \in Seq(Buffers)
          /\ Len([i \in 1 .. m + 1 |-> stored'[i].buf]) = m + 1
      BY <3>3, <3>4
    <3> QED  BY <3>1, <3>5, Zenon
  <2>4. ASSUME NEW i \in 1 .. m + 1  PROVE Queue'[i] = Append(Queue, buf)[i]
    <3>1. CASE i \in 1 .. m
      <4>1. stored'[i] = stored[i]
        BY <1>7, <3>1, Zenon
      <4> QED  BY <2>1, <2>2, <2>3, <3>1, <4>1, Zenon
    <3>2. CASE i = m + 1
      BY <1>6, <1>7, <2>2, <2>3, <3>2, Zenon
    <3>3. i \in 1 .. m \/ i = m + 1
      BY <1>1
    <3> QED  BY <3>1, <3>2, <3>3, Zenon
  <2> HIDE DEF m
  <2> QED  BY <2>2, <2>3, <2>4, SeqEqual
<1>9. ac.used + (HeadLen + n) <= Capacity /\ ac.used + HeadLen + n = ac.used + (HeadLen + n)
  BY <1>1, <1>2, CapacityPositive
<1> QED
  BY <1>2, <1>3, <1>5, <1>8, <1>9 DEF Fifo!Write, Fifo!Fits, Fifo!Cost


(* Reading a record is a Read of the queue.                                 *)
LEMMA ReadRefines ==
  ASSUME Inv, ReadRecord
  PROVE  Fifo!Read
<1> DEFINE n == Len(stored[1].buf)
           k == HeadLen + n
           m == Len(stored)
<1>1. /\ m \in Nat /\ m >= 1 /\ 1 \in 1 .. m /\ n \in Nat
      /\ out' = stored[1].buf /\ ret' = ret /\ arg' = arg /\ ac'.used = ac.used - k
      /\ stored' = [i \in 1 .. m - 1 |->
                      [at |-> stored[i + 1].at - k, buf |-> stored[i + 1].buf]]
  <2>1. stored \in Seq([at : 0 .. Capacity, buf : Buffers])
    BY Zenon DEF Inv, TypeOK
  <2>2. m \in Nat
    BY <2>1, LenProperties, Zenon
  <2>3. n = Len(stored[1].buf) /\ k = HeadLen + n /\ m = Len(stored)
    OBVIOUS
  <2> HIDE DEF n, k, m
  <2> QED
    BY <2>2, <2>3, ReadFacts
<1>2. Queue \in Seq(Buffers) /\ Len(Queue) = m /\ \A i \in 1 .. m : Queue[i] = stored[i].buf
  BY QueueFacts
<1>3. Queue # <<>>
  BY <1>1, <1>2, EmptySeq
<1>4. Head(Queue) = stored[1].buf /\ Head(Queue) = out'
  BY <1>1, <1>2, <1>3, HeadTailProperties
<1>5. /\ Tail(Queue) \in Seq(Buffers) /\ Len(Tail(Queue)) = m - 1
      /\ \A i \in 1 .. m - 1 : Tail(Queue)[i] = Queue[i + 1]
  BY <1>2, <1>3, HeadTailProperties
<1>6. /\ Queue' \in Seq(Buffers) /\ Len(Queue') = m - 1
      /\ \A i \in 1 .. m - 1 : Queue'[i] = stored[i + 1].buf
  <2>1. m - 1 \in Nat /\ \A i \in 1 .. m - 1 : i + 1 \in 1 .. m
    BY <1>1
  <2>2. \A i \in 1 .. m - 1 : stored[i + 1].buf \in Buffers
    BY <2>1, StoredFacts
  <2> HIDE DEF m, k
  <2>3. Len(stored') = m - 1 /\ \A i \in 1 .. m - 1 : stored'[i].buf = stored[i + 1].buf
    BY <1>1, <2>1
  <2>4. Queue' = [i \in 1 .. m - 1 |-> stored[i + 1].buf]
    BY <2>3 DEF Queue
  <2>5. [i \in 1 .. m - 1 |-> stored[i + 1].buf] \in Seq(Buffers)
        /\ Len([i \in 1 .. m - 1 |-> stored[i + 1].buf]) = m - 1
    BY <2>1, <2>2
  <2> QED  BY <2>4, <2>5, Zenon
<1>7. Queue' = Tail(Queue)
  <2>1. ASSUME NEW i \in 1 .. m - 1  PROVE Queue'[i] = Tail(Queue)[i]
    <3>1. i + 1 \in 1 .. m
      BY <1>1
    <3> QED  BY <1>2, <1>5, <1>6, <3>1
  <2> HIDE DEF m
  <2> QED  BY <1>5, <1>6, <2>1, SeqEqual
<1>8. ac'.used = ac.used - (HeadLen + Len(Head(Queue)))
  BY <1>1, <1>4
<1> QED  BY <1>1, <1>3, <1>4, <1>7, <1>8 DEF Fifo!Read, Fifo!Cost

(* A refused write is a Refuse of the queue.                                *)
LEMMA RefuseRefines ==
  ASSUME Inv, NEW buf \in Buffers, WriteRefused(buf)
  PROVE  Fifo!Refuse(buf)
<1> DEFINE n == Len(buf)
           u == ac.used
<1>1. u \in 0 .. Capacity /\ n \in Nat /\ buf \in Seq(Byte) /\ n <= SizeMax
  BY BufferFacts DEF Inv, TypeOK, AgentCacheType
<1>2. n = 0 <=> buf = <<>>
  BY <1>1, EmptySeq
<1>3. /\ ac' = ac /\ out' = out /\ stored' = stored /\ arg' = buf
      /\ \/ n = 0 /\ ret' = -1
         \/ /\ n > 0
            /\ n > SizeMax - HeadLen \/ ~(Capacity - u >= HeadLen + n)
            /\ ret' = -2
  BY DEF WriteRefused, Room
<1> HIDE DEF n, u
<1>4. n > SizeMax - HeadLen \/ ~(Capacity - u >= HeadLen + n) => ~(u + (HeadLen + n) <= Capacity)
  BY <1>1, CapacityPositive, CacheAssumption
<1>5. Queue' = Queue /\ ac'.used = ac.used
  BY <1>3 DEF Queue
<1>6. \/ buf = <<>> /\ ret' = -1
      \/ buf # <<>> /\ ~(u + (HeadLen + n) <= Capacity) /\ ret' = -2
  BY <1>1, <1>2, <1>3, <1>4
<1> QED  BY <1>3, <1>5, <1>6 DEF Fifo!Refuse, Fifo!Fits, Fifo!Cost, n, u

(* Every call on the ring is a step of the queue.                           *)
LEMMA StepRefines == Inv /\ [Next]_vars => [Fifo!Next]_(Fifo!specVars)
<1> SUFFICES ASSUME Inv, [Next]_vars PROVE [Fifo!Next]_(Fifo!specVars)
  OBVIOUS
<1>1. ASSUME NEW buf \in Buffers, WriteRefused(buf)  PROVE Fifo!Next
  BY <1>1, RefuseRefines DEF Fifo!Next
<1>2. ASSUME NEW buf \in Buffers, WriteStored(buf)  PROVE Fifo!Next
  BY <1>2, WriteRefines DEF Fifo!Next
<1>3. CASE ReadNull
  <2>1. Fifo!ReadNothing
    BY <1>3 DEF ReadNull, Fifo!ReadNothing, Queue
  <2> QED  BY <2>1 DEF Fifo!Next
<1>4. CASE ReadRecord
  BY <1>4, ReadRefines DEF Fifo!Next
<1>5. CASE UNCHANGED vars
  BY <1>5 DEF vars, Fifo!specVars, Queue
<1> QED
  BY <1>1, <1>2, <1>3, <1>4, <1>5 DEF Next, kvs_agent_cache_write, kvs_agent_cache_read

(* An empty ring is an empty queue.                                         *)
LEMMA InitRefines == Init => Fifo!Init
<1> SUFFICES ASSUME Init PROVE Fifo!Init
  OBVIOUS
<1>1. stored = <<>> /\ ac.used = 0 /\ arg = NULL /\ ret = 0 /\ out = NULL
  BY DEF Init
<1>2. Queue = <<>>
  BY <1>1 DEF Queue
<1> QED  BY <1>1, <1>2 DEF Fifo!Init

(* The byte ring implements a bounded FIFO queue of whole buffers: a write  *)
(* is all or nothing and refused only when the buffer is empty or does not  *)
(* fit, and a read returns the oldest buffer unchanged.                     *)
THEOREM RingImplementsFifo == Spec => ImplementsFifo
BY InitRefines, StepRefines, InvAlways, PTL DEF Spec, ImplementsFifo, Fifo!Spec
=============================================================================
