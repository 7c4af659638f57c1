--------------------------- MODULE MempoolProofs ---------------------------
(***************************************************************************)
(* The memory pool for every table of classes, every number of blocks to a  *)
(* slab and every number of slabs: no block is handed out twice or lost,    *)
(* the lists are true, a block has room, and the pool implements the heap.  *)
(* MemInv is about the slabs and lists alone, so that it can be carried     *)
(* through mp_realloc, which takes a block and returns one in one call;     *)
(* PoolInv ties the blocks that are not free to the blocks callers hold.    *)
(***************************************************************************)
EXTENDS Mempool, FiniteSetTheorems, WellFoundedInduction, TLAPS

\* The time the prover may take for a leaf; a few milliseconds are the rule.
USE SMTT(20)

SlabType == [classid : Class, free_blocks : Nat, free_list : SUBSET Nat]
ListType == [partial : SUBSET SlabId, full : SUBSET SlabId, empty : SUBSET SlabId,
             empty_slab_count : Int]

\* A pair of slabs and lists.
MemType(m) ==
    /\ m = [slab |-> m.slab, pool |-> m.pool]
    /\ DOMAIN m.slab \subseteq SlabId
    /\ m.slab \in [DOMAIN m.slab -> SlabType]
    /\ m.pool \in [Class -> ListType]

\* A slab's free blocks are blocks of it, and counted.
SlabTrue(r) ==
    /\ r.free_list \subseteq 1..SlabBlocks[r.classid]
    /\ r.free_blocks = Cardinality(r.free_list)

In(m, c, s) == s \in DOMAIN m.slab /\ m.slab[s].classid = c

\* Slab s is on the list of class c that its free blocks call for, if it is
\* of that class, and on no other.
Listed(m, c, s) ==
    /\ s \in m.pool[c].full <=> In(m, c, s) /\ m.slab[s].free_blocks = 0
    /\ s \in m.pool[c].empty <=>
          In(m, c, s) /\ m.slab[s].free_blocks = SlabBlocks[c]
    /\ s \in m.pool[c].partial <=> /\ In(m, c, s)
                                   /\ m.slab[s].free_blocks # 0
                                   /\ m.slab[s].free_blocks # SlabBlocks[c]

Counted(m, c) ==
    /\ IsFiniteSet(m.pool[c].empty)
    /\ m.pool[c].empty_slab_count = Cardinality(m.pool[c].empty)
    /\ m.pool[c].empty_slab_count <= MaxEmptySlabs

MemInv(m) ==
    /\ MemType(m)
    /\ \A s \in DOMAIN m.slab : SlabTrue(m.slab[s])
    /\ \A c \in Class : Counted(m, c) /\ \A s \in SlabId : Listed(m, c, s)

\* Between slab_malloc and the taking of the block, slab s is on the partial
\* list although it may be all free.
MemOpen(m, c, s) ==
    /\ MemType(m)
    /\ \A t \in DOMAIN m.slab : SlabTrue(m.slab[t])
    /\ In(m, c, s) /\ s \in m.pool[c].partial
    /\ m.slab[s].free_blocks # 0
    /\ \A d \in Class :
          /\ Counted(m, d)
          /\ s \notin m.pool[d].full /\ s \notin m.pool[d].empty
          /\ d # c => s \notin m.pool[d].partial
          /\ \A t \in SlabId \ {s} : Listed(m, d, t)

\* Block i of slab s is not free.
Taken(m, s, i) ==
    /\ s \in DOMAIN m.slab
    /\ i \in 1..SlabBlocks[m.slab[s].classid]
    /\ i \notin m.slab[s].free_list

-----------------------------------------------------------------------------
(* Free lists.                                                              *)

\* The count of a slab's free blocks says whether none or all are free.
LEMMA SlabFacts ==
    ASSUME NEW r \in SlabType, SlabTrue(r)
    PROVE  /\ IsFiniteSet(r.free_list)
           /\ SlabBlocks[r.classid] \in Nat \ {0}
           /\ r.free_blocks \in 0..SlabBlocks[r.classid]
           /\ r.free_blocks = 0 <=> r.free_list = {}
           /\ r.free_blocks = SlabBlocks[r.classid]
                <=> r.free_list = 1..SlabBlocks[r.classid]
<1> DEFINE n == SlabBlocks[r.classid]
<1>1. n \in Nat \ {0}
  BY ClassAssumption, Zenon DEF SlabType
<1>2. IsFiniteSet(1..n) /\ Cardinality(1..n) = n
  <2>1. 1 \in Int /\ n \in Int /\ ~(1 > n) /\ n - 1 + 1 = n
    BY <1>1
  <2> QED
    BY <2>1, FS_Interval, Zenon
<1>3. IsFiniteSet(r.free_list) /\ Cardinality(r.free_list) <= n
      /\ (Cardinality(r.free_list) = n => r.free_list = 1..n)
  BY <1>2, FS_Subset, Zenon DEF SlabTrue
<1>4. r.free_list = {} <=> Cardinality(r.free_list) = 0
  BY <1>3, FS_EmptySet
<1>5. r.free_blocks \in Nat
  BY DEF SlabType
<1> QED
  BY <1>1, <1>2, <1>3, <1>4, <1>5 DEF SlabTrue

\* A slab that loses a free block, or gets one back.
LEMMA SlabTakes ==
    ASSUME NEW r \in SlabType, SlabTrue(r), NEW i \in r.free_list,
           NEW q \in SlabType, q.classid = r.classid,
           q.free_list = r.free_list \ {i}, q.free_blocks = r.free_blocks - 1
    PROVE  SlabTrue(q)
<1>1. IsFiniteSet(r.free_list)
  BY SlabFacts
<1>2. Cardinality(r.free_list \ {i}) = Cardinality(r.free_list) - 1
  BY <1>1, FS_RemoveElement, Zenon
<1> QED
  BY <1>2 DEF SlabTrue

LEMMA SlabReturns ==
    ASSUME NEW r \in SlabType, SlabTrue(r),
           NEW i \in 1..SlabBlocks[r.classid], i \notin r.free_list,
           NEW q \in SlabType, q.classid = r.classid,
           q.free_list = r.free_list \cup {i}, q.free_blocks = r.free_blocks + 1
    PROVE  SlabTrue(q)
<1>1. IsFiniteSet(r.free_list)
  BY SlabFacts
<1>2. Cardinality(r.free_list \cup {i}) = Cardinality(r.free_list) + 1
  BY <1>1, FS_AddElement, Zenon
<1> QED
  BY <1>2 DEF SlabTrue
-----------------------------------------------------------------------------
(* What the helpers leave, component by component.                          *)

LEMMA EmptyToPartialIs ==
    ASSUME NEW m, MemType(m), NEW c \in Class, NEW s \in SlabId,
           NEW n, n = EmptyToPartial(m, c, s)
    PROVE  /\ n = [slab |-> m.slab, pool |-> n.pool]
           /\ n.slab = m.slab
           /\ n.pool \in [Class -> ListType]
           /\ \A d \in Class \ {c} : n.pool[d] = m.pool[d]
           /\ n.pool[c].full = m.pool[c].full
           /\ n.pool[c].empty = m.pool[c].empty \ {s}
           /\ n.pool[c].partial = m.pool[c].partial \cup {s}
           /\ n.pool[c].empty_slab_count = m.pool[c].empty_slab_count - 1
<1> DEFINE l == m.pool[c]
           k == [partial |-> l.partial \cup {s}, full |-> l.full, empty |-> l.empty \ {s},
                 empty_slab_count |-> l.empty_slab_count - 1]
<1>1. l \in ListType
  BY DEF MemType
<1>2. k \in ListType
  BY <1>1 DEF ListType
<1>3. n.pool = [m.pool EXCEPT ![c] = k] /\ n.slab = m.slab
      /\ n = [slab |-> m.slab, pool |-> n.pool]
  BY <1>1 DEF EmptyToPartial, MemType, ListType
<1>4. n.pool \in [Class -> ListType] /\ n.pool[c] = k
      /\ \A d \in Class \ {c} : n.pool[d] = m.pool[d]
  BY <1>2, <1>3, Zenon DEF MemType
<1> QED
  BY <1>3, <1>4

LEMMA AddPoolIs ==
    ASSUME NEW m, MemType(m), NEW c \in Class, NEW s \in SlabId \ DOMAIN m.slab,
           NEW n, n = add_pool(m, c, s)
    PROVE  /\ n = [slab |-> n.slab, pool |-> n.pool]
           /\ DOMAIN n.slab = DOMAIN m.slab \cup {s}
           /\ n.slab \in [DOMAIN n.slab -> SlabType]
           /\ n.slab[s] = [classid |-> c, free_blocks |-> SlabBlocks[c],
                           free_list |-> 1..SlabBlocks[c]]
           /\ \A t \in DOMAIN m.slab : n.slab[t] = m.slab[t]
           /\ n.pool \in [Class -> ListType]
           /\ \A d \in Class \ {c} : n.pool[d] = m.pool[d]
           /\ n.pool[c].full = m.pool[c].full
           /\ n.pool[c].empty = m.pool[c].empty \cup {s}
           /\ n.pool[c].partial = m.pool[c].partial
           /\ n.pool[c].empty_slab_count = m.pool[c].empty_slab_count + 1
<1> DEFINE l == m.pool[c]
           k == [partial |-> l.partial, full |-> l.full, empty |-> l.empty \cup {s},
                 empty_slab_count |-> l.empty_slab_count + 1]
           r == [classid |-> c, free_blocks |-> SlabBlocks[c],
                 free_list |-> 1..SlabBlocks[c]]
<1>1. l \in ListType
  BY DEF MemType
<1>2. k \in ListType
  BY <1>1 DEF ListType
<1>3. n.pool = [m.pool EXCEPT ![c] = k] /\ n.slab = Put(m.slab, s, r)
      /\ n = [slab |-> n.slab, pool |-> n.pool]
  BY <1>1 DEF add_pool, MemType, ListType
<1>4. n.pool \in [Class -> ListType] /\ n.pool[c] = k
      /\ \A d \in Class \ {c} : n.pool[d] = m.pool[d]
  BY <1>2, <1>3, Zenon DEF MemType
<1>5. r \in SlabType
  BY ClassAssumption DEF SlabType
<1>6. /\ DOMAIN n.slab = DOMAIN m.slab \cup {s}
      /\ n.slab[s] = r
      /\ \A t \in DOMAIN m.slab : n.slab[t] = m.slab[t]
      /\ n.slab \in [DOMAIN n.slab -> SlabType]
  BY <1>3, <1>5 DEF Put, MemType
<1> QED
  BY <1>3, <1>4, <1>6

LEMMA TakeBlockIs ==
    ASSUME NEW m, MemType(m), NEW c \in Class, NEW s \in DOMAIN m.slab, NEW i,
           m.slab[s].free_blocks # 0,
           NEW n, n = TakeBlock(m, c, s, i)
    PROVE  /\ n = [slab |-> n.slab, pool |-> n.pool]
           /\ DOMAIN n.slab = DOMAIN m.slab
           /\ n.slab \in [DOMAIN n.slab -> SlabType]
           /\ n.slab[s].classid = m.slab[s].classid
           /\ n.slab[s].free_list = m.slab[s].free_list \ {i}
           /\ n.slab[s].free_blocks = m.slab[s].free_blocks - 1
           /\ \A t \in DOMAIN m.slab \ {s} : n.slab[t] = m.slab[t]
           /\ n.pool \in [Class -> ListType]
           /\ \A d \in Class \ {c} : n.pool[d] = m.pool[d]
           /\ n.pool[c].empty = m.pool[c].empty
           /\ n.pool[c].empty_slab_count = m.pool[c].empty_slab_count
           /\ m.slab[s].free_blocks - 1 = 0 =>
                 /\ n.pool[c].partial = m.pool[c].partial \ {s}
                 /\ n.pool[c].full = m.pool[c].full \cup {s}
           /\ m.slab[s].free_blocks - 1 # 0 => n.pool[c] = m.pool[c]
<1> DEFINE l == m.pool[c]
           k == [partial |-> l.partial \ {s}, full |-> l.full \cup {s}, empty |-> l.empty,
                 empty_slab_count |-> l.empty_slab_count]
           o == m.slab[s]
           r == [classid |-> o.classid, free_blocks |-> o.free_blocks - 1,
                 free_list |-> o.free_list \ {i}]
<1>1. l \in ListType /\ o \in SlabType
  BY DEF MemType
<1>2. k \in ListType /\ r \in SlabType
  <2>1. s \in SlabId
    BY DEF MemType
  <2>2. k \in ListType
    BY <1>1, <2>1 DEF ListType
  <2>3. o.free_blocks \in Nat /\ o.free_blocks # 0
    BY <1>1 DEF SlabType
  <2>4. o.free_blocks - 1 \in Nat
    BY <2>3
  <2>5. r \in SlabType
    BY <1>1, <2>4 DEF SlabType
  <2> QED
    BY <2>2, <2>5
<1>3. /\ n.slab = [m.slab EXCEPT ![s] = r]
      /\ n = [slab |-> n.slab, pool |-> n.pool]
      /\ n.pool = IF o.free_blocks - 1 = 0 THEN [m.pool EXCEPT ![c] = k] ELSE m.pool
  BY <1>1 DEF TakeBlock, MemType, ListType, SlabType
<1>4. /\ n.pool \in [Class -> ListType]
      /\ n.pool[c] = IF o.free_blocks - 1 = 0 THEN k ELSE l
      /\ \A d \in Class \ {c} : n.pool[d] = m.pool[d]
  BY <1>2, <1>3, Zenon DEF MemType
<1>5. /\ DOMAIN n.slab = DOMAIN m.slab
      /\ n.slab \in [DOMAIN n.slab -> SlabType]
      /\ n.slab[s] = r
      /\ \A t \in DOMAIN m.slab \ {s} : n.slab[t] = m.slab[t]
  BY <1>2, <1>3 DEF MemType
<1>6. /\ r.classid = m.slab[s].classid /\ r.free_list = m.slab[s].free_list \ {i}
      /\ r.free_blocks = m.slab[s].free_blocks - 1
      /\ k.partial = m.pool[c].partial \ {s} /\ k.full = m.pool[c].full \cup {s}
      /\ k.empty = m.pool[c].empty /\ k.empty_slab_count = m.pool[c].empty_slab_count
  OBVIOUS
<1> HIDE DEF k, r
<1> QED
  BY <1>3, <1>4, <1>5, <1>6, Zenon

LEMMA ReturnBlockIs ==
    ASSUME NEW m, MemType(m), NEW s \in DOMAIN m.slab, NEW i \in Nat,
           NEW n, n = ReturnBlock(m, s, i)
    PROVE  /\ MemType(n)
           /\ DOMAIN n.slab = DOMAIN m.slab
           /\ n.slab[s].classid = m.slab[s].classid
           /\ n.slab[s].free_list = m.slab[s].free_list \cup {i}
           /\ n.slab[s].free_blocks = m.slab[s].free_blocks + 1
           /\ \A t \in DOMAIN m.slab \ {s} : n.slab[t] = m.slab[t]
           /\ n.pool = m.pool
<1> DEFINE o == m.slab[s]
           r == [classid |-> o.classid, free_blocks |-> o.free_blocks + 1,
                 free_list |-> o.free_list \cup {i}]
<1>1. o \in SlabType
  BY DEF MemType
<1>2. r \in SlabType
  BY <1>1 DEF SlabType
<1>3. /\ n.slab = [m.slab EXCEPT ![s] = r] /\ n.pool = m.pool
      /\ n = [slab |-> n.slab, pool |-> n.pool]
  <2>1. ASSUME NEW x, x = [o EXCEPT !.free_list = o.free_list \cup {i},
                                    !.free_blocks = o.free_blocks + 1]
        PROVE  x = r
    BY <1>1, <2>1, Zenon DEF SlabType
  <2>2. [m.slab EXCEPT ![s].free_list = @ \cup {i}, ![s].free_blocks = @ + 1]
          = [m.slab EXCEPT ![s] = [o EXCEPT !.free_list = o.free_list \cup {i},
                                            !.free_blocks = o.free_blocks + 1]]
    BY <1>1 DEF MemType, SlabType
  <2>3. /\ n.slab = [m.slab EXCEPT ![s].free_list = @ \cup {i}, ![s].free_blocks = @ + 1]
        /\ n.pool = m.pool
        /\ n = [slab |-> n.slab, pool |-> n.pool]
    BY Zenon DEF ReturnBlock, MemType
  <2> QED
    BY <2>1, <2>2, <2>3, Zenon
<1>4. /\ DOMAIN n.slab = DOMAIN m.slab
      /\ n.slab \in [DOMAIN n.slab -> SlabType]
      /\ n.slab[s] = r
      /\ \A t \in DOMAIN m.slab \ {s} : n.slab[t] = m.slab[t]
  BY <1>2, <1>3 DEF MemType
<1>5. MemType(n)
  BY <1>3, <1>4 DEF MemType
<1> QED
  BY <1>3, <1>4, <1>5

LEMMA FullToPartialIs ==
    ASSUME NEW m, MemType(m), NEW c \in Class, NEW s \in DOMAIN m.slab,
           NEW q, q = FullToPartial(m, c, s)
    PROVE  /\ q \in [Class -> ListType]
           /\ \A d \in Class \ {c} : q[d] = m.pool[d]
           /\ m.slab[s].free_blocks # 1 => q[c] = m.pool[c]
           /\ m.slab[s].free_blocks = 1 =>
                 /\ q[c].full = m.pool[c].full \ {s}
                 /\ q[c].partial = m.pool[c].partial \cup {s}
                 /\ q[c].empty = m.pool[c].empty
                 /\ q[c].empty_slab_count = m.pool[c].empty_slab_count
<1> DEFINE l == m.pool[c]
           k == [partial |-> l.partial \cup {s}, full |-> l.full \ {s}, empty |-> l.empty,
                 empty_slab_count |-> l.empty_slab_count]
<1>1. l \in ListType /\ s \in SlabId
  BY DEF MemType
<1>2. k \in ListType
  BY <1>1 DEF ListType
<1>3. q = IF m.slab[s].free_blocks = 1 THEN [m.pool EXCEPT ![c] = k] ELSE m.pool
  <2>1. ASSUME NEW x, x = [l EXCEPT !.full = l.full \ {s}, !.partial = l.partial \cup {s}]
        PROVE  x = k
    BY <1>1, <2>1, Zenon DEF ListType
  <2>2. [m.pool EXCEPT ![c].full = @ \ {s}, ![c].partial = @ \cup {s}]
          = [m.pool EXCEPT ![c] = [l EXCEPT !.full = l.full \ {s},
                                            !.partial = l.partial \cup {s}]]
    BY <1>1, Zenon DEF MemType, ListType
  <2> QED
    BY <2>1, <2>2, Zenon DEF FullToPartial
<1> QED
  BY <1>2, <1>3 DEF MemType

\* What FreeWith makes of the slabs of m and the lists q.
Closed(m, c, s, q, n) ==
    /\ MemType(n)
    /\ \A d \in Class \ {c} : n.pool[d] = q[d]
    /\ m.slab[s].free_blocks # SlabBlocks[c] => n.slab = m.slab /\ n.pool = q
    /\ (/\ m.slab[s].free_blocks = SlabBlocks[c]
        /\ q[c].empty_slab_count >= MaxEmptySlabs) =>
          /\ DOMAIN n.slab = DOMAIN m.slab \ {s}
          /\ \A t \in DOMAIN n.slab : n.slab[t] = m.slab[t]
          /\ n.pool[c].full = q[c].full
          /\ n.pool[c].partial = q[c].partial \ {s}
          /\ n.pool[c].empty = q[c].empty
          /\ n.pool[c].empty_slab_count = q[c].empty_slab_count
    /\ (/\ m.slab[s].free_blocks = SlabBlocks[c]
        /\ ~(q[c].empty_slab_count >= MaxEmptySlabs)) =>
          /\ n.slab = m.slab
          /\ n.pool[c].full = q[c].full
          /\ n.pool[c].partial = q[c].partial \ {s}
          /\ n.pool[c].empty = q[c].empty \cup {s}
          /\ n.pool[c].empty_slab_count = q[c].empty_slab_count + 1

\* A slab that is all free is kept on the empty list or unmapped.
LEMMA FreeWithIs ==
    ASSUME NEW m, MemType(m), NEW c \in Class, NEW s \in DOMAIN m.slab,
           NEW q \in [Class -> ListType], NEW n, n = FreeWith(m, c, s, q)
    PROVE  Closed(m, c, s, q, n)
<1> DEFINE l == q[c]
           gone == [partial |-> l.partial \ {s}, full |-> l.full, empty |-> l.empty,
                    empty_slab_count |-> l.empty_slab_count]
           kept == [partial |-> l.partial \ {s}, full |-> l.full, empty |-> l.empty \cup {s},
                    empty_slab_count |-> l.empty_slab_count + 1]
<1>1. l \in ListType /\ s \in SlabId
  BY DEF MemType
<1>2. gone \in ListType /\ kept \in ListType
  BY <1>1 DEF ListType
<1>3. CASE m.slab[s].free_blocks # SlabBlocks[c]
  <2>1. n = [slab |-> m.slab, pool |-> q]
    BY <1>3 DEF FreeWith
  <2>2. n.slab = m.slab /\ n.pool = q /\ n = [slab |-> n.slab, pool |-> n.pool]
    BY <2>1
  <2> QED
    BY <1>3, <2>2 DEF MemType, Closed
<1>4. CASE m.slab[s].free_blocks = SlabBlocks[c] /\ l.empty_slab_count >= MaxEmptySlabs
  <2>1. n = [slab |-> Drop(m.slab, s), pool |-> [q EXCEPT ![c] = gone]]
    <3>1. ASSUME NEW x, x = [l EXCEPT !.partial = l.partial \ {s}]
          PROVE  x = gone
      BY <1>1, <3>1, Zenon DEF ListType
    <3>2. [q EXCEPT ![c].partial = @ \ {s}] = [q EXCEPT ![c] = gone]
      BY <3>1, Zenon
    <3> QED
      BY <1>4, <3>2, Zenon DEF FreeWith
  <2>2. /\ n.slab = Drop(m.slab, s) /\ n.pool = [q EXCEPT ![c] = gone]
        /\ n = [slab |-> n.slab, pool |-> n.pool]
    BY <2>1
  <2>3. /\ DOMAIN n.slab = DOMAIN m.slab \ {s}
        /\ n.slab \in [DOMAIN n.slab -> SlabType]
        /\ \A t \in DOMAIN n.slab : n.slab[t] = m.slab[t]
    BY <2>2 DEF Drop, MemType
  <2>4. /\ n.pool \in [Class -> ListType] /\ n.pool[c] = gone
        /\ \A d \in Class \ {c} : n.pool[d] = q[d]
    BY <1>2, <2>2
  <2>5. MemType(n)
    BY <2>2, <2>3, <2>4 DEF MemType
  <2> QED
    BY <1>4, <2>3, <2>4, <2>5 DEF Closed
<1>5. CASE m.slab[s].free_blocks = SlabBlocks[c] /\ ~(l.empty_slab_count >= MaxEmptySlabs)
  <2>1. n = [slab |-> m.slab, pool |-> [q EXCEPT ![c] = kept]]
    BY <1>1, <1>5 DEF FreeWith, ListType
  <2>2. /\ n.slab = m.slab /\ n.pool = [q EXCEPT ![c] = kept]
        /\ n = [slab |-> n.slab, pool |-> n.pool]
    BY <2>1
  <2>3. /\ n.pool \in [Class -> ListType] /\ n.pool[c] = kept
        /\ \A d \in Class \ {c} : n.pool[d] = q[d]
    BY <1>2, <2>2
  <2>4. MemType(n)
    BY <2>2, <2>3 DEF MemType
  <2> QED
    BY <1>5, <2>2, <2>3, <2>4 DEF Closed
<1> QED
  BY <1>3, <1>4, <1>5
-----------------------------------------------------------------------------
(* slab_malloc.                                                             *)

LEMMA EmptyOpens ==
    ASSUME NEW m, MemInv(m), NEW c \in Class, NEW s \in m.pool[c].empty,
           NEW n, n = EmptyToPartial(m, c, s)
    PROVE  MemOpen(n, c, s) /\ n.slab = m.slab
<1>0. MemType(m) /\ s \in SlabId
  BY DEF MemInv, MemType, ListType
<1>1. /\ n = [slab |-> n.slab, pool |-> n.pool] /\ n.slab = m.slab
      /\ n.pool \in [Class -> ListType]
      /\ \A d \in Class \ {c} : n.pool[d] = m.pool[d]
      /\ n.pool[c].full = m.pool[c].full
      /\ n.pool[c].empty = m.pool[c].empty \ {s}
      /\ n.pool[c].partial = m.pool[c].partial \cup {s}
      /\ n.pool[c].empty_slab_count = m.pool[c].empty_slab_count - 1
  BY <1>0, EmptyToPartialIs
<1>2. MemType(n)
  BY <1>0, <1>1 DEF MemType
<1>3. In(m, c, s) /\ m.slab[s].free_blocks = SlabBlocks[c] /\ SlabBlocks[c] # 0
  BY <1>0, ClassAssumption DEF MemInv, Listed
<1>4. ASSUME NEW d \in Class
      PROVE  Counted(n, d)
  <2>1. CASE d = c
    <3>1. IsFiniteSet(m.pool[c].empty) /\ Counted(m, c)
      BY DEF MemInv, Counted
    <3>2. /\ Cardinality(m.pool[c].empty \ {s}) = Cardinality(m.pool[c].empty) - 1
          /\ IsFiniteSet(m.pool[c].empty \ {s}) /\ Cardinality(m.pool[c].empty) \in Nat
      BY <3>1, FS_RemoveElement, FS_CardinalityType
    <3>3. /\ m.pool[c].empty_slab_count = Cardinality(m.pool[c].empty)
          /\ m.pool[c].empty_slab_count <= MaxEmptySlabs /\ MaxEmptySlabs \in Nat
      BY <3>1, ClassAssumption DEF Counted
    <3>4. /\ m.pool[c].empty_slab_count - 1 = Cardinality(m.pool[c].empty \ {s})
          /\ m.pool[c].empty_slab_count - 1 <= MaxEmptySlabs
      BY <3>2, <3>3
    <3> QED
      BY <1>1, <2>1, <3>2, <3>4, Zenon DEF Counted
  <2>2. CASE d # c
    BY <1>1, <2>2 DEF MemInv, Counted
  <2> QED
    BY <2>1, <2>2
<1>5. ASSUME NEW d \in Class
      PROVE  /\ s \notin n.pool[d].full /\ s \notin n.pool[d].empty
             /\ d # c => s \notin n.pool[d].partial
  <2>1. Listed(m, d, s)
    BY <1>0 DEF MemInv
  <2>2. CASE d = c
    BY <1>1, <1>3, <2>1, <2>2 DEF Listed
  <2>3. CASE d # c
    BY <1>1, <1>3, <2>1, <2>3 DEF Listed, In
  <2> QED
    BY <2>2, <2>3
<1>6. ASSUME NEW d \in Class, NEW t \in SlabId \ {s}
      PROVE  Listed(n, d, t)
  <2>1. Listed(m, d, t)
    BY DEF MemInv
  <2>2. CASE d = c
    BY <1>1, <2>1, <2>2 DEF Listed, In
  <2>3. CASE d # c
    BY <1>1, <2>1, <2>3 DEF Listed, In
  <2> QED
    BY <2>2, <2>3
<1> QED
  BY <1>1, <1>2, <1>3, <1>4, <1>5, <1>6 DEF MemOpen, MemInv, In

\* Mapping a slab for a class that has none to spare.
LEMMA MappedListed ==
    ASSUME NEW m, MemInv(m), NEW c \in Class, m.pool[c].empty = {},
           NEW s \in SlabId \ DOMAIN m.slab, NEW n, n = add_pool(m, c, s)
    PROVE  /\ MemInv(n)
           /\ s \in n.pool[c].empty
           /\ \A t, i : Taken(n, t, i) <=> Taken(m, t, i)
<1>0. MemType(m)
  BY DEF MemInv
<1>1. /\ n = [slab |-> n.slab, pool |-> n.pool]
      /\ DOMAIN n.slab = DOMAIN m.slab \cup {s}
      /\ n.slab \in [DOMAIN n.slab -> SlabType]
      /\ n.slab[s] = [classid |-> c, free_blocks |-> SlabBlocks[c],
                      free_list |-> 1..SlabBlocks[c]]
      /\ \A t \in DOMAIN m.slab : n.slab[t] = m.slab[t]
      /\ n.pool \in [Class -> ListType]
      /\ \A d \in Class \ {c} : n.pool[d] = m.pool[d]
      /\ n.pool[c].full = m.pool[c].full
      /\ n.pool[c].empty = m.pool[c].empty \cup {s}
      /\ n.pool[c].partial = m.pool[c].partial
      /\ n.pool[c].empty_slab_count = m.pool[c].empty_slab_count + 1
  BY <1>0, AddPoolIs
<1>2. MemType(n)
  BY <1>0, <1>1 DEF MemType
<1>3. SlabBlocks[c] \in Nat \ {0}
  BY ClassAssumption
<1>4. SlabTrue(n.slab[s])
  <2>1. 1 \in Int /\ SlabBlocks[c] \in Int /\ ~(1 > SlabBlocks[c])
        /\ SlabBlocks[c] - 1 + 1 = SlabBlocks[c]
    BY <1>3
  <2>2. Cardinality(1..SlabBlocks[c]) = SlabBlocks[c]
    BY <2>1, FS_Interval
  <2> QED
    BY <1>1, <2>2 DEF SlabTrue
<1>5. \A t \in DOMAIN n.slab : SlabTrue(n.slab[t])
  BY <1>1, <1>4 DEF MemInv
<1>6. ASSUME NEW d \in Class
      PROVE  Counted(n, d)
  <2>1. CASE d = c
    <3>1. Counted(m, c) /\ Cardinality(m.pool[c].empty) = 0
      BY FS_EmptySet DEF MemInv
    <3>2. IsFiniteSet({s}) /\ Cardinality({s}) = 1
      BY FS_Singleton, Zenon
    <3>3. n.pool[c].empty = {s}
      BY <1>1
    <3>4. 1 <= MaxEmptySlabs
      BY ClassAssumption
    <3>5. m.pool[c].empty_slab_count = 0
      BY <3>1 DEF Counted
    <3>6. m.pool[c].empty_slab_count + 1 = 1
      BY <3>5
    <3> QED
      BY <1>1, <2>1, <3>2, <3>3, <3>4, <3>6, Zenon DEF Counted
  <2>2. CASE d # c
    BY <1>1, <2>2 DEF MemInv, Counted
  <2> QED
    BY <2>1, <2>2
<1>7. ASSUME NEW d \in Class, NEW t \in SlabId
      PROVE  Listed(n, d, t)
  <2>1. Listed(m, d, t)
    BY DEF MemInv
  <2>2. CASE t # s
    <3>1. In(n, d, t) <=> In(m, d, t)
      BY <1>1, <2>2 DEF In
    <3>2. In(m, d, t) => n.slab[t] = m.slab[t]
      BY <1>1 DEF In
    <3>3. CASE d = c
      BY <1>1, <2>1, <2>2, <3>1, <3>2, <3>3 DEF Listed
    <3>4. CASE d # c
      BY <1>1, <2>1, <2>2, <3>1, <3>2, <3>4, Zenon DEF Listed
    <3> QED
      BY <3>3, <3>4
  <2>3. CASE t = s /\ d = c
    <3>1. In(n, d, t) /\ n.slab[t].free_blocks = SlabBlocks[c] /\ ~In(m, d, t)
      BY <1>1, <2>3 DEF In
    <3> QED
      BY <1>1, <1>3, <2>1, <2>3, <3>1, Zenon DEF Listed
  <2>4. CASE t = s /\ d # c
    <3>1. ~In(n, d, t) /\ ~In(m, d, t)
      BY <1>1, <2>4 DEF In
    <3> QED
      BY <1>1, <2>1, <2>4, <3>1 DEF Listed
  <2> QED
    BY <2>2, <2>3, <2>4
<1>8. ASSUME NEW t, NEW i
      PROVE  Taken(n, t, i) <=> Taken(m, t, i)
  <2>1. CASE t = s
    <3>1. n.slab[s].classid = c /\ n.slab[s].free_list = 1..SlabBlocks[c]
      BY <1>1
    <3> QED
      BY <2>1, <3>1 DEF Taken
  <2>2. CASE t # s
    <3>1. t \in DOMAIN n.slab <=> t \in DOMAIN m.slab
      BY <1>1, <2>2
    <3>2. t \in DOMAIN m.slab => n.slab[t] = m.slab[t]
      BY <1>1
    <3> QED
      BY <3>1, <3>2 DEF Taken
  <2> QED
    BY <2>1, <2>2
<1> QED
  BY <1>1, <1>2, <1>5, <1>6, <1>7, <1>8 DEF MemInv

LEMMA SlabOpens ==
    ASSUME NEW m, MemInv(m), NEW c \in Class, NEW r \in slab_malloc(m, c)
    PROVE  /\ MemOpen(r.m, c, r.s)
           /\ \A t, i : Taken(r.m, t, i) <=> Taken(m, t, i)
<1>1. CASE m.pool[c].partial # {}
  <2>1. PICK s \in m.pool[c].partial : r = [m |-> m, s |-> s]
    BY <1>1 DEF slab_malloc
  <2>2. r.m = m /\ r.s = s
    BY <2>1
  <2>3. s \in SlabId
    BY DEF MemInv, MemType, ListType
  <2>4. In(m, c, s) /\ m.slab[s].free_blocks # 0 /\ m.slab[s].free_blocks # SlabBlocks[c]
    BY <2>3 DEF MemInv, Listed
  <2>5. ASSUME NEW d \in Class
        PROVE  /\ s \notin m.pool[d].full /\ s \notin m.pool[d].empty
               /\ d # c => s \notin m.pool[d].partial
    <3>1. Listed(m, d, s)
      BY <2>3 DEF MemInv
    <3> QED
      BY <2>4, <3>1 DEF Listed, In
  <2> QED
    BY <2>2, <2>4, <2>5 DEF MemOpen, MemInv
<1>2. CASE m.pool[c].partial = {} /\ m.pool[c].empty # {}
  <2>1. PICK s \in m.pool[c].empty : r = [m |-> EmptyToPartial(m, c, s), s |-> s]
    BY <1>2 DEF slab_malloc
  <2>2. r.m = EmptyToPartial(m, c, s) /\ r.s = s
    BY <2>1
  <2>3. MemOpen(r.m, c, r.s) /\ r.m.slab = m.slab
    BY <2>2, EmptyOpens
  <2> QED
    BY <2>3 DEF Taken
<1>3. CASE m.pool[c].partial = {} /\ m.pool[c].empty = {}
  <2>1. PICK s \in SlabId \ DOMAIN m.slab :
               r = [m |-> EmptyToPartial(add_pool(m, c, s), c, s), s |-> s]
    BY <1>3 DEF slab_malloc
  <2> DEFINE n == add_pool(m, c, s)
  <2>2. /\ MemInv(n) /\ s \in n.pool[c].empty
        /\ \A t, i : Taken(n, t, i) <=> Taken(m, t, i)
    BY <1>3, MappedListed
  <2> HIDE DEF n
  <2>3. r.m = EmptyToPartial(n, c, s) /\ r.s = s
    BY <2>1 DEF n
  <2>4. MemOpen(r.m, c, r.s) /\ r.m.slab = n.slab
    BY <2>2, <2>3, EmptyOpens
  <2> QED
    BY <2>2, <2>4 DEF Taken
<1> QED
  BY <1>1, <1>2, <1>3
-----------------------------------------------------------------------------
(* Taking a block of the slab that slab_malloc found.                       *)

LEMMA TakesOne ==
    ASSUME NEW m, NEW c \in Class, NEW s, MemOpen(m, c, s),
           NEW i \in m.slab[s].free_list, NEW n, n = TakeBlock(m, c, s, i)
    PROVE  /\ MemInv(n)
           /\ s \in SlabId /\ i \in 1..SlabBlocks[c] /\ ~Taken(m, s, i)
           /\ \A t, j : Taken(n, t, j) <=> Taken(m, t, j) \/ (t = s /\ j = i)
<1> DEFINE o == m.slab[s]
           k == SlabBlocks[c]
<1>0. /\ MemType(m) /\ s \in DOMAIN m.slab /\ s \in SlabId /\ o \in SlabType
      /\ SlabTrue(o) /\ o.classid = c
  BY DEF MemOpen, MemType, In
<1>1. k \in Nat \ {0} /\ o.free_blocks \in 1..k /\ i \in 1..k
  <2>1. k \in Nat \ {0} /\ o.free_blocks \in 0..k
    BY <1>0, SlabFacts
  <2>2. o.free_blocks # 0
    BY DEF MemOpen
  <2>3. i \in 1..k
    BY <1>0 DEF SlabTrue
  <2> QED
    BY <2>1, <2>2, <2>3
<1>2. /\ n = [slab |-> n.slab, pool |-> n.pool]
      /\ DOMAIN n.slab = DOMAIN m.slab
      /\ n.slab \in [DOMAIN n.slab -> SlabType]
      /\ n.slab[s].classid = o.classid
      /\ n.slab[s].free_list = o.free_list \ {i}
      /\ n.slab[s].free_blocks = o.free_blocks - 1
      /\ \A t \in DOMAIN m.slab \ {s} : n.slab[t] = m.slab[t]
      /\ n.pool \in [Class -> ListType]
      /\ \A d \in Class \ {c} : n.pool[d] = m.pool[d]
      /\ n.pool[c].empty = m.pool[c].empty
      /\ n.pool[c].empty_slab_count = m.pool[c].empty_slab_count
      /\ o.free_blocks - 1 = 0 =>
            /\ n.pool[c].partial = m.pool[c].partial \ {s}
            /\ n.pool[c].full = m.pool[c].full \cup {s}
      /\ o.free_blocks - 1 # 0 => n.pool[c] = m.pool[c]
  <2>1. m.slab[s].free_blocks # 0
    BY <1>1
  <2> QED
    BY <1>0, <2>1, TakeBlockIs
<1>3. MemType(n)
  BY <1>0, <1>2 DEF MemType
<1>4. \A t \in DOMAIN n.slab : SlabTrue(n.slab[t])
  <2>1. n.slab[s] \in SlabType
    BY <1>0, <1>2
  <2>2. SlabTrue(n.slab[s])
    BY <1>0, <1>2, <2>1, SlabTakes
  <2> QED
    BY <1>2, <2>2 DEF MemOpen
<1>5. ASSUME NEW d \in Class
      PROVE  Counted(n, d)
  BY <1>2 DEF MemOpen, Counted
<1>6. ASSUME NEW d \in Class, NEW t \in SlabId
      PROVE  Listed(n, d, t)
  <2>1. CASE t # s
    <3>1. Listed(m, d, t)
      BY <2>1 DEF MemOpen
    <3>2. In(n, d, t) <=> In(m, d, t)
      BY <1>2, <2>1 DEF In
    <3>3. In(m, d, t) => n.slab[t] = m.slab[t]
      BY <1>2, <2>1 DEF In
    <3>4. /\ t \in n.pool[d].full <=> t \in m.pool[d].full
          /\ t \in n.pool[d].empty <=> t \in m.pool[d].empty
          /\ t \in n.pool[d].partial <=> t \in m.pool[d].partial
      BY <1>2, <2>1
    <3> QED
      BY <3>1, <3>2, <3>3, <3>4 DEF Listed
  <2>2. CASE t = s /\ d # c
    <3>1. ~In(n, d, t)
      BY <1>0, <1>2, <2>2 DEF In
    <3>2. t \notin n.pool[d].full /\ t \notin n.pool[d].empty /\ t \notin n.pool[d].partial
      BY <1>2, <2>2 DEF MemOpen
    <3> QED
      BY <3>1, <3>2 DEF Listed
  <2>3. CASE t = s /\ d = c
    <3>1. In(n, c, s) /\ s \in m.pool[c].partial /\ s \notin m.pool[c].full
          /\ s \notin m.pool[c].empty
      BY <1>0, <1>2 DEF In, MemOpen
    <3>2. n.slab[s].free_blocks # k
      BY <1>1, <1>2
    <3>3. CASE o.free_blocks - 1 = 0
      <4>1. n.slab[s].free_blocks = 0
        BY <1>2, <3>3
      <4> QED
        BY <1>2, <2>3, <3>1, <3>2, <3>3, <4>1 DEF Listed
    <3>4. CASE o.free_blocks - 1 # 0
      <4>1. n.slab[s].free_blocks # 0
        BY <1>2, <3>4
      <4> QED
        BY <1>2, <2>3, <3>1, <3>2, <3>4, <4>1, Zenon DEF Listed
    <3> QED
      BY <3>3, <3>4
  <2> QED
    BY <2>1, <2>2, <2>3
<1>7. ASSUME NEW t, NEW j
      PROVE  Taken(n, t, j) <=> Taken(m, t, j) \/ (t = s /\ j = i)
  <2>1. CASE t = s
    BY <1>0, <1>1, <1>2, <2>1 DEF Taken
  <2>2. CASE t # s
    BY <1>2, <2>2 DEF Taken
  <2> QED
    BY <2>1, <2>2
<1>8. ~Taken(m, s, i)
  BY DEF Taken
<1> QED
  BY <1>0, <1>1, <1>3, <1>4, <1>5, <1>6, <1>7, <1>8 DEF MemInv

\* A block of a slab that mp_malloc returns was free, and is now taken.
LEMMA BlockTaken ==
    ASSUME NEW m, MemInv(m), NEW c \in Class, NEW h, NEW r \in slab_block(m, c, h)
    PROVE  \E s \in SlabId, i \in 1..SlabBlocks[c] :
              /\ r.p = <<s, i>> /\ r.header = h /\ r.size = ClassSize[c]
              /\ MemInv(r.m) /\ ~Taken(m, s, i)
              /\ \A t, j : Taken(r.m, t, j) <=> Taken(m, t, j) \/ (t = s /\ j = i)
<1>1. PICK q \in slab_malloc(m, c) :
         r \in { [m |-> TakeBlock(q.m, c, q.s, i), p |-> <<q.s, i>>,
                  header |-> h, size |-> ClassSize[c]] : i \in q.m.slab[q.s].free_list }
  BY DEF slab_block
<1>2. PICK i \in q.m.slab[q.s].free_list :
         r = [m |-> TakeBlock(q.m, c, q.s, i), p |-> <<q.s, i>>,
              header |-> h, size |-> ClassSize[c]]
  BY <1>1
<1>3. r.m = TakeBlock(q.m, c, q.s, i) /\ r.p = <<q.s, i>> /\ r.header = h
      /\ r.size = ClassSize[c]
  BY <1>2
<1>4. /\ MemOpen(q.m, c, q.s)
      /\ \A t, j : Taken(q.m, t, j) <=> Taken(m, t, j)
  BY SlabOpens
<1>5. /\ MemInv(r.m)
      /\ q.s \in SlabId /\ i \in 1..SlabBlocks[c] /\ ~Taken(q.m, q.s, i)
      /\ \A t, j : Taken(r.m, t, j) <=> Taken(q.m, t, j) \/ (t = q.s /\ j = i)
  BY <1>3, <1>4, TakesOne
<1> QED
  BY <1>3, <1>4, <1>5
-----------------------------------------------------------------------------
(* slab_free.                                                               *)

\* Block i went back to slab s of class c, and the first test of slab_free made
\* a full slab partial.
Returned(m, s, i, c, w) ==
    /\ MemType(w)
    /\ DOMAIN w.slab = DOMAIN m.slab
    /\ w.slab[s].classid = c
    /\ w.slab[s].free_list = m.slab[s].free_list \cup {i}
    /\ w.slab[s].free_blocks = m.slab[s].free_blocks + 1
    /\ \A t \in DOMAIN m.slab \ {s} : w.slab[t] = m.slab[t]
    /\ \A d \in Class \ {c} : w.pool[d] = m.pool[d]
    /\ m.slab[s].free_blocks # 0 => w.pool[c] = m.pool[c]
    /\ m.slab[s].free_blocks = 0 =>
          /\ w.pool[c].full = m.pool[c].full \ {s}
          /\ w.pool[c].partial = m.pool[c].partial \cup {s}
          /\ w.pool[c].empty = m.pool[c].empty
          /\ w.pool[c].empty_slab_count = m.pool[c].empty_slab_count

\* A slab with a block that is not free.
LEMMA TakenFacts ==
    ASSUME NEW m, MemInv(m), NEW s, NEW i, Taken(m, s, i),
           NEW c, c = m.slab[s].classid
    PROVE  /\ MemType(m) /\ s \in DOMAIN m.slab /\ s \in SlabId
           /\ m.slab[s] \in SlabType /\ SlabTrue(m.slab[s])
           /\ c \in Class /\ i \in Nat /\ i \in 1..SlabBlocks[c]
           /\ i \notin m.slab[s].free_list
           /\ SlabBlocks[c] \in Nat \ {0}
           /\ m.slab[s].free_blocks \in 0..(SlabBlocks[c] - 1)
<1> DEFINE o == m.slab[s]
           k == SlabBlocks[c]
<1>1. /\ MemType(m) /\ s \in DOMAIN m.slab /\ s \in SlabId /\ o \in SlabType
      /\ SlabTrue(o) /\ c \in Class /\ i \in 1..k /\ i \notin o.free_list
  BY DEF MemInv, MemType, Taken, SlabType
<1>2. k \in Nat \ {0} /\ o.free_blocks \in 0..k /\ (o.free_blocks = k => i \in o.free_list)
  BY <1>1, SlabFacts
<1> QED
  BY <1>1, <1>2

LEMMA ReturnIs ==
    ASSUME NEW m, NEW s, NEW i, NEW c, NEW b, NEW w
    PROVE  /\ MemInv(m) /\ Taken(m, s, i) /\ c = m.slab[s].classid
           /\ b = ReturnBlock(m, s, i)
           /\ w = [slab |-> b.slab, pool |-> FullToPartial(b, c, s)]
           => MemType(b) /\ Returned(m, s, i, c, w)
<1>a. SUFFICES ASSUME MemInv(m), Taken(m, s, i), c = m.slab[s].classid,
                      b = ReturnBlock(m, s, i),
                      w = [slab |-> b.slab, pool |-> FullToPartial(b, c, s)]
               PROVE  MemType(b) /\ Returned(m, s, i, c, w)
  OBVIOUS
<1> DEFINE o == m.slab[s]
<1>0. /\ MemType(m) /\ s \in DOMAIN m.slab /\ c \in Class /\ i \in Nat
      /\ o.free_blocks \in Nat
  <2>1. /\ MemType(m) /\ s \in DOMAIN m.slab /\ c \in Class /\ i \in Nat
        /\ o \in SlabType
    BY <1>a, TakenFacts
  <2> QED
    BY <2>1 DEF SlabType
<1>1. /\ MemType(b)
      /\ DOMAIN b.slab = DOMAIN m.slab
      /\ b.slab[s].classid = o.classid
      /\ b.slab[s].free_list = o.free_list \cup {i}
      /\ b.slab[s].free_blocks = o.free_blocks + 1
      /\ \A t \in DOMAIN m.slab \ {s} : b.slab[t] = m.slab[t]
      /\ b.pool = m.pool
  BY <1>a, <1>0, ReturnBlockIs
<1>2. /\ w.slab = b.slab /\ w.pool = FullToPartial(b, c, s)
      /\ w = [slab |-> w.slab, pool |-> w.pool]
  BY <1>a
<1>3. /\ w.pool \in [Class -> ListType]
      /\ \A d \in Class \ {c} : w.pool[d] = b.pool[d]
      /\ b.slab[s].free_blocks # 1 => w.pool[c] = b.pool[c]
      /\ b.slab[s].free_blocks = 1 =>
            /\ w.pool[c].full = b.pool[c].full \ {s}
            /\ w.pool[c].partial = b.pool[c].partial \cup {s}
            /\ w.pool[c].empty = b.pool[c].empty
            /\ w.pool[c].empty_slab_count = b.pool[c].empty_slab_count
  <2>1. s \in DOMAIN b.slab
    BY <1>0, <1>1
  <2> QED
    BY <1>0, <1>1, <1>2, <2>1, FullToPartialIs
<1>4. b.slab[s].free_blocks = 1 <=> o.free_blocks = 0
  BY <1>0, <1>1
<1>5. MemType(w)
  BY <1>1, <1>2, <1>3 DEF MemType
<1>6. /\ DOMAIN w.slab = DOMAIN m.slab
      /\ w.slab[s].classid = c
      /\ w.slab[s].free_list = o.free_list \cup {i}
      /\ w.slab[s].free_blocks = o.free_blocks + 1
      /\ \A t \in DOMAIN m.slab \ {s} : w.slab[t] = m.slab[t]
  BY <1>a, <1>1, <1>2
<1>7. /\ \A d \in Class \ {c} : w.pool[d] = m.pool[d]
      /\ o.free_blocks # 0 => w.pool[c] = m.pool[c]
      /\ o.free_blocks = 0 =>
            /\ w.pool[c].full = m.pool[c].full \ {s}
            /\ w.pool[c].partial = m.pool[c].partial \cup {s}
            /\ w.pool[c].empty = m.pool[c].empty
            /\ w.pool[c].empty_slab_count = m.pool[c].empty_slab_count
  <2>1. b.pool = m.pool
    BY <1>1
  <2> QED
    BY <1>3, <1>4, <2>1
<1> QED
  BY <1>1, <1>5, <1>6, <1>7, Zenon DEF Returned

\* The slab is then on the partial list although it may be all free.
LEMMA ReturnOpens ==
    ASSUME NEW m, MemInv(m), NEW s, NEW i, Taken(m, s, i),
           NEW c, c = m.slab[s].classid, NEW w, Returned(m, s, i, c, w)
    PROVE  /\ MemOpen(w, c, s)
           /\ \A t, j : Taken(w, t, j) <=> Taken(m, t, j) /\ ~(t = s /\ j = i)
<1> DEFINE o == m.slab[s]
           k == SlabBlocks[c]
<1>0. /\ MemType(m) /\ s \in DOMAIN m.slab /\ s \in SlabId /\ o \in SlabType
      /\ SlabTrue(o) /\ c \in Class /\ i \in 1..k /\ i \notin o.free_list
      /\ k \in Nat \ {0} /\ o.free_blocks \in 0..(k - 1)
  BY TakenFacts
<1>1. /\ MemType(w) /\ DOMAIN w.slab = DOMAIN m.slab
      /\ w.slab[s].classid = c
      /\ w.slab[s].free_list = o.free_list \cup {i}
      /\ w.slab[s].free_blocks = o.free_blocks + 1
      /\ \A t \in DOMAIN m.slab \ {s} : w.slab[t] = m.slab[t]
  BY Zenon DEF Returned
<1>2. /\ \A d \in Class \ {c} : w.pool[d] = m.pool[d]
      /\ o.free_blocks # 0 => w.pool[c] = m.pool[c]
      /\ o.free_blocks = 0 =>
            /\ w.pool[c].full = m.pool[c].full \ {s}
            /\ w.pool[c].partial = m.pool[c].partial \cup {s}
            /\ w.pool[c].empty = m.pool[c].empty
            /\ w.pool[c].empty_slab_count = m.pool[c].empty_slab_count
  BY Zenon DEF Returned
<1>3. \A t \in DOMAIN w.slab : SlabTrue(w.slab[t])
  <2>1. w.slab[s] \in SlabType
    BY <1>0, <1>1 DEF MemType
  <2>2. SlabTrue(w.slab[s])
    BY <1>0, <1>1, <2>1, SlabReturns
  <2> QED
    BY <1>1, <2>2 DEF MemInv
<1>4. ASSUME NEW d \in Class
      PROVE  Counted(w, d)
  <2>1. Counted(m, d)
    BY DEF MemInv
  <2>2. /\ w.pool[d].empty = m.pool[d].empty
        /\ w.pool[d].empty_slab_count = m.pool[d].empty_slab_count
    BY <1>2, Zenon
  <2> QED
    BY <2>1, <2>2 DEF Counted
<1>5. ASSUME NEW d \in Class
      PROVE  /\ s \notin w.pool[d].full /\ s \notin w.pool[d].empty
             /\ s \in w.pool[d].partial <=> d = c
  <2>1. Listed(m, d, s)
    BY <1>0 DEF MemInv
  <2>2. CASE d # c
    BY <1>2, <2>1, <2>2, Zenon DEF Listed, In
  <2>3. CASE d = c /\ o.free_blocks = 0
    <3>1. s \notin m.pool[c].empty
      BY <1>0, <2>1, <2>3, Zenon DEF Listed
    <3> QED
      BY <1>2, <2>3, <3>1, Zenon
  <2>4. CASE d = c /\ o.free_blocks # 0
    <3>1. o.free_blocks # k
      BY <1>0
    <3>2. In(m, c, s)
      BY <1>0 DEF In
    <3>3. /\ s \notin m.pool[c].full /\ s \notin m.pool[c].empty
          /\ s \in m.pool[c].partial
      BY <2>1, <2>4, <3>1, <3>2, Zenon DEF Listed
    <3> QED
      BY <1>2, <2>4, <3>3, Zenon
  <2> QED
    BY <2>2, <2>3, <2>4
<1>6. ASSUME NEW d \in Class, NEW t \in SlabId \ {s}
      PROVE  Listed(w, d, t)
  <2>1. Listed(m, d, t)
    BY DEF MemInv
  <2>2. (In(w, d, t) <=> In(m, d, t)) /\ (In(m, d, t) => w.slab[t] = m.slab[t])
    BY <1>1 DEF In
  <2>3. /\ t \in w.pool[d].full <=> t \in m.pool[d].full
        /\ t \in w.pool[d].empty <=> t \in m.pool[d].empty
        /\ t \in w.pool[d].partial <=> t \in m.pool[d].partial
    BY <1>2, Zenon
  <2> QED
    BY <2>1, <2>2, <2>3 DEF Listed
<1>7. In(w, c, s) /\ w.slab[s].free_blocks # 0
  BY <1>0, <1>1 DEF In
<1>8. ASSUME NEW t, NEW j
      PROVE  Taken(w, t, j) <=> Taken(m, t, j) /\ ~(t = s /\ j = i)
  <2>1. CASE t = s
    BY <1>0, <1>1, <2>1 DEF Taken
  <2>2. CASE t # s
    BY <1>1, <2>2 DEF Taken
  <2> QED
    BY <2>1, <2>2
<1> QED
  BY <1>0, <1>1, <1>3, <1>4, <1>5, <1>6, <1>7, <1>8, Zenon DEF MemOpen

\* The last test of slab_free puts the slab on the right list, or unmaps it.
LEMMA FreeCloses ==
    ASSUME NEW w, NEW c \in Class, NEW s, MemOpen(w, c, s),
           NEW b, MemType(b), b.slab = w.slab,
           NEW n, n = FreeWith(b, c, s, w.pool)
    PROVE  /\ MemInv(n)
           /\ \A t, j : Taken(n, t, j) <=> Taken(w, t, j)
<1> DEFINE o == w.slab[s]
           k == SlabBlocks[c]
           l == w.pool[c]
<1>0. /\ MemType(w) /\ s \in DOMAIN w.slab /\ s \in SlabId /\ o \in SlabType
      /\ SlabTrue(o) /\ o.classid = c /\ w.pool \in [Class -> ListType]
      /\ l.empty_slab_count \in Int
  BY DEF MemOpen, MemType, In, ListType
<1>1. /\ k \in Nat \ {0} /\ o.free_blocks \in 0..k /\ o.free_blocks # 0
      /\ o.free_blocks = k => o.free_list = 1..k
  BY <1>0, SlabFacts DEF MemOpen
<1>2. Closed(b, c, s, w.pool, n)
  <2>1. s \in DOMAIN b.slab
    BY <1>0
  <2> QED
    BY <1>0, <2>1, FreeWithIs, Zenon
<1>3. /\ MemType(n)
      /\ \A d \in Class \ {c} : n.pool[d] = w.pool[d]
  BY <1>2, Zenon DEF Closed
<1>4. /\ \A t \in DOMAIN w.slab : SlabTrue(w.slab[t])
      /\ \A d \in Class : Counted(w, d)
  BY Zenon DEF MemOpen
<1>5. ASSUME NEW d \in Class
      PROVE  /\ s \notin w.pool[d].full /\ s \notin w.pool[d].empty
             /\ s \in w.pool[d].partial <=> d = c
             /\ \A t \in SlabId \ {s} : Listed(w, d, t)
  BY Zenon DEF MemOpen
<1>6. CASE o.free_blocks # k
  <2>1. n.slab = w.slab /\ n.pool = w.pool
    BY <1>2, <1>6 DEF Closed
  <2>2. ASSUME NEW d \in Class, NEW t \in SlabId
        PROVE  Listed(n, d, t)
    <3>1. CASE t # s
      <4>1. Listed(w, d, t)
        BY <1>5, <3>1, Zenon
      <4> QED
        BY <2>1, <4>1, Zenon DEF Listed, In
    <3>2. CASE t = s
      <4>1. In(n, d, t) <=> d = c
        BY <1>0, <2>1, <3>2, Zenon DEF In
      <4>2. n.slab[t].free_blocks # 0 /\ (d = c => n.slab[t].free_blocks # SlabBlocks[d])
        BY <1>1, <1>6, <2>1, <3>2
      <4>3. /\ t \notin n.pool[d].full /\ t \notin n.pool[d].empty
            /\ t \in n.pool[d].partial <=> d = c
        BY <1>5, <2>1, <3>2, Zenon
      <4> QED
        BY <4>1, <4>2, <4>3, Zenon DEF Listed
    <3> QED
      BY <3>1, <3>2, Zenon
  <2>3. \A d \in Class : Counted(n, d)
    BY <1>4, <2>1, Zenon DEF Counted
  <2> QED
    BY <1>3, <1>4, <2>1, <2>2, <2>3, Zenon DEF MemInv, Taken
<1>7. CASE o.free_blocks = k /\ l.empty_slab_count >= MaxEmptySlabs
  <2>1. /\ DOMAIN n.slab = DOMAIN w.slab \ {s}
        /\ \A t \in DOMAIN n.slab : n.slab[t] = w.slab[t]
    BY <1>2, <1>7, Zenon DEF Closed
  <2>2. /\ n.pool[c].full = l.full /\ n.pool[c].partial = l.partial \ {s}
        /\ n.pool[c].empty = l.empty
        /\ n.pool[c].empty_slab_count = l.empty_slab_count
    BY <1>2, <1>7, Zenon DEF Closed
  <2>3. ASSUME NEW d \in Class, NEW t \in SlabId
        PROVE  Listed(n, d, t)
    <3>1. /\ n.pool[d].full = w.pool[d].full /\ n.pool[d].empty = w.pool[d].empty
          /\ t \in n.pool[d].partial <=> t \in w.pool[d].partial /\ t # s
      BY <1>3, <1>5, <2>2
    <3>2. CASE t # s
      <4>1. (In(n, d, t) <=> In(w, d, t)) /\ (In(w, d, t) => n.slab[t] = w.slab[t])
        BY <2>1, <3>2, Zenon DEF In
      <4>2. Listed(w, d, t)
        BY <1>5, <3>2, Zenon
      <4> QED
        BY <3>1, <3>2, <4>1, <4>2, Zenon DEF Listed
    <3>3. CASE t = s
      <4>1. ~In(n, d, t)
        BY <2>1, <3>3, Zenon DEF In
      <4>2. t \notin n.pool[d].full /\ t \notin n.pool[d].empty /\ t \notin n.pool[d].partial
        BY <1>5, <3>1, <3>3, Zenon
      <4> QED
        BY <4>1, <4>2, Zenon DEF Listed
    <3> QED
      BY <3>2, <3>3, Zenon
  <2>4. ASSUME NEW d \in Class
        PROVE  Counted(n, d)
    <3>1. /\ n.pool[d].empty = w.pool[d].empty
          /\ n.pool[d].empty_slab_count = w.pool[d].empty_slab_count
      BY <1>3, <2>2
    <3> QED
      BY <1>4, <3>1, Zenon DEF Counted
  <2>5. \A t \in DOMAIN n.slab : SlabTrue(n.slab[t])
    BY <1>4, <2>1, Zenon
  <2>6. ASSUME NEW t, NEW j
        PROVE  Taken(n, t, j) <=> Taken(w, t, j)
    <3>1. CASE t = s
      BY <1>0, <1>1, <1>7, <2>1, <3>1, Zenon DEF Taken
    <3>2. CASE t # s
      <4>1. (t \in DOMAIN n.slab <=> t \in DOMAIN w.slab)
            /\ (t \in DOMAIN w.slab => n.slab[t] = w.slab[t])
        BY <2>1, <3>2, Zenon
      <4> QED
        BY <4>1, Zenon DEF Taken
    <3> QED
      BY <3>1, <3>2, Zenon
  <2> QED
    BY <1>3, <2>3, <2>4, <2>5, <2>6, Zenon DEF MemInv
<1>8. CASE o.free_blocks = k /\ ~(l.empty_slab_count >= MaxEmptySlabs)
  <2>1. n.slab = w.slab
    BY <1>2, <1>8, Zenon DEF Closed
  <2>2. /\ n.pool[c].full = l.full /\ n.pool[c].partial = l.partial \ {s}
        /\ n.pool[c].empty = l.empty \cup {s}
        /\ n.pool[c].empty_slab_count = l.empty_slab_count + 1
    BY <1>2, <1>8, Zenon DEF Closed
  <2>3. ASSUME NEW d \in Class, NEW t \in SlabId
        PROVE  Listed(n, d, t)
    <3>1. /\ n.pool[d].full = w.pool[d].full
          /\ t \in n.pool[d].partial <=> t \in w.pool[d].partial /\ t # s
          /\ t \in n.pool[d].empty <=> t \in w.pool[d].empty \/ (t = s /\ d = c)
      BY <1>3, <1>5, <2>2
    <3>2. CASE t # s
      <4>1. Listed(w, d, t)
        BY <1>5, <3>2, Zenon
      <4>2. In(n, d, t) <=> In(w, d, t)
        BY <2>1, Zenon DEF In
      <4> QED
        BY <2>1, <3>1, <3>2, <4>1, <4>2, Zenon DEF Listed
    <3>3. CASE t = s
      <4>1. In(n, d, t) <=> d = c
        BY <1>0, <2>1, <3>3, Zenon DEF In
      <4>2. n.slab[t].free_blocks # 0 /\ (d = c => n.slab[t].free_blocks = SlabBlocks[d])
        BY <1>1, <1>8, <2>1, <3>3
      <4>3. /\ t \notin n.pool[d].full /\ t \notin n.pool[d].partial
            /\ t \in n.pool[d].empty <=> d = c
        BY <1>5, <3>1, <3>3, Zenon
      <4> QED
        BY <4>1, <4>2, <4>3, Zenon DEF Listed
    <3> QED
      BY <3>2, <3>3, Zenon
  <2>4. ASSUME NEW d \in Class
        PROVE  Counted(n, d)
    <3>1. CASE d # c
      BY <1>3, <1>4, <3>1, Zenon DEF Counted
    <3>2. CASE d = c
      <4>1. /\ IsFiniteSet(l.empty) /\ s \notin l.empty
            /\ l.empty_slab_count = Cardinality(l.empty)
        BY <1>4, <1>5, Zenon DEF Counted
      <4>2. /\ IsFiniteSet(l.empty \cup {s})
            /\ Cardinality(l.empty \cup {s}) = Cardinality(l.empty) + 1
        BY <4>1, FS_AddElement, Zenon
      <4>3. l.empty_slab_count + 1 <= MaxEmptySlabs
        BY <1>0, <1>8, ClassAssumption
      <4> QED
        BY <2>2, <3>2, <4>1, <4>2, <4>3, Zenon DEF Counted
    <3> QED
      BY <3>1, <3>2, Zenon
  <2> QED
    BY <1>3, <1>4, <2>1, <2>3, <2>4, Zenon DEF MemInv, Taken
<1> QED
  BY <1>6, <1>7, <1>8, Zenon

\* Freeing a block of a slab makes it free, and touches no other block.
LEMMA BlockReturned ==
    ASSUME NEW m, MemInv(m), NEW s, NEW i, Taken(m, s, i),
           NEW n, n = slab_free(ReturnBlock(m, s, i), m.slab[s].classid, s)
    PROVE  /\ MemInv(n)
           /\ \A t, j : Taken(n, t, j) <=> Taken(m, t, j) /\ ~(t = s /\ j = i)
<1> DEFINE c == m.slab[s].classid
           b == ReturnBlock(m, s, i)
           w == [slab |-> b.slab, pool |-> FullToPartial(b, c, s)]
<1>0. c = m.slab[s].classid /\ MemType(b) /\ Returned(m, s, i, c, w) /\ c \in Class
  BY ReturnIs, TakenFacts
<1>1. b.slab = w.slab /\ n = FreeWith(b, c, s, w.pool)
  BY DEF slab_free
<1> HIDE DEF c, b, w
<1>2. /\ MemOpen(w, c, s)
      /\ \A t, j : Taken(w, t, j) <=> Taken(m, t, j) /\ ~(t = s /\ j = i)
  BY <1>0, ReturnOpens
<1>3. MemInv(n) /\ \A t, j : Taken(n, t, j) <=> Taken(w, t, j)
  BY <1>0, <1>1, <1>2, FreeCloses
<1> QED
  BY <1>2, <1>3
-----------------------------------------------------------------------------
(* Sizes and classes.                                                       *)

LEMMA Least ==
    ASSUME NEW S, S \subseteq Nat, NEW n \in S
    PROVE  \E k \in S : \A j \in S : k <= j
<1> DEFINE R == OpToRel(<, Nat)
           Q == {ss \in Nat \X Nat : ss[1] < ss[2]}
<1>1. IsWellFoundedOn(R, Nat)
  BY NatLessThanWellFounded, Zenon
<1>2. R = Q
  BY Zenon DEF OpToRel
<1>3. PICK k \in S : \A j \in S : ~(<<j, k>> \in R)
  BY <1>1, WFMin, Zenon
<1> HIDE DEF R
<1>4. ASSUME NEW j \in S
      PROVE  k <= j
  <2>1. <<j, k>> \notin Q
    BY <1>2, <1>3
  <2> QED
    BY <2>1
<1> QED
  BY <1>4

\* get_class_id finds a class that is large enough whenever there is one.
LEMMA ClassFound ==
    ASSUME NEW n \in Nat, NEW e \in Class, n <= ClassSize[e]
    PROVE  get_class_id(n) \in Class /\ n <= ClassSize[get_class_id(n)]
<1> DEFINE S == { c \in Class : n <= ClassSize[c] }
<1>1. S \subseteq Nat /\ e \in S
  BY ClassAssumption, Zenon
<1>2. \E k \in S : \A j \in S : k <= j
  BY <1>1, Least, Zenon
<1>3. \E c \in Class : /\ n <= ClassSize[c]
                       /\ \A d \in Class : n <= ClassSize[d] => c <= d
  BY <1>2
<1> QED
  BY <1>3 DEF get_class_id

LEMMA AlignedUp ==
    ASSUME NEW x \in Nat
    PROVE  ALIGN_UP(x) \in Nat /\ x <= ALIGN_UP(x)
<1>1. AlignSize \in Nat \ {0}
  BY ClassAssumption
<1> DEFINE y == x + AlignSize - 1
           q == y \div AlignSize
<1>2. y \in Nat
  BY <1>1
<1>3. q \in Nat /\ y < AlignSize * q + AlignSize
  <2>1. ASSUME NEW a \in Nat \ {0}, NEW z \in Nat
        PROVE  z \div a \in Nat
    BY Z3
  <2>2. ASSUME NEW a \in Nat \ {0}, NEW z \in Nat
        PROVE  z < a * (z \div a) + a
    BY Z3
  <2> HIDE DEF y
  <2> QED
    BY <1>1, <1>2, <2>1, <2>2
<1>4. ALIGN_UP(x) = q * AlignSize
  BY DEF ALIGN_UP
<1> HIDE DEF q
<1>5. q * AlignSize \in Nat /\ q * AlignSize = AlignSize * q
  BY <1>1, <1>3
<1>6. x <= AlignSize * q
  BY <1>1, <1>3
<1> QED
  BY <1>4, <1>5, <1>6
-----------------------------------------------------------------------------
(* Blocks and their holders.                                                *)

Header == {"none", "block", "large"}

\* A holder's block is not free, or was given by libc; a block that is not
\* free has a holder.
Held(m, b) ==
    /\ \A p \in DOMAIN b :
          \/ b[p].header = "large" /\ p \in LargeId
          \/ /\ b[p].header # "large"
             /\ \E s \in SlabId, i \in Nat : p = <<s, i>> /\ Taken(m, s, i)
    /\ \A s, i : Taken(m, s, i) => /\ <<s, i>> \in DOMAIN b
                                   /\ b[<<s, i>>].header # "large"

BlockType == [header : Header, size : Nat, asked : Nat, data : Data]

\* A request never exceeds the recorded size.
BlocksOK(b) ==
    /\ DOMAIN b \subseteq Pointer
    /\ b \in [DOMAIN b -> BlockType]
    /\ \A p \in DOMAIN b : b[p].asked <= b[p].size

PoolInv == MemInv(Mem) /\ Held(Mem, block) /\ BlocksOK(block)

\* What mp_malloc returns: a block nobody holds, with room for the request.
Gives(m, b, n, r) ==
    /\ MemInv(r.m)
    /\ r.p \in Pointer \ DOMAIN b
    /\ r.header \in Header
    /\ r.size \in Nat
    /\ n <= IF r.header = "block" THEN r.size - HeaderSize ELSE r.size
    /\ \/ r.header = "large" /\ r.p \in LargeId /\ r.m = m
       \/ /\ r.header # "large"
          /\ \E s \in SlabId, i \in Nat :
                /\ r.p = <<s, i>>
                /\ \A t, j : Taken(r.m, t, j) <=> Taken(m, t, j) \/ (t = s /\ j = i)

LEMMA SlabBlockGives ==
    ASSUME MemInv(Mem), Held(Mem, block), NEW c \in Class,
           NEW h \in {"none", "block"}, NEW n \in Nat,
           n <= IF h = "block" THEN ClassSize[c] - HeaderSize ELSE ClassSize[c],
           NEW r \in slab_block(Mem, c, h)
    PROVE  Gives(Mem, block, n, r)
<1>1. PICK s \in SlabId, i \in 1..SlabBlocks[c] :
         /\ r.p = <<s, i>> /\ r.header = h /\ r.size = ClassSize[c]
         /\ MemInv(r.m) /\ ~Taken(Mem, s, i)
         /\ \A t, j : Taken(r.m, t, j) <=> Taken(Mem, t, j) \/ (t = s /\ j = i)
  BY BlockTaken
<1>2. r.p \in Pointer
  BY <1>1 DEF Pointer
<1>3. i \in Nat
  BY ClassAssumption
<1>4. r.p \notin DOMAIN block
  <2>1. SUFFICES ASSUME r.p \in DOMAIN block
                 PROVE  FALSE
    OBVIOUS
  <2>2. r.p \notin LargeId
    BY <1>1, <1>3, PlacesAssumption
  <2>3. PICK t \in SlabId, j \in Nat : r.p = <<t, j>> /\ Taken(Mem, t, j)
    BY <2>1, <2>2 DEF Held
  <2>4. t = s /\ j = i
    BY <1>1, <2>3
  <2> QED
    BY <1>1, <2>3, <2>4
<1>5. r.header \in Header /\ r.header # "large" /\ r.size \in Nat
  BY <1>1, ClassAssumption DEF Header
<1>6. n <= IF r.header = "block" THEN r.size - HeaderSize ELSE r.size
  BY <1>1
<1> QED
  BY <1>1, <1>2, <1>3, <1>4, <1>5, <1>6 DEF Gives

LEMMA MallocGives ==
    ASSUME PoolInv, NEW n \in Size, NEW r \in mp_malloc(Mem, n)
    PROVE  Gives(Mem, block, n, r)
<1>0. n \in Nat /\ HeaderSize \in Nat /\ n + HeaderSize \in Nat
      /\ HeaderlessMax \in Nat /\ LargeThreshold \in Nat /\ ClassSize \in [Class -> Nat]
  BY ClassAssumption
<1> DEFINE a == ALIGN_UP(n)
           z == ALIGN_UP(n + HeaderSize)
<1>1. a \in Nat /\ n <= a /\ z \in Nat /\ n + HeaderSize <= z
  BY <1>0, AlignedUp
<1>2. CASE a <= HeaderlessMax
  <2>1. r \in slab_block(Mem, get_class_id(a), "none")
    BY <1>2 DEF mp_malloc
  <2>2. get_class_id(a) \in Class /\ a <= ClassSize[get_class_id(a)]
    BY <1>1, <1>2, ThresholdAssumption, ClassFound
  <2>3. n <= ClassSize[get_class_id(a)]
    BY <1>0, <1>1, <2>2
  <2> HIDE DEF a
  <2> QED
    BY <1>0, <2>1, <2>2, <2>3, SlabBlockGives DEF PoolInv
<1>3. CASE ~(a <= HeaderlessMax) /\ z > LargeThreshold
  <2>1. r \in large_block(Mem, n)
    BY <1>3 DEF mp_malloc
  <2>2. PICK p \in LargeId \ DOMAIN block :
           r = [m |-> Mem, p |-> p, header |-> "large", size |-> n]
    BY <2>1 DEF large_block
  <2>3. r.m = Mem /\ r.p = p /\ r.header = "large" /\ r.size = n
    BY <2>2
  <2>4. r.p \in Pointer \ DOMAIN block /\ r.p \in LargeId
    BY <2>3 DEF Pointer
  <2>5. n <= n
    BY <1>0
  <2> QED
    BY <1>0, <2>3, <2>4, <2>5 DEF Gives, Header, PoolInv
<1>4. CASE ~(a <= HeaderlessMax) /\ ~(z > LargeThreshold)
  <2>1. r \in slab_block(Mem, get_class_id(z), "block")
    BY <1>4 DEF mp_malloc
  <2>2. z <= LargeThreshold
    BY <1>0, <1>1, <1>4
  <2>3. get_class_id(z) \in Class /\ z <= ClassSize[get_class_id(z)]
    BY <1>1, <2>2, ThresholdAssumption, ClassFound
  <2>4. ClassSize[get_class_id(z)] \in Nat
    BY <1>0, <2>3
  <2> HIDE DEF z
  <2>5. n <= ClassSize[get_class_id(z)] - HeaderSize
    BY <1>0, <1>1, <2>3, <2>4
  <2> QED
    BY <1>0, <2>1, <2>3, <2>5, SlabBlockGives DEF PoolInv
<1> QED
  BY <1>2, <1>3, <1>4

\* The caller that gets the block holds it.
LEMMA HolderGets ==
    ASSUME NEW m, NEW b, Held(m, b), BlocksOK(b), NEW n \in Nat, NEW r,
           Gives(m, b, n, r), NEW d \in Data, NEW x, x = NewBlock(r, n, d)
    PROVE  Held(r.m, Put(b, r.p, x)) /\ BlocksOK(Put(b, r.p, x))
<1> DEFINE e == Put(b, r.p, x)
<1>1. /\ x = [header |-> r.header, size |-> r.size, asked |-> n, data |-> d]
      /\ x.header = r.header /\ x.size = r.size /\ x.asked = n
  BY DEF NewBlock
<1>2. /\ r.header \in Header /\ r.size \in Nat /\ r.p \in Pointer /\ r.p \notin DOMAIN b
      /\ n <= IF r.header = "block" THEN r.size - HeaderSize ELSE r.size
  BY DEF Gives
<1>3. x \in BlockType /\ x.asked <= x.size
  <2>1. n <= r.size
    BY <1>2, ClassAssumption
  <2> QED
    BY <1>1, <1>2, <2>1 DEF BlockType
<1>4. /\ DOMAIN e = DOMAIN b \cup {r.p} /\ e[r.p] = x
      /\ \A p \in DOMAIN b : e[p] = b[p]
  BY <1>2 DEF Put
<1>5. e \in [DOMAIN e -> BlockType]
  BY <1>3 DEF Put, BlocksOK
<1> HIDE DEF e
<1>6. BlocksOK(e)
  BY <1>2, <1>3, <1>4, <1>5 DEF BlocksOK
<1>7. CASE r.header = "large" /\ r.p \in LargeId /\ r.m = m
  <2>1. Held(m, e)
    BY <1>1, <1>2, <1>4, <1>7 DEF Held
  <2> QED
    BY <1>6, <1>7, <2>1 DEF e
<1>8. CASE /\ r.header # "large"
           /\ \E s \in SlabId, i \in Nat :
                 /\ r.p = <<s, i>>
                 /\ \A t, j : Taken(r.m, t, j) <=> Taken(m, t, j) \/ (t = s /\ j = i)
  <2>1. PICK s \in SlabId, i \in Nat :
           /\ r.p = <<s, i>>
           /\ \A t, j : Taken(r.m, t, j) <=> Taken(m, t, j) \/ (t = s /\ j = i)
    BY <1>8
  <2>2. ASSUME NEW p \in DOMAIN e
        PROVE  \/ e[p].header = "large" /\ p \in LargeId
               \/ /\ e[p].header # "large"
                  /\ \E t \in SlabId, j \in Nat : p = <<t, j>> /\ Taken(r.m, t, j)
    <3>1. CASE p = r.p
      BY <1>1, <1>4, <1>8, <2>1, <3>1
    <3>2. CASE p \in DOMAIN b
      BY <1>4, <2>1, <3>2 DEF Held
    <3> QED
      BY <1>4, <3>1, <3>2
  <2>3. ASSUME NEW t, NEW j, Taken(r.m, t, j)
        PROVE  <<t, j>> \in DOMAIN e /\ e[<<t, j>>].header # "large"
    <3>1. CASE Taken(m, t, j)
      BY <1>4, <3>1 DEF Held
    <3>2. CASE t = s /\ j = i
      BY <1>1, <1>4, <1>8, <2>1, <3>2
    <3> QED
      BY <2>1, <2>3, <3>1, <3>2
  <2> QED
    BY <1>6, <2>2, <2>3 DEF Held, e
<1>9. \/ r.header = "large" /\ r.p \in LargeId /\ r.m = m
      \/ /\ r.header # "large"
         /\ \E s \in SlabId, i \in Nat :
               /\ r.p = <<s, i>>
               /\ \A t, j : Taken(r.m, t, j) <=> Taken(m, t, j) \/ (t = s /\ j = i)
  BY DEF Gives
<1>10. Held(r.m, e) /\ BlocksOK(e)
  BY <1>6, <1>7, <1>8, <1>9 DEF e
<1> QED
  BY <1>10 DEF e

\* mp_free of a block somebody holds.
LEMMA HolderFrees ==
    ASSUME NEW m, MemInv(m), NEW b, Held(m, b), BlocksOK(b),
           NEW p \in DOMAIN b, b[p] = block[p]
    PROVE  /\ MemInv(mp_free(m, p))
           /\ Held(mp_free(m, p), Drop(b, p)) /\ BlocksOK(Drop(b, p))
<1> DEFINE e == Drop(b, p)
           n == mp_free(m, p)
<1>1. DOMAIN e = DOMAIN b \ {p} /\ \A q \in DOMAIN e : e[q] = b[q]
  BY DEF Drop
<1>2. BlocksOK(e)
  BY DEF Drop, BlocksOK
<1>3. CASE b[p].header = "large" /\ p \in LargeId
  <2>1. n = m
    BY <1>3 DEF mp_free
  <2> HIDE DEF e, n
  <2>2. ASSUME NEW s, NEW i, Taken(m, s, i)
        PROVE  <<s, i>> \in DOMAIN e /\ e[<<s, i>>].header # "large"
    <3>1. <<s, i>> \in DOMAIN b /\ b[<<s, i>>].header # "large"
      BY <2>2 DEF Held
    <3>2. <<s, i>> # p
      BY <1>3, <3>1
    <3> QED
      BY <1>1, <3>1, <3>2
  <2>3. Held(m, e)
    BY <1>1, <2>2 DEF Held
  <2>4. MemInv(n) /\ Held(n, e)
    BY <2>1, <2>3
  <2> QED
    BY <1>2, <2>4 DEF e, n
<1>4. CASE /\ b[p].header # "large"
           /\ \E s \in SlabId, i \in Nat : p = <<s, i>> /\ Taken(m, s, i)
  <2>1. PICK s \in SlabId, i \in Nat : p = <<s, i>> /\ Taken(m, s, i)
    BY <1>4
  <2>2. n = slab_free(ReturnBlock(m, s, i), m.slab[s].classid, s)
    BY <1>4, <2>1 DEF mp_free
  <2> HIDE DEF e, n
  <2>3. /\ MemInv(n)
        /\ \A t, j : Taken(n, t, j) <=> Taken(m, t, j) /\ ~(t = s /\ j = i)
    BY <2>1, <2>2, BlockReturned
  <2>4. ASSUME NEW q \in DOMAIN e
        PROVE  \/ e[q].header = "large" /\ q \in LargeId
               \/ /\ e[q].header # "large"
                  /\ \E t \in SlabId, j \in Nat : q = <<t, j>> /\ Taken(n, t, j)
    <3>1. q \in DOMAIN b /\ q # p /\ e[q] = b[q]
      BY <1>1
    <3>2. CASE b[q].header = "large" /\ q \in LargeId
      BY <3>1, <3>2
    <3>3. CASE /\ b[q].header # "large"
               /\ \E t \in SlabId, j \in Nat : q = <<t, j>> /\ Taken(m, t, j)
      <4>1. PICK t \in SlabId, j \in Nat : q = <<t, j>> /\ Taken(m, t, j)
        BY <3>3
      <4>2. ~(t = s /\ j = i)
        BY <2>1, <3>1, <4>1
      <4> QED
        BY <2>3, <3>1, <3>3, <4>1, <4>2
    <3> QED
      BY <3>1, <3>2, <3>3 DEF Held
  <2>5. ASSUME NEW t, NEW j, Taken(n, t, j)
        PROVE  <<t, j>> \in DOMAIN e /\ e[<<t, j>>].header # "large"
    <3>1. Taken(m, t, j) /\ ~(t = s /\ j = i)
      BY <2>3, <2>5
    <3>2. <<t, j>> \in DOMAIN b /\ b[<<t, j>>].header # "large"
      BY <3>1 DEF Held
    <3>3. <<t, j>> # p
      BY <2>1, <3>1
    <3> QED
      BY <1>1, <3>2, <3>3
  <2>6. Held(n, e)
    BY <2>4, <2>5 DEF Held
  <2> QED
    BY <1>2, <2>3, <2>6 DEF e, n
<1> QED
  BY <1>3, <1>4 DEF Held
-----------------------------------------------------------------------------
(* The inductive invariant.                                                 *)

LEMMA NothingMapped ==
    ASSUME NEW m, m = [slab |-> [s \in {} |-> 0], pool |-> mp_create],
           NEW b, b = [p \in {} |-> 0]
    PROVE  MemInv(m) /\ Held(m, b) /\ BlocksOK(b)
<1>1. /\ m.slab = [s \in {} |-> 0] /\ m.pool = mp_create
      /\ m = [slab |-> m.slab, pool |-> m.pool]
  OBVIOUS
<1>2. DOMAIN m.slab = {} /\ DOMAIN b = {}
  BY <1>1
<1>3. m.slab \in [DOMAIN m.slab -> SlabType] /\ b \in [DOMAIN b -> BlockType]
  BY <1>1, <1>2
<1>4. \A c \in Class : m.pool[c] = [partial |-> {}, full |-> {}, empty |-> {},
                                    empty_slab_count |-> 0]
  BY <1>1 DEF mp_create
<1>5. m.pool \in [Class -> ListType]
  BY <1>1 DEF mp_create, ListType
<1>6. IsFiniteSet({}) /\ Cardinality({}) = 0 /\ 0 <= MaxEmptySlabs
  BY FS_EmptySet, ClassAssumption
<1>7. ASSUME NEW c \in Class
      PROVE  Counted(m, c)
  <2>1. m.pool[c].empty = {} /\ m.pool[c].empty_slab_count = 0
    BY <1>4
  <2> QED
    BY <1>6, <2>1, Zenon DEF Counted
<1>8. \A c \in Class, s \in SlabId : Listed(m, c, s)
  BY <1>2, <1>4 DEF Listed, In
<1>9. MemInv(m)
  BY <1>1, <1>2, <1>3, <1>5, <1>7, <1>8 DEF MemInv, MemType
<1>10. Held(m, b)
  BY <1>2 DEF Held, Taken
<1>11. BlocksOK(b)
  BY <1>2, <1>3 DEF BlocksOK
<1> QED
  BY <1>9, <1>10, <1>11

\* A pair of slabs and lists is its two components.
LEMMA MemIs ==
    ASSUME NEW m, MemInv(m), slab' = m.slab, pool' = m.pool
    PROVE  Mem' = m
  BY DEF Mem, MemInv, MemType

\* PoolInv is inductive: every block of a slab that is not free has exactly
\* one holder, through every mp_malloc, mp_free and mp_realloc.
THEOREM PoolInvariant == Spec => []PoolInv
<1>1. Init => PoolInv
  <2> SUFFICES ASSUME Init
               PROVE  PoolInv
    OBVIOUS
  <2>1. Mem = [slab |-> [s \in {} |-> 0], pool |-> mp_create] /\ block = [p \in {} |-> 0]
    BY DEF Init, Mem
  <2> QED
    BY <2>1, NothingMapped DEF PoolInv
<1>2. PoolInv /\ [Next]_vars => PoolInv'
  <2> SUFFICES ASSUME PoolInv, [Next]_vars
               PROVE  MemInv(Mem') /\ Held(Mem', block') /\ BlocksOK(block')
    BY DEF PoolInv
  <2>0. MemInv(Mem) /\ Held(Mem, block) /\ BlocksOK(block)
    BY DEF PoolInv
  <2>1. ASSUME NEW n \in Size, NEW d \in Data, NEW r \in mp_malloc(Mem, n), Malloc(n, r, d)
        PROVE  MemInv(Mem') /\ Held(Mem', block') /\ BlocksOK(block')
    <3>1. Gives(Mem, block, n, r) /\ MemInv(r.m) /\ n \in Nat
      BY MallocGives, ClassAssumption DEF Gives
    <3>2. Mem' = r.m
      BY <2>1, <3>1, MemIs DEF Malloc
    <3>3. block' = Put(block, r.p, NewBlock(r, n, d))
      BY <2>1 DEF Malloc
    <3> QED
      BY <2>0, <3>1, <3>2, <3>3, HolderGets
  <2>2. ASSUME NEW n \in Size, Refused(n)
        PROVE  MemInv(Mem') /\ Held(Mem', block') /\ BlocksOK(block')
    <3>1. Mem' = Mem /\ block' = block
      BY <2>2 DEF Refused, Mem, vars
    <3> QED
      BY <2>0, <3>1
  <2>3. ASSUME NEW p \in DOMAIN block, Free(p)
        PROVE  MemInv(Mem') /\ Held(Mem', block') /\ BlocksOK(block')
    <3>1. /\ MemInv(mp_free(Mem, p))
          /\ Held(mp_free(Mem, p), Drop(block, p)) /\ BlocksOK(Drop(block, p))
      BY <2>0, HolderFrees
    <3>2. Mem' = mp_free(Mem, p) /\ block' = Drop(block, p)
      BY <2>3, <3>1, MemIs DEF Free
    <3> QED
      BY <3>1, <3>2
  <2>4. ASSUME NEW p \in DOMAIN block, NEW n \in Size, ReallocInPlace(p, n)
        PROVE  MemInv(Mem') /\ Held(Mem', block') /\ BlocksOK(block')
    <3>1. Mem' = Mem
      BY <2>4 DEF ReallocInPlace, Mem
    <3>2. n \in Nat /\ n <= block[p].size /\ block' = [block EXCEPT ![p].asked = n]
      BY <2>4, ClassAssumption DEF ReallocInPlace
    <3>3. /\ DOMAIN block' = DOMAIN block
          /\ block'[p] \in BlockType
          /\ block'[p].header = block[p].header
          /\ block'[p].size = block[p].size /\ block'[p].asked = n
          /\ \A q \in DOMAIN block \ {p} : block'[q] = block[q]
          /\ block' \in [DOMAIN block' -> BlockType]
      <4>1. block \in [DOMAIN block -> BlockType] /\ block[p] \in BlockType
        BY <2>0 DEF BlocksOK
      <4> QED
        BY <3>2, <4>1 DEF BlockType
    <3>4. BlocksOK(block')
      BY <2>0, <3>2, <3>3 DEF BlocksOK
    <3>5. \A q \in DOMAIN block : block'[q].header = block[q].header
      BY <3>3
    <3>6. Held(Mem, block')
      BY <2>0, <3>3, <3>5 DEF Held
    <3> QED
      BY <2>0, <3>1, <3>4, <3>6
  <2>5. ASSUME NEW p \in DOMAIN block, NEW n \in Size, NEW r \in mp_malloc(Mem, n),
               ReallocMoves(p, n, r)
        PROVE  MemInv(Mem') /\ Held(Mem', block') /\ BlocksOK(block')
    <3> DEFINE x == NewBlock(r, n, block[p].data)
               b == Put(block, r.p, x)
    <3>1. Gives(Mem, block, n, r) /\ MemInv(r.m) /\ n \in Nat /\ r.p \notin DOMAIN block
      BY MallocGives, ClassAssumption DEF Gives
    <3>2. block[p].data \in Data
      BY <2>0 DEF BlocksOK, BlockType
    <3>3. Held(r.m, b) /\ BlocksOK(b)
      BY <2>0, <3>1, <3>2, HolderGets
    <3>4. p \in DOMAIN b /\ b[p] = block[p]
      BY <3>1 DEF Put
    <3>5. Put(Drop(block, p), r.p, x) = Drop(b, p)
      BY <3>1 DEF Put, Drop
    <3> HIDE DEF b, x
    <3>6. /\ MemInv(mp_free(r.m, p))
          /\ Held(mp_free(r.m, p), Drop(b, p)) /\ BlocksOK(Drop(b, p))
      BY <3>1, <3>3, <3>4, HolderFrees
    <3>7. Mem' = mp_free(r.m, p)
      BY <2>5, <3>6, MemIs DEF ReallocMoves
    <3>8. block' = Drop(b, p)
      BY <2>5, <3>5 DEF ReallocMoves, x
    <3> QED
      BY <3>6, <3>7, <3>8
  <2>6. ASSUME NEW p \in DOMAIN block, NEW d \in Data, Use(p, d)
        PROVE  MemInv(Mem') /\ Held(Mem', block') /\ BlocksOK(block')
    <3>1. Mem' = Mem
      BY <2>6 DEF Use, Mem
    <3>2. block' = [block EXCEPT ![p].data = d]
      BY <2>6 DEF Use
    <3>3. /\ DOMAIN block' = DOMAIN block
          /\ block'[p] \in BlockType
          /\ block'[p].header = block[p].header
          /\ block'[p].size = block[p].size /\ block'[p].asked = block[p].asked
          /\ \A q \in DOMAIN block \ {p} : block'[q] = block[q]
          /\ block' \in [DOMAIN block' -> BlockType]
      <4>1. block \in [DOMAIN block -> BlockType] /\ block[p] \in BlockType
        BY <2>0 DEF BlocksOK
      <4> QED
        BY <3>2, <4>1 DEF BlockType
    <3>4. BlocksOK(block')
      BY <2>0, <3>3 DEF BlocksOK
    <3>5. \A q \in DOMAIN block : block'[q].header = block[q].header
      BY <3>3
    <3>6. Held(Mem, block')
      BY <2>0, <3>3, <3>5 DEF Held
    <3> QED
      BY <2>0, <3>1, <3>4, <3>6
  <2>7. ASSUME mp_destroy
        PROVE  MemInv(Mem') /\ Held(Mem', block') /\ BlocksOK(block')
    <3>1. /\ Mem' = [slab |-> [s \in {} |-> 0], pool |-> mp_create]
          /\ block' = [p \in {} |-> 0]
      BY <2>7 DEF mp_destroy, Mem
    <3> QED
      BY <3>1, NothingMapped
  <2>8. ASSUME UNCHANGED vars
        PROVE  MemInv(Mem') /\ Held(Mem', block') /\ BlocksOK(block')
    <3>1. Mem' = Mem /\ block' = block
      BY <2>8 DEF Mem, vars
    <3> QED
      BY <2>0, <3>1
  <2> QED
    BY <2>1, <2>2, <2>3, <2>4, <2>5, <2>6, <2>7, <2>8 DEF Next
<1> QED
  BY <1>1, <1>2, PTL DEF Spec
-----------------------------------------------------------------------------
(* The properties.                                                          *)

\* A holder's block of slab s is a block of s that is not free.
LEMMA HeldBlocks ==
    ASSUME PoolInv, NEW s \in DOMAIN slab
    PROVE  /\ LiveIn(s) = {s} \X (1..SlabBlocks[slab[s].classid] \ slab[s].free_list)
           /\ slab[s] \in SlabType /\ SlabTrue(slab[s]) /\ s \in SlabId
           /\ LiveIn(s) = {} <=> slab[s].free_blocks = SlabBlocks[slab[s].classid]
<1> DEFINE k == SlabBlocks[slab[s].classid]
<1>1. MemInv(Mem) /\ Held(Mem, block) /\ Mem.slab = slab /\ Mem.pool = pool
  BY DEF PoolInv, Mem
<1>2. slab[s] \in SlabType /\ SlabTrue(slab[s]) /\ s \in SlabId
  BY <1>1 DEF MemInv, MemType
<1>3. ASSUME NEW p \in LiveIn(s)
      PROVE  p \in {s} \X (1..k \ slab[s].free_list)
  <2>1. p \in DOMAIN block /\ block[p].header # "large" /\ p[1] = s
    BY DEF LiveIn
  <2>2. PICK t \in SlabId, i \in Nat : p = <<t, i>> /\ Taken(Mem, t, i)
    BY <1>1, <2>1 DEF Held
  <2>3. t = s
    BY <2>1, <2>2
  <2> QED
    BY <1>1, <2>2, <2>3 DEF Taken
<1>4. ASSUME NEW i \in 1..k \ slab[s].free_list
      PROVE  <<s, i>> \in LiveIn(s)
  <2>1. Taken(Mem, s, i)
    BY <1>1 DEF Taken
  <2> QED
    BY <1>1, <2>1 DEF Held, LiveIn
<1>5. LiveIn(s) = {s} \X (1..k \ slab[s].free_list)
  BY <1>3, <1>4
<1>6. /\ slab[s].free_list \subseteq 1..k
      /\ slab[s].free_blocks = k <=> slab[s].free_list = 1..k
  BY <1>2, SlabFacts DEF SlabTrue
<1>7. LiveIn(s) = {} <=> slab[s].free_list = 1..k
  <2>1. CASE slab[s].free_list = 1..k
    <3>1. ~ \E p \in LiveIn(s) : TRUE
      BY <1>3, <2>1
    <3> QED
      BY <2>1, <3>1
  <2>2. CASE slab[s].free_list # 1..k
    <3>1. PICK i \in 1..k \ slab[s].free_list : TRUE
      BY <1>6, <2>2, Zenon
    <3> QED
      BY <1>4, <2>2, <3>1, Zenon
  <2> QED
    BY <2>1, <2>2
<1> QED
  BY <1>2, <1>5, <1>6, <1>7

LEMMA InvPartitioned ==
    ASSUME PoolInv
    PROVE  BlocksPartitioned
<1>1. ASSUME NEW p \in DOMAIN block, block[p].header # "large"
      PROVE  p[1] \in DOMAIN slab
  <2>1. PICK s \in SlabId, i \in Nat : p = <<s, i>> /\ Taken(Mem, s, i)
    BY <1>1 DEF PoolInv, Held
  <2> QED
    BY <2>1 DEF Taken, Mem
<1> QED
  BY <1>1, HeldBlocks DEF BlocksPartitioned, SlabTrue

LEMMA InvLists ==
    ASSUME PoolInv
    PROVE  ListsTrue
<1> SUFFICES ASSUME NEW c \in Class
             PROVE  /\ pool[c].full = { s \in Slab(c) : slab[s].free_blocks = 0 }
                    /\ pool[c].empty = { s \in Slab(c) : slab[s].free_blocks = SlabBlocks[c] }
                    /\ pool[c].partial = { s \in Slab(c) :
                            slab[s].free_blocks \in 1..(SlabBlocks[c] - 1) }
                    /\ pool[c].empty_slab_count =
                          Cardinality({ s \in Slab(c) : LiveIn(s) = {} })
                    /\ pool[c].empty_slab_count <= MaxEmptySlabs
  BY Zenon DEF ListsTrue
<1>1. MemInv(Mem) /\ Mem.slab = slab /\ Mem.pool = pool
  BY DEF PoolInv, Mem
<1>2. /\ pool[c].full \subseteq SlabId /\ pool[c].empty \subseteq SlabId
      /\ pool[c].partial \subseteq SlabId /\ DOMAIN slab \subseteq SlabId
  BY <1>1 DEF MemInv, MemType, ListType
<1>3. \A s \in SlabId :
         /\ s \in pool[c].full <=> s \in Slab(c) /\ slab[s].free_blocks = 0
         /\ s \in pool[c].empty <=> s \in Slab(c) /\ slab[s].free_blocks = SlabBlocks[c]
         /\ s \in pool[c].partial <=> /\ s \in Slab(c)
                                      /\ slab[s].free_blocks # 0
                                      /\ slab[s].free_blocks # SlabBlocks[c]
  BY <1>1 DEF MemInv, Listed, In, Slab
<1>4. ASSUME NEW s \in Slab(c)
      PROVE  /\ s \in SlabId
             /\ slab[s].free_blocks \in 0..SlabBlocks[c] /\ SlabBlocks[c] \in Nat
             /\ LiveIn(s) = {} <=> slab[s].free_blocks = SlabBlocks[c]
  <2>1. s \in DOMAIN slab /\ slab[s].classid = c
    BY DEF Slab
  <2>2. slab[s] \in SlabType /\ SlabTrue(slab[s]) /\ s \in SlabId
        /\ (LiveIn(s) = {} <=> slab[s].free_blocks = SlabBlocks[c])
    BY <2>1, HeldBlocks
  <2> QED
    BY <2>1, <2>2, SlabFacts
<1>5. \A s \in Slab(c) : (slab[s].free_blocks # 0 /\ slab[s].free_blocks # SlabBlocks[c])
                           <=> slab[s].free_blocks \in 1..(SlabBlocks[c] - 1)
  BY <1>4
<1>6. pool[c].full = { s \in Slab(c) : slab[s].free_blocks = 0 }
  BY <1>2, <1>3, <1>4
<1>7. pool[c].empty = { s \in Slab(c) : slab[s].free_blocks = SlabBlocks[c] }
  BY <1>2, <1>3, <1>4
<1>8. pool[c].partial = { s \in Slab(c) : slab[s].free_blocks \in 1..(SlabBlocks[c] - 1) }
  BY <1>2, <1>3, <1>4, <1>5
<1>9. pool[c].empty = { s \in Slab(c) : LiveIn(s) = {} }
  BY <1>4, <1>7
<1>10. /\ pool[c].empty_slab_count = Cardinality(pool[c].empty)
       /\ pool[c].empty_slab_count <= MaxEmptySlabs
  BY <1>1 DEF MemInv, Counted
<1> QED
  BY <1>6, <1>7, <1>8, <1>9, <1>10

\* No call of mp_malloc, mp_free or mp_realloc hands out a block twice, loses
\* one, or unmaps a slab in use, with any number of slabs.
THEOREM AlwaysPartitioned == Spec => []BlocksPartitioned
  BY PoolInvariant, InvPartitioned, PTL

\* slab_malloc and slab_free keep every slab on the list that its free blocks
\* call for, and no class keeps more than MAX_EMPTY_SLABS idle slabs.
THEOREM AlwaysListed == Spec => []ListsTrue
  BY PoolInvariant, InvLists, PTL

\* A block mp_malloc returns has room for the request, for every table of
\* size classes that has the two thresholds in it; one that mp_realloc leaves
\* in place is short of at most its header.
THEOREM AlwaysFits == Spec => BlockFits
<1> DEFINE Fits == \A p \in DOMAIN block' :
          block'[p].asked <= Room(block'[p]) +
              (IF p \in DOMAIN block /\ block[p].header = "block" THEN HeaderSize ELSE 0)
<1>1. PoolInv /\ PoolInv' /\ [Next]_vars => [Fits]_vars
  <2> SUFFICES ASSUME PoolInv, PoolInv', Next, NEW p \in DOMAIN block'
               PROVE  block'[p].asked <= Room(block'[p]) +
                        (IF p \in DOMAIN block /\ block[p].header = "block"
                         THEN HeaderSize ELSE 0)
    BY DEF vars
  <2>0. HeaderSize \in Nat
    BY ClassAssumption
  <2>1. block'[p] \in BlockType /\ block'[p].asked <= block'[p].size
    BY DEF PoolInv, BlocksOK
  <2>2. /\ block'[p].asked \in Nat /\ block'[p].size \in Nat
        /\ block'[p].asked <= block'[p].size
    BY <2>1 DEF BlockType
  <2>3. CASE p \in DOMAIN block /\ block[p].header = block'[p].header
    BY <2>0, <2>2, <2>3 DEF Room
  <2>4. ASSUME NEW n \in Size, NEW r \in mp_malloc(Mem, n), NEW d,
               p = r.p, block'[p] = NewBlock(r, n, d)
        PROVE  block'[p].asked <= Room(block'[p]) /\ p \notin DOMAIN block
    <3>1. Gives(Mem, block, n, r)
      BY MallocGives
    <3>2. block'[p].asked = n /\ block'[p].size = r.size /\ block'[p].header = r.header
      BY <2>4 DEF NewBlock
    <3> QED
      BY <2>4, <3>1, <3>2 DEF Gives, Room
  <2>5. \/ p \in DOMAIN block /\ block[p].header = block'[p].header
        \/ \E n \in Size : \E r \in mp_malloc(Mem, n) : \E d :
              p = r.p /\ block'[p] = NewBlock(r, n, d)
    <3>0. block \in [DOMAIN block -> BlockType]
      BY DEF PoolInv, BlocksOK
    <3>1. CASE \E n \in Size, d \in Data : \E r \in mp_malloc(Mem, n) : Malloc(n, r, d)
      <4>1. PICK n \in Size, d \in Data : \E r \in mp_malloc(Mem, n) : Malloc(n, r, d)
        BY <3>1
      <4>2. PICK r \in mp_malloc(Mem, n) : block' = Put(block, r.p, NewBlock(r, n, d))
        BY <4>1 DEF Malloc
      <4> QED
        BY <4>2 DEF Put
    <3>2. CASE \E n \in Size : Refused(n)
      BY <3>2 DEF Refused, vars
    <3>3. CASE \E q \in DOMAIN block : Free(q)
      BY <3>3 DEF Free, Drop
    <3>4. CASE \E q \in DOMAIN block, n \in Size : ReallocInPlace(q, n)
      <4>1. PICK q \in DOMAIN block, n \in Size : block' = [block EXCEPT ![q].asked = n]
        BY <3>4, Zenon DEF ReallocInPlace
      <4> QED
        BY <3>0, <4>1 DEF BlockType
    <3>5. CASE \E q \in DOMAIN block, n \in Size :
                  \E r \in mp_malloc(Mem, n) : ReallocMoves(q, n, r)
      <4>1. PICK q \in DOMAIN block, n \in Size :
                  \E r \in mp_malloc(Mem, n) : ReallocMoves(q, n, r)
        BY <3>5
      <4>2. PICK r \in mp_malloc(Mem, n) :
               block' = Put(Drop(block, q), r.p, NewBlock(r, n, block[q].data))
        BY <4>1 DEF ReallocMoves
      <4> QED
        BY <4>2 DEF Put, Drop
    <3>6. CASE \E q \in DOMAIN block, d \in Data : Use(q, d)
      <4>1. PICK q \in DOMAIN block, d \in Data : block' = [block EXCEPT ![q].data = d]
        BY <3>6, Zenon DEF Use
      <4> QED
        BY <3>0, <4>1 DEF BlockType
    <3>7. CASE mp_destroy
      BY <3>7 DEF mp_destroy
    <3> QED
      BY <3>1, <3>2, <3>3, <3>4, <3>5, <3>6, <3>7, Zenon DEF Next
  <2>6. CASE \E n \in Size : \E r \in mp_malloc(Mem, n) : \E d :
                p = r.p /\ block'[p] = NewBlock(r, n, d)
    <3>1. block'[p].asked <= Room(block'[p]) /\ p \notin DOMAIN block
      BY <2>4, <2>6
    <3>2. Room(block'[p]) \in Int
      BY <2>0, <2>2 DEF Room
    <3> QED
      BY <2>2, <3>1, <3>2
  <2> QED
    BY <2>3, <2>5, <2>6
<1> QED
  BY <1>1, PoolInvariant, PTL DEF Spec, BlockFits

\* The pool implements MallocSpec: separate blocks that keep what was written
\* to them, wherever mp_realloc moves them.
THEOREM ImplementsHeap == Spec => HeapSpec
<1> DEFINE heap == [p \in DOMAIN block |-> block[p].data]
<1>1. Init => Heap!Init
  <2> SUFFICES ASSUME Init
               PROVE  heap = [p \in {} |-> 0]
    BY DEF Heap!Init
  <2>1. DOMAIN block = {}
    BY DEF Init
  <2> QED
    BY <2>1
<1>2. PoolInv /\ [Next]_vars => [Heap!Next]_heap
  <2> SUFFICES ASSUME PoolInv, Next
               PROVE  Heap!Next \/ heap' = heap
    BY DEF vars
  <2>0. /\ block \in [DOMAIN block -> BlockType] /\ DOMAIN block \subseteq Pointer
        /\ \A p \in DOMAIN block : block[p].data \in Data
    BY DEF PoolInv, BlocksOK, BlockType
  <2>h. DOMAIN heap = DOMAIN block /\ \A p \in DOMAIN block : heap[p] = block[p].data
    OBVIOUS
  <2>1. CASE \E n \in Size, d \in Data : \E r \in mp_malloc(Mem, n) : Malloc(n, r, d)
    <3>1. PICK n \in Size, d \in Data : \E r \in mp_malloc(Mem, n) : Malloc(n, r, d)
      BY <2>1
    <3>2. PICK r \in mp_malloc(Mem, n) : block' = Put(block, r.p, NewBlock(r, n, d))
      BY <3>1 DEF Malloc
    <3>3. r.p \in Pointer /\ r.p \notin DOMAIN block
      BY MallocGives DEF Gives
    <3>4. NewBlock(r, n, d).data = d
      BY DEF NewBlock
    <3>5. /\ DOMAIN block' = DOMAIN block \cup {r.p}
          /\ \A q \in DOMAIN block' : block'[q].data = IF q = r.p THEN d ELSE block[q].data
      BY <3>2, <3>4 DEF Put
    <3>6. heap' = [q \in DOMAIN heap \cup {r.p} |-> IF q = r.p THEN d ELSE heap[q]]
      BY <3>5
    <3>7. Heap!Malloc(r.p, d)
      BY <3>3, <3>6 DEF Heap!Malloc
    <3> QED
      BY <3>3, <3>7 DEF Heap!Next
  <2>2. CASE \E n \in Size : Refused(n)
    BY <2>2 DEF Refused, vars
  <2>3. CASE \E p \in DOMAIN block : Free(p)
    <3>1. PICK p \in DOMAIN block : block' = Drop(block, p)
      BY <2>3 DEF Free
    <3>2. /\ DOMAIN block' = DOMAIN block \ {p}
          /\ \A q \in DOMAIN block' : block'[q].data = block[q].data
      BY <3>1 DEF Drop
    <3>3. heap' = [q \in DOMAIN heap \ {p} |-> heap[q]]
      BY <3>2
    <3>4. Heap!Free(p)
      BY <3>3 DEF Heap!Free
    <3> QED
      BY <2>0, <3>4 DEF Heap!Next
  <2>4. CASE \E p \in DOMAIN block, n \in Size : ReallocInPlace(p, n)
    <3>1. PICK p \in DOMAIN block, n \in Size : block' = [block EXCEPT ![p].asked = n]
      BY <2>4, Zenon DEF ReallocInPlace
    <3>2. /\ DOMAIN block' = DOMAIN block
          /\ \A q \in DOMAIN block' : block'[q].data = block[q].data
      BY <2>0, <3>1 DEF BlockType
    <3> QED
      BY <3>2
  <2>5. CASE \E p \in DOMAIN block, n \in Size :
                \E r \in mp_malloc(Mem, n) : ReallocMoves(p, n, r)
    <3>1. PICK p \in DOMAIN block, n \in Size :
             \E r \in mp_malloc(Mem, n) : ReallocMoves(p, n, r)
      BY <2>5
    <3>2. PICK r \in mp_malloc(Mem, n) :
             block' = Put(Drop(block, p), r.p, NewBlock(r, n, block[p].data))
      BY <3>1 DEF ReallocMoves
    <3>3. r.p \in Pointer /\ r.p \notin DOMAIN block
      BY MallocGives DEF Gives
    <3>4. NewBlock(r, n, block[p].data).data = block[p].data
      BY DEF NewBlock
    <3>5. /\ DOMAIN block' = (DOMAIN block \ {p}) \cup {r.p}
          /\ \A q \in DOMAIN block' :
                block'[q].data = IF q = r.p THEN block[p].data ELSE block[q].data
      BY <3>2, <3>4 DEF Put, Drop
    <3>6. heap' = [q \in (DOMAIN heap \ {p}) \cup {r.p} |->
                      IF q = r.p THEN heap[p] ELSE heap[q]]
      BY <3>5
    <3>7. Heap!Move(p, r.p)
      BY <3>3, <3>6 DEF Heap!Move
    <3> QED
      BY <2>0, <3>3, <3>7 DEF Heap!Next
  <2>6. CASE \E p \in DOMAIN block, d \in Data : Use(p, d)
    <3>1. PICK p \in DOMAIN block, d \in Data : block' = [block EXCEPT ![p].data = d]
      BY <2>6, Zenon DEF Use
    <3>2. /\ DOMAIN block' = DOMAIN block
          /\ \A q \in DOMAIN block' : block'[q].data = IF q = p THEN d ELSE block[q].data
      BY <2>0, <3>1 DEF BlockType
    <3>3. heap' = [heap EXCEPT ![p] = d]
      BY <3>2, Zenon
    <3>4. Heap!Write(p, d)
      BY <3>3 DEF Heap!Write
    <3> QED
      BY <2>0, <3>4 DEF Heap!Next
  <2>7. CASE mp_destroy
    <3>1. DOMAIN block' = {}
      BY <2>7 DEF mp_destroy
    <3>2. heap' = [p \in {} |-> 0]
      BY <3>1
    <3>3. Heap!Exit
      BY <3>2 DEF Heap!Exit
    <3> QED
      BY <3>3 DEF Heap!Next
  <2> QED
    BY <2>1, <2>2, <2>3, <2>4, <2>5, <2>6, <2>7, Zenon DEF Next
<1> QED
  BY <1>1, <1>2, PoolInvariant, PTL DEF Spec, HeapSpec, Heap!Spec
=============================================================================
