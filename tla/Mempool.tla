------------------------------ MODULE Mempool ------------------------------
(***************************************************************************)
(* The memory pool behind kvs_malloc, kvs_free and kvs_realloc              *)
(* (kvs-mempool/kvs_mempool.c).  A request is served from a slab of its     *)
(* size class, or by libc when it is large.  A slab is on the partial, full *)
(* or empty list of its class.  The lists of slabs and of free blocks are   *)
(* sets here: the code takes the head, the model takes any member, and      *)
(* nothing below depends on which.  A block's bytes are one member of Data. *)
(***************************************************************************)
EXTENDS Integers, FiniteSets

CONSTANTS
    Class,              \* indices of size_classes, an interval 1..CLASS_COUNT
    ClassSize,          \* size_classes
    SlabBlocks,         \* total_blocks of a slab of each class
    HeaderSize,         \* sizeof(block_header_t)
    HeaderlessMax,      \* ALIGNMENT_THRESHOLD
    LargeThreshold,     \* LARGE_THRESHOLD
    AlignSize,          \* ALIGN_SIZE
    MaxEmptySlabs,      \* MAX_EMPTY_SLABS
    SlabId,             \* where a slab can be mapped; bounds the mappings
    LargeId,            \* where libc can place a large block; bounds them
    Size,               \* sizes callers ask for
    Data                \* what a block may hold

ALIGN_UP(x) == ((x + AlignSize - 1) \div AlignSize) * AlignSize

ASSUME ClassAssumption ==
    /\ Class \subseteq Nat
    /\ ClassSize \in [Class -> Nat]
    /\ SlabBlocks \in [Class -> Nat \ {0}]
    /\ MaxEmptySlabs \in Nat \ {0}
    /\ AlignSize \in Nat \ {0}
    /\ HeaderSize \in Nat
    /\ HeaderlessMax \in Nat
    /\ LargeThreshold \in Nat
    /\ Size \subseteq Nat \ {0}

\* The thresholds are members of size_classes, so a class is found for every
\* request that is not large, and it has headers just when the request does.
ASSUME ThresholdAssumption ==
    /\ \E c \in Class : ClassSize[c] = HeaderlessMax
    /\ \E c \in Class : ClassSize[c] = LargeThreshold
    /\ \A n \in Size : n > HeaderlessMax => ALIGN_UP(n + HeaderSize) > HeaderlessMax

\* malloc and mmap return different memory.
ASSUME PlacesAssumption == LargeId \cap (SlabId \X Nat) = {}

VARIABLES
    slab,               \* mapped slabs: class, free_blocks and free_list
    pool,               \* kvs_mempool_t: the three lists of every class
    block               \* live blocks: header, recorded size, size asked, data

vars == <<slab, pool, block>>

Pointer == (SlabId \X UNION { 1..SlabBlocks[c] : c \in Class }) \cup LargeId

Put(f, x, v) == [y \in DOMAIN f \cup {x} |-> IF y = x THEN v ELSE f[y]]
Drop(f, x) == [y \in DOMAIN f \ {x} |-> f[y]]

mp_create == [c \in Class |-> [partial |-> {}, full |-> {}, empty |-> {},
                               empty_slab_count |-> 0]]

Init ==
    /\ slab = [s \in {} |-> 0]
    /\ pool = mp_create
    /\ block = [p \in {} |-> 0]

-----------------------------------------------------------------------------
(***************************************************************************)
(* Taking and returning blocks, on a pair m of slabs and lists, because     *)
(* mp_realloc does both in one call.                                        *)
(***************************************************************************)
get_class_id(n) == CHOOSE c \in Class :
    /\ n <= ClassSize[c]
    /\ \A d \in Class : n <= ClassSize[d] => c <= d

\* add_pool for class c, mapped at s: all blocks free, on the empty list.
add_pool(m, c, s) ==
    [slab |-> Put(m.slab, s, [classid |-> c, free_blocks |-> SlabBlocks[c],
                              free_list |-> 1..SlabBlocks[c]]),
     pool |-> [m.pool EXCEPT ![c].empty = @ \cup {s},
                             ![c].empty_slab_count = @ + 1]]

EmptyToPartial(m, c, s) ==
    [m EXCEPT !.pool[c].empty = @ \ {s},
              !.pool[c].partial = @ \cup {s},
              !.pool[c].empty_slab_count = @ - 1]

\* slab_malloc: the slabs it can return, with the lists as it leaves them.
\* It returns NULL when it has to map a slab and cannot.
slab_malloc(m, c) ==
    IF m.pool[c].partial # {}
    THEN {[m |-> m, s |-> s] : s \in m.pool[c].partial}
    ELSE IF m.pool[c].empty # {}
    THEN {[m |-> EmptyToPartial(m, c, s), s |-> s] : s \in m.pool[c].empty}
    ELSE {[m |-> EmptyToPartial(add_pool(m, c, s), c, s), s |-> s] :
            s \in SlabId \ DOMAIN m.slab}

\* Mutant: free_list is not moved to the next block.
TakeBlockKept(m, c, s, i) ==
    LET n == m.slab[s].free_blocks - 1
    IN  [slab |-> [m.slab EXCEPT ![s].free_blocks = n],
         pool |-> IF n = 0
                  THEN [m.pool EXCEPT ![c].partial = @ \ {s},
                                      ![c].full = @ \cup {s}]
                  ELSE m.pool]

\* Block i of slab s leaves the free list; the last one fills the slab.
TakeBlock(m, c, s, i) ==
    LET n == m.slab[s].free_blocks - 1
        taken == [m.slab EXCEPT ![s].free_list = @ \ {i},
                                ![s].free_blocks = n]
    IN  [slab |-> taken,
         pool |-> IF n = 0
                  THEN [m.pool EXCEPT ![c].partial = @ \ {s},
                                      ![c].full = @ \cup {s}]
                  ELSE m.pool]

slab_block(m, c, header) ==
    UNION { { [m |-> TakeBlock(r.m, c, r.s, i), p |-> <<r.s, i>>,
               header |-> header, size |-> ClassSize[c]] :
                i \in r.m.slab[r.s].free_list } : r \in slab_malloc(m, c) }

large_block(m, n) ==
    { [m |-> m, p |-> p, header |-> "large", size |-> n] :
        p \in LargeId \ DOMAIN block }

\* Mutant: the header is not added to the request.
MallocNoHeader(m, n) ==
    IF ALIGN_UP(n) <= HeaderlessMax
    THEN slab_block(m, get_class_id(ALIGN_UP(n)), "none")
    ELSE IF ALIGN_UP(n) > LargeThreshold
    THEN large_block(m, n)
    ELSE slab_block(m, get_class_id(ALIGN_UP(n)), "block")

\* mp_malloc: the blocks it can return.
mp_malloc(m, n) ==
    LET actual_size == ALIGN_UP(n + HeaderSize)
    IN  IF ALIGN_UP(n) <= HeaderlessMax
        THEN slab_block(m, get_class_id(ALIGN_UP(n)), "none")
        ELSE IF actual_size > LargeThreshold
        THEN large_block(m, n)
        ELSE slab_block(m, get_class_id(actual_size), "block")

\* slab_free with the lists as the first test leaves them.
FreeWith(m, c, s, lists) ==
    IF m.slab[s].free_blocks # SlabBlocks[c]
    THEN [slab |-> m.slab, pool |-> lists]
    ELSE IF lists[c].empty_slab_count >= MaxEmptySlabs
    THEN [slab |-> Drop(m.slab, s),
          pool |-> [lists EXCEPT ![c].partial = @ \ {s}]]
    ELSE [slab |-> m.slab,
          pool |-> [lists EXCEPT ![c].partial = @ \ {s},
                                 ![c].empty = @ \cup {s},
                                 ![c].empty_slab_count = @ + 1]]

FullToPartial(m, c, s) ==
    IF m.slab[s].free_blocks = 1
    THEN [m.pool EXCEPT ![c].full = @ \ {s}, ![c].partial = @ \cup {s}]
    ELSE m.pool

\* Mutant: full slabs stay full.
FreeStaysFull(m, c, s) == FreeWith(m, c, s, m.pool)

\* slab_free, after the block went back to slab s.  The first block freed
\* makes a full slab partial, the last one makes it empty: it is then kept,
\* or unmapped when its class keeps MAX_EMPTY_SLABS already.
slab_free(m, c, s) == FreeWith(m, c, s, FullToPartial(m, c, s))

ReturnBlock(m, s, i) ==
    [m EXCEPT !.slab[s].free_list = @ \cup {i}, !.slab[s].free_blocks = @ + 1]

\* mp_free: a header, or else the slab's address, leads to the slab.
mp_free(m, p) ==
    IF block[p].header = "large" THEN m
    ELSE slab_free(ReturnBlock(m, p[1], p[2]), m.slab[p[1]].classid, p[1])


-----------------------------------------------------------------------------
(***************************************************************************)
(* The calls.  A caller frees, resizes and writes only blocks it holds.     *)
(***************************************************************************)
Mem == [slab |-> slab, pool |-> pool]

NewBlock(r, n, d) == [header |-> r.header, size |-> r.size, asked |-> n, data |-> d]

\* mp_malloc returned the block r.
Malloc(n, r, d) ==
    /\ slab' = r.m.slab
    /\ pool' = r.m.pool
    /\ block' = Put(block, r.p, NewBlock(r, n, d))

Free(p) ==
    /\ slab' = mp_free(Mem, p).slab
    /\ pool' = mp_free(Mem, p).pool
    /\ block' = Drop(block, p)

\* mp_realloc of a block whose recorded size is enough.
ReallocInPlace(p, n) ==
    /\ n <= block[p].size
    /\ block' = [block EXCEPT ![p].asked = n]
    /\ UNCHANGED <<slab, pool>>

\* Mutant: the data are not copied.
ReallocMovesEmpty(p, n, r) ==
    /\ n > block[p].size
    /\ slab' = mp_free(r.m, p).slab
    /\ pool' = mp_free(r.m, p).pool
    /\ \E d \in Data : block' = Put(Drop(block, p), r.p, NewBlock(r, n, d))

\* mp_realloc moving the data to the new block r, then freeing the old one.
ReallocMoves(p, n, r) ==
    /\ n > block[p].size
    /\ slab' = mp_free(r.m, p).slab
    /\ pool' = mp_free(r.m, p).pool
    /\ block' = Put(Drop(block, p), r.p, NewBlock(r, n, block[p].data))

\* mmap or malloc fails, or there is no room: NULL, nothing changes.
Refused(n) ==
    /\ n \in Size
    /\ UNCHANGED vars

\* The holder of a block uses it.
Use(p, d) ==
    /\ block' = [block EXCEPT ![p].data = d]
    /\ UNCHANGED <<slab, pool>>

\* mp_destroy, at the end of the process.
mp_destroy ==
    /\ slab' = [s \in {} |-> 0]
    /\ pool' = mp_create
    /\ block' = [p \in {} |-> 0]

Next ==
    \/ \E n \in Size, d \in Data : \E r \in mp_malloc(Mem, n) : Malloc(n, r, d)
    \/ \E n \in Size : Refused(n)
    \/ \E p \in DOMAIN block : Free(p)
    \/ \E p \in DOMAIN block, n \in Size : ReallocInPlace(p, n)
    \/ \E p \in DOMAIN block, n \in Size :
          \E r \in mp_malloc(Mem, n) : ReallocMoves(p, n, r)
    \/ \E p \in DOMAIN block, d \in Data : Use(p, d)
    \/ mp_destroy

Spec == Init /\ [][Next]_vars

-----------------------------------------------------------------------------
Slab(c) == { s \in DOMAIN slab : slab[s].classid = c }
LiveIn(s) == { p \in DOMAIN block : block[p].header # "large" /\ p[1] = s }

\* Every block of a mapped slab is either free or held by exactly one caller,
\* and nobody holds a block of a slab that was unmapped: slab_malloc,
\* slab_free and mp_realloc together never hand out a block twice, lose one,
\* or unmap memory in use.
BlocksPartitioned ==
    /\ \A s \in DOMAIN slab :
          /\ slab[s].free_list \subseteq 1..SlabBlocks[slab[s].classid]
          /\ slab[s].free_blocks = Cardinality(slab[s].free_list)
          /\ LiveIn(s) = {s} \X (1..SlabBlocks[slab[s].classid] \ slab[s].free_list)
    /\ \A p \in DOMAIN block : block[p].header # "large" => p[1] \in DOMAIN slab

\* The lists of a class hold exactly its mapped slabs, each on the one list
\* its number of free blocks calls for, so slab_malloc never takes a block
\* from a slab that has none and mp_destroy unmaps every slab.  A class keeps at
\* most MAX_EMPTY_SLABS slabs that no caller uses, and empty_slab_count is their
\* number: memory goes back to the system.
ListsTrue ==
    \A c \in Class :
        /\ pool[c].full = { s \in Slab(c) : slab[s].free_blocks = 0 }
        /\ pool[c].empty = { s \in Slab(c) : slab[s].free_blocks = SlabBlocks[c] }
        /\ pool[c].partial = { s \in Slab(c) :
                slab[s].free_blocks \in 1..(SlabBlocks[c] - 1) }
        /\ pool[c].empty_slab_count = Cardinality({ s \in Slab(c) : LiveIn(s) = {} })
        /\ pool[c].empty_slab_count <= MaxEmptySlabs

\* The bytes a caller may use: a header takes its part of the block, except
\* that a large block is requested with its header on top.
Room(b) == IF b.header = "block" THEN b.size - HeaderSize ELSE b.size

\* A block that mp_malloc returns has room for the whole request: ALIGN_UP, the
\* header and get_class_id are enough for every size.  One that mp_realloc
\* resizes in place is never more than a header short: the size recorded in a
\* header counts the header, and mp_realloc compares the request with it.
BlockFits ==
    [][\A p \in DOMAIN block' :
          block'[p].asked <= Room(block'[p]) +
              (IF p \in DOMAIN block /\ block[p].header = "block" THEN HeaderSize ELSE 0)]_vars

\* The pool implements separate blocks that keep their data, also when
\* mp_realloc moves them to another slab or to libc.
Heap == INSTANCE MallocSpec
            WITH heap <- [p \in DOMAIN block |-> block[p].data]
HeapSpec == Heap!Spec
=============================================================================
