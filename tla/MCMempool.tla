----------------------------- MODULE MCMempool -----------------------------
(***************************************************************************)
(* Two classes of the real tables on either side of ALIGNMENT_THRESHOLD,    *)
(* with two blocks to a slab; requests that meet each threshold.            *)
(***************************************************************************)
EXTENDS Mempool, TLC

CONSTANT MaxLive        \* blocks held at once

MCClass == 1..2
MCClassSize == <<128, 160>>
MCSlabBlocks == <<2, 2>>
MCSize == {128, 129, 137, 160}

\* Data are interchangeable, and so are places to map to.
MCSymmetry == Permutations(SlabId) \cup Permutations(LargeId)
                  \cup Permutations(Data)

LiveBound == Cardinality(DOMAIN block) <= MaxLive
=============================================================================
