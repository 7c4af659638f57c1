SPECIFICATION Spec
CONSTANTS
    Class <- MCClass
    ClassSize <- MCClassSize
    SlabBlocks <- MCSlabBlocks
    Size <- MCSize
    HeaderSize = 24
    HeaderlessMax = 128
    LargeThreshold = 160
    AlignSize = 8
    MaxEmptySlabs = 1
    SlabId = {s1, s2, s3}
    LargeId = {l1, l2}
    Data = {d1, d2}
    MaxLive = 4
SYMMETRY MCSymmetry
CONSTRAINT LiveBound
INVARIANTS BlocksPartitioned ListsTrue
PROPERTIES BlockFits 
