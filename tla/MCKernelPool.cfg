SPECIFICATION FairSpec
CONSTANTS
    Blk <- MCBlk
    Chunks <- MCChunks
    ThreadCounts <- MCThreadCounts
    Blank = Blank
INVARIANTS
    ResultIsWhole
    NeverRaises
    RaceFree
    PoolInv
PROPERTIES
    Returns
CHECK_DEADLOCK TRUE
