CONSTANTS
    HeadSize = 32
    TailSize = 8
    Align = 8
    Start = 1000
    PoolSize = 350
    Sizes = {1, 60}
SPECIFICATION KmallocFairSpec
INVARIANTS ChainIntact CallersHaveBlocks FullyMerged
 
