SPECIFICATION FairSpec
CONSTANTS
    A = A
    B = B
    C = C
    Nodes = {A, B}
    Height <- OneBehind
    Top = 6
    MaxBlock = 2
    Converted <- NoneConverted
    AsStored = TRUE
    BlockShapes <- AnyBlocks
    TxShapes <- AnyTxs
    Casters = {A, B}
    Stoppers = {A, B}
    MaxCasts = 2
    MaxDups = 1
CHECK_DEADLOCK FALSE
INVARIANTS
    ChunksComplete QuietIsCaughtUp
PROPERTIES
    CatchesUp NumberNeverBack EndsForCause BroadcastsEnd
