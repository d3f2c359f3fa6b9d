SPECIFICATION FairSpec
CONSTANTS
    A = A
    B = B
    C = C
    Nodes = {A, B}
    Height <- NineAndTen
    Top = 10
    MaxBlock = 2
    Converted <- NoneConverted
    AsStored = FALSE
    BlockShapes <- FullBlocks
    TxShapes <- FullTxs
    Casters = {}
    Stoppers = {}
    MaxCasts = 0
    MaxDups = 0
CHECK_DEADLOCK FALSE
PROPERTIES
    CatchesUp
