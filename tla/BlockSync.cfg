SPECIFICATION Spec
CONSTANTS
    A = A
    B = B
    C = C
    Nodes = {A, B, C}
    Height <- AllDiffer
    Top = 4
    MaxBlock = 2
    Converted <- OneOfC
    AsStored = TRUE
    BlockShapes <- AnyBlocks
    TxShapes <- ReadmeTxs
    Casters = {C}
    Stoppers = {}
    MaxCasts = 1
    MaxDups = 0
CHECK_DEADLOCK FALSE
INVARIANTS
    TypeOK NumberIsBacked
