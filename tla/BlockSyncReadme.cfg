SPECIFICATION Spec
CONSTANTS
    A = A
    B = B
    C = C
    Nodes = {A, B}
    Height <- Same
    Top = 1
    MaxBlock = 2
    Converted <- NoneConverted
    AsStored = FALSE
    BlockShapes <- FullBlocks
    TxShapes <- ReadmeTxs
    Casters = {A, B}
    Stoppers = {A, B}
    MaxCasts = 1
    MaxDups = 0
CHECK_DEADLOCK FALSE
PROPERTIES
    TransactionTaken
