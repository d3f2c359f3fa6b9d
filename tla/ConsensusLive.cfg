SPECIFICATION FairSpec
CONSTANTS
    P = P
    V1 = V1
    V2 = V2
    V3 = V3
    B = B
    Nodes = {P, V1, V2}
    Proposers = {P}
    Blocks = {B}
    threshold = 2
    MaxPublish = 2
    MaxAsk = 1
    MaxLost = 1
CHECK_DEADLOCK FALSE
PROPERTIES
    PublishedIsSealed
