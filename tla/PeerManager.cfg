SPECIFICATION FairSpec
CONSTANTS
    A = A
    B = B
    C = C
    D = D
    IDs = {A, B, C, D}
    max_peers = 3
    bootstrap_nodes <- TwoNodesOneTwice
    MaxCreated = 4
CHECK_DEADLOCK FALSE
INVARIANTS
    TypeOK NoDuplicatePeers BookMatchesPeers HalfAreStopped
PROPERTIES
    ImplementsConnections StopReturns
