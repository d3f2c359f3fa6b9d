SPECIFICATION Spec
CONSTANTS
    A = A
    B = B
    C = C
    D = D
    IDs = {A, B, C}
    max_peers = 2
    bootstrap_nodes <- TwoNodesOneTwice
    MaxCreated = 3
CHECK_DEADLOCK FALSE
INVARIANTS
    StopStopsPeers
