SPECIFICATION FairSpec
CONSTANTS
    A = A
    B = B
    Nodes = {A, B}
    Bootstraps = {A, B}
    MaxStarts <- Restarts
    MaxData = 1
    MaxFaults = 2
CHECK_DEADLOCK FALSE
INVARIANTS
    TypeOK TwoDialersNeverOpen
PROPERTIES
    OpenStays NoHalfOpen HandshakeCompletes HandshakeHolds
