SPECIFICATION FairSpec
CONSTANTS
    NumWorkers = 1
    Arrivals = {"pong"}
    MaxArrivals = 1
    MaxPackets = 1
    Silence = TRUE
CHECK_DEADLOCK FALSE
INVARIANTS
    FarewellNeverSent
PROPERTIES
    SilentPeerDropped PacketsLeave
