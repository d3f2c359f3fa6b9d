SPECIFICATION Spec
CONSTANTS
    NumWorkers = 1
    Arrivals = {"confirm", "ping", "data", "noqueue", "nomethod", "garbled"}
    MaxArrivals = 2
    MaxPackets = 1
    Silence = FALSE
CHECK_DEADLOCK FALSE
INVARIANTS
    TypeOK SessionAddressed DeliveredInOrder NoSilentLoss
    StopIsBounded StopLeavesNobody
PROPERTIES
    RemovedIsSilent ImplementsPeerLife
