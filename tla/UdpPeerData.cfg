SPECIFICATION FairSpec
CONSTANTS
    NumWorkers = 1
    Arrivals = {"data", "noqueue", "garbled"}
    MaxArrivals = 2
    MaxPackets = 0
    Silence = FALSE
CHECK_DEADLOCK FALSE
PROPERTIES
    StopCompletes DataDelivered
