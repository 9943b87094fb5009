SPECIFICATION Spec
CHECK_DEADLOCK FALSE
CONSTANTS
    Pool <- ThreePorts
    PacketPorts <- Packets443and80
    DstPort = NoPort
    NoPort = NoPort
    Threshold = 3
    CoolingOff = 2
    RstCounts = {0, 1, 4}
INVARIANTS
    WholePoolBeforeBurned
PROPERTIES
    RotatesToClean
