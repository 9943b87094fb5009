SPECIFICATION Spec
CHECK_DEADLOCK FALSE
CONSTANTS
    d1 = d1
    d2 = d2
    r1 = r1
    self = self
    Destinations <- TwoAndSelf
    Packets = 1
    MaxTtl = 4
    Repeats = 2
    Continue = FALSE
    Paris = FALSE
    SourceIp = self
    Routers = {d1}
    CgnatAddrs = {}
    RstCounts = {0}
    Forgeries = {FALSE}
    NetworkState = "open"
    Proto <- TcpOnly
    Dport <- Port443
    MaxInterrupts = 0
INVARIANTS
    TypeOK
    RepeatsAligned
    StopsAtDestination
    PaddingIsEarned
    FirstHopIsWidest
PROPERTIES
    TraceroutePromise
