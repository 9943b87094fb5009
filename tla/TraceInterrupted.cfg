SPECIFICATION FairSpec
CHECK_DEADLOCK FALSE
CONSTANTS
    d1 = d1
    d2 = d2
    r1 = r1
    self = self
    Destinations <- OneDestination
    Packets = 2
    MaxTtl = 1
    Repeats = 2
    Continue = TRUE
    Paris = TRUE
    SourceIp = self
    Routers = {r1}
    CgnatAddrs = {r1}
    RstCounts = {0, 3}
    Forgeries = {TRUE, FALSE}
    NetworkState = "open"
    Proto <- TcpAndUdp
    Dport <- Ports443and53
    MaxInterrupts = 2
INVARIANTS
    PostureMatchesHops
    NothingLostSilently
PROPERTIES
    InterruptSaves
    Terminates
