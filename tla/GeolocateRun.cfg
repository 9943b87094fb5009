SPECIFICATION FairSpec
CHECK_DEADLOCK FALSE
CONSTANTS
    Providers = 3
    Modes = {"auto", "open", "shutdown"}
    MaxStart = 1
    ParentWait = 10
    JoinTimeout = 8
    MetaTimeout = 2
    DnsTimeout = 3
    Overruns = {TRUE, FALSE}
INVARIANTS
    OnlineIsProved
    OfflineIsClassified
    StateFollowsEvidence
PROPERTIES
    Terminates
