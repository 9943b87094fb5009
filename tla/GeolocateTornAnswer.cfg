SPECIFICATION Spec
CHECK_DEADLOCK FALSE
CONSTANTS
    Providers = 3
    Modes = {"auto"}
    MaxStart = 1
    ParentWait = 10
    JoinTimeout = 8
    MetaTimeout = 2
    DnsTimeout = 3
    Overruns = {FALSE}
INVARIANTS
    OnlineIsClassified
