SPECIFICATION FairSpec
CHECK_DEADLOCK FALSE
CONSTANTS
    cron = cron
    shell = shell
    Sessions <- BothSessions
    Runs <- TwoAndOneRuns
    IpList <- NoIps
    PacketDst <- BothAndOne
    Packets <- TwoPacketsAndOne
    Addresses = {"a", "b"}
    MaxPresses = 0
    MaxRuns = 2
INVARIANTS
    EveryRunSameDestinations
