SPECIFICATION FairSpec
CHECK_DEADLOCK FALSE
CONSTANTS
    cron = cron
    shell = shell
    Sessions <- BothSessions
    Runs <- TwoAndOneRuns
    IpList <- NoIps
    PacketDst <- BothAndOne
    Packets <- TwoPacketsAndOne
    Addresses = {"a", "b"}
    MaxPresses = 2
    MaxRuns = 2
INVARIANTS
    RecordsAreOnDisk
    TrendTellsOwnRuns
PROPERTIES
    CapturesSurvive
    SessionEnds
