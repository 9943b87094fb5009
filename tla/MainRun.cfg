SPECIFICATION FairSpec
CHECK_DEADLOCK FALSE
CONSTANTS
    Delays <- FourDelays
    SegmentCount = 4
    PayloadLength = 6
    Holds = {5, 50, 1000}
    Requests = 3
    Times = {1, 4}
    Gap = 2
    LookBack = 2
    OutageSets <- Histories
    PathLength = 2
    Commands <- SomeCommands
INVARIANTS
    VerdictIsTrue
    BufferHasExpired
    JudgedTruly
    ArmVerdictFitsPath
    ExitTellsTheGraph
PROPERTIES
    MainEnds
