SPECIFICATION Spec
CHECK_DEADLOCK FALSE
CONSTANTS
    Delays <- FourDelays
    SegmentCount = 4
    PayloadLength = 6
    Holds = {5}
    Requests = 2
    Times = {1, 3}
    Gap = 2
    LookBack = 2
    OutageSets <- Histories
    PathLength = 2
    Commands <- JustVps
INVARIANTS
    FailureKeepsCapture
