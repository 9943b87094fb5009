SPECIFICATION FairSpec
CHECK_DEADLOCK FALSE
CONSTANTS
    Wanted <- EitherAnswer
    OperatorRules = {0, 1}
    Modes <- AllModes
    MaxSyn = 2
    Repeats = 1
    MaxTtl = 2
    IdLimit = 4
INVARIANTS
    TypeOK
    ChainIsRestored
    DataMeetsConnection
    VerdictIsOwn
    RstsCountedOnce
    OperatorsRuleProtects
PROPERTIES
    Terminates
