SPECIFICATION Spec
CHECK_DEADLOCK FALSE
CONSTANTS
    Wanted = {TRUE}
    OperatorRules = {0}
    Modes = {"handshake"}
    MaxSyn = 2
    Repeats = 1
    MaxTtl = 2
    IdLimit = 4
INVARIANTS
    AddedRuleProtects
