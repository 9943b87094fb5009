SPECIFICATION Spec
CONSTANTS
    Captures <- AllCaptures
    CgnatAddresses = {"c"}
INVARIANTS
    WalksFollowTheRows
    OrderlyIsDrawn
    ForgeryNeverWearsDestination
    NatIsTheFirstRewrite
    IpIdIsTheResponders
    TierIsWhatFollows
    MarkedHopsAreShared
