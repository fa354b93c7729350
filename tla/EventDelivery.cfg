SPECIFICATION FairSpec

CONSTANTS
    Publishers = {p1}
    ListCap = 2
    MaxRetries = 2
    MaxEvents = 3
    MaxFailures = 1
    MaxDrops = 2
    MaxRefusals = 1
    MaxRestarts = 1

CHECK_DEADLOCK FALSE

INVARIANTS
    FeedInv
    Accounted

PROPERTIES
    FeedSpec
    Delivered
