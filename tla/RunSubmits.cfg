SPECIFICATION FairSpec

CONSTANTS
    Answers = {a1, a2}
    Cancels = {c1}
    Retries = {}
    Creator = creator
    NoTask = none
    EarlyAnswers = TRUE
    Slow = {a1}
    MaxNodes = 2
    MaxFaults = 0
    MaxCrashes = 0

CHECK_DEADLOCK FALSE

INVARIANTS
    RunInv

PROPERTIES
    Settles
    CancelSettles
