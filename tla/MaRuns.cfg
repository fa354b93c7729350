SPECIFICATION StubSpec

CONSTANTS
    Answers = {}
    Cancels = {c1, c2}
    Retries = {}
    Creator = creator
    NoTask = none
    EarlyAnswers = FALSE
    Slow = {}
    MaxNodes = 1
    MaxFaults = 2
    MaxCrashes = 1

CHECK_DEADLOCK FALSE

INVARIANTS
    StubInv
    StubTold
