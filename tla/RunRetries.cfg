SPECIFICATION Spec

CONSTANTS
    Answers = {a1}
    Cancels = {}
    Retries = {r1, r2}
    Creator = creator
    NoTask = none
    EarlyAnswers = FALSE
    Slow = {}
    MaxNodes = 2
    MaxFaults = 1
    MaxCrashes = 2

CHECK_DEADLOCK FALSE
SYMMETRY Symmetry

INVARIANTS
    SingleDriver
    NoOrphan
    FeedAgrees

PROPERTIES
    RowSpec
    DocumentedSteps
