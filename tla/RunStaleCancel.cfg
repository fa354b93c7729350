SPECIFICATION Spec

CONSTANTS
    Answers = {a1}
    Cancels = {c1}
    Retries = {}
    Creator = creator
    NoTask = none
    EarlyAnswers = FALSE
    Slow = {}
    MaxNodes = 1
    MaxFaults = 0
    MaxCrashes = 0

CHECK_DEADLOCK FALSE

PROPERTIES
    DocumentedSteps
