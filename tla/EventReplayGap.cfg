SPECIFICATION Spec

CONSTANTS
    Publishers = {p1}
    ListCap = 3
    MaxRetries = 1
    MaxEvents = 2
    MaxFailures = 0
    MaxDrops = 0
    MaxRefusals = 0
    MaxRestarts = 0

CHECK_DEADLOCK FALSE

INVARIANTS
    ReplayNoGaps
