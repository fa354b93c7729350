SPECIFICATION FairSpec

CONSTANTS
    Workers = {w1, w2}
    Sources = {s1}
    Concurrency = 2
    MaxIterations = 1
    MaxDrives = 2
    MaxFailures = 1
    MaxCancels = 1

CHECK_DEADLOCK FALSE

INVARIANTS
    FanoutInv
    UsageExact
    EvidenceKept
    WholeStage

PROPERTIES
    StageEnds
