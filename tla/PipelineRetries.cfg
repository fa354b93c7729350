SPECIFICATION FairSpec

CONSTANTS
    N = 2
    Workers = {w1, w2}
    MaxRetries <- Retries
    MaxDrives = 3

CHECK_DEADLOCK FALSE

INVARIANTS
    PipelineInv
    CompleteUnlessTorn
    FullScopeUnlessNamed

PROPERTIES
    RedoScoped
    Ends
