SPECIFICATION Spec

CONSTANTS
    s = s
    w1 = w1
    w2 = w2
    f = f
    report = report
    audit = audit
    framer = framer
    questionnaire = questionnaire
    synthesis = synthesis
    Stages = {s}
    Slugs = {w1, w2}
    Crew <- Workers
    Segments = {s, w1, w2, f, report, audit, framer, questionnaire, up, blank}
    PathInputs <- Given
    Up = up
    Blank = blank
    Report <- ReportPath
    Audit <- AuditPath
    Questionnaire <- QuestionnairePath
    Author <- Authors
    None = none
    Error = error
    MaxArtifacts = 2
    MaxPasses = 2
    MaxFaults = 1
    MaxEvidence = 1
    MaxFetches = 2

CHECK_DEADLOCK FALSE

INVARIANTS
    ArtifactsInv
    MemAgrees
    PageCurrent
