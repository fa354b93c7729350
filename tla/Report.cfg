SPECIFICATION FairSpec

CONSTANTS
    a = a
    b = b
    c = c
    h1 = h1
    h2 = h2
    d1 = d1
    t1 = t1
    t2 = t2
    Web = {h1, h2}
    Docs = {d1}
    Srcs = {a, b, c}
    SrcId <- Digest
    Calls = {t1, t2}
    K <- TopK
    Drafts <- Written
    None = none
    Claimed = claimed
    MaxFailures = 1

CHECK_DEADLOCK FALSE

INVARIANTS
    ReportInv
    CitesKnown
    ShownKept

PROPERTIES
    Reported
