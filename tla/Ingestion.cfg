SPECIFICATION FairSpec

CONSTANTS
    d1 = d1
    d2 = d2
    Docs = {d1, d2}
    Blank <- Empty
    MaxFaults = 1
    MaxStops = 1

CHECK_DEADLOCK FALSE

INVARIANTS
    DocumentsInv
    PageAgrees

PROPERTIES
    StatusMoves
    Settles
