\* Two files, one transfer slot, two workers, one more client; one change of the tree
\* and one failure at any point.  A run of the client ends, so the system may stop.
SPECIFICATION FairSpec
CONSTANTS
    f1 = f1
    f2 = f2
    Requests <- AllRequests
    Order <- MCOrder
    Contents <- MCContents
    Fresh <- MCFresh
    InPlace = TRUE
    Ttl = TRUE
    MaxConcurrent = 1
    Workers = 2
    Attempts = 2
    Rivals = {r1}
    Buffer = 1
    MaxEdits = 1
    MaxFaults = 1
    ArchiveReq = ArchiveReq
    NoFile = NoFile
INVARIANTS
    SlotsExact
    InstalledAsPlanned
    ArchiveInv
    NothingForgotten
    QuietArchiveIsWhole
PROPERTIES
    RunEnds
    SlotsReturn
CHECK_DEADLOCK FALSE
