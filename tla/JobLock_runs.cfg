\* Two daemons and a manual run, two deaths, heartbeats as late as staleAfter allows.
SPECIFICATION FairSpec
CONSTANTS
    d1 = d1
    d2 = d2
    m1 = m1
    Procs <- MCProcs
    Daemons <- MCDaemons
    Free = Free
    Orphan = Orphan
    Stale = 2
    BeatEvery = 1
    Late = 2
    MaxCrashes = 2
INVARIANTS
    ExclusiveUntilDeath
    LockInv
PROPERTIES
    TakeoverOnlyOfOrphans
    ImplementsMutex
    OrphanReclaimed
    JobKeepsRunning
