\* One death and two contenders for the lock it leaves.
SPECIFICATION Spec
CONSTANTS
    d1 = d1
    d2 = d2
    m1 = m1
    Procs <- MCProcs
    Daemons <- MCDaemons
    Free = Free
    Orphan = Orphan
    Stale = 2
    BeatEvery = 1
    Late = 2
    MaxCrashes = 1
INVARIANT
    MutualExclusion
