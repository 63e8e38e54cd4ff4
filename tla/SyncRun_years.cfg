\* One file, contents of one size; changes at both ends at least two seconds apart,
\* digests now and then, a bulk stream or file by file, cancelled runs, a death.
SPECIFICATION FairSpec
CONSTANTS
    Files <- OneFile
    Contents <- TwoContents
    SizeOf <- Sizes
    MaxSize = 1
    Verify = "sha256"
    Digests = "some"
    KeepMTime = TRUE
    DeleteExtra = TRUE
    StopOnError = TRUE
    Workers = 1
    Bulk = TRUE
    Flaky <- NoFiles
    MaxCancels = 1
    EditsInRun = TRUE
    AgentGaps = {2}
    LocalGaps = {2}
    MaxAgentEdits = 2
    MaxLocalEdits = 1
    MaxCrashes = 1
    None = None
    NoSum = NoSum
    Torn = Torn
    f1 = f1
    f2 = f2
    c1 = c1
    c2 = c2
    c3 = c3
INVARIANT
    NoRedundantTransfer
PROPERTY
    EventuallyMirrored
