\* Two files, three contents of which one is larger than sync.max_file_size_mb, a
\* digest in every entry, two workers; one change at each end and one death.
SPECIFICATION Spec
CONSTANTS
    Files <- TwoFiles
    Contents <- ThreeContents
    SizeOf <- Sizes
    MaxSize = 1
    Verify = "sha256"
    Digests = "all"
    KeepMTime = TRUE
    DeleteExtra = TRUE
    StopOnError = FALSE
    Workers = 2
    Bulk = FALSE
    Flaky <- OneFile
    MaxCancels = 1
    EditsInRun = FALSE
    AgentGaps = {1, 2}
    LocalGaps = {2}
    MaxAgentEdits = 1
    MaxLocalEdits = 1
    MaxCrashes = 1
    None = None
    NoSum = NoSum
    Torn = Torn
    f1 = f1
    f2 = f2
    c1 = c1
    c2 = c2
    c3 = c3
INVARIANTS
    SyncInv
PROPERTIES
    DeletesOnlyUnpublished
    OkMeansComplete
