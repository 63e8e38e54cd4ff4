\* Versions of one or three blocks, rewritten in place; three attempts; with and
\* without a digest; a network that answers or fails within finite time.
SPECIFICATION FairSpec
CONSTANTS
    MaxVersion = 2
    Lengths = {1, 3}
    Attempts = 3
    InPlace = TRUE
    MaxCrashes = 1
    NoDigest = NoDigest
INVARIANTS
    RetriesAbsorbFaults
    TransferInv
PROPERTIES
    InstallsWhatWasPlanned
    TornNeedsChange
    DownloadEnds
