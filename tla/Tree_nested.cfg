\* A mirror of the whole tree that excludes b/, and a job with its destination in b.
SPECIFICATION FairSpec
CONSTANTS
    Jobs <- TwoJobs
    Paths <- FourPaths
    Base <- Bases
    Exclude <- Rules
    Mirror <- Both
    Symlinks <- Both
    Trees <- Published
    Starts <- Disks
    MaxEdits = 1
    MaxFaults = 1
    MaxCrashes = 1
    None = None
    File = File
    Other = Other
    Link = Link
    Alias = Alias
    Dir = Dir
    Nowhere = Nowhere
    DoubleStar = DoubleStar
    whole = whole
    part = part
    b = b
    x = x
    y = y
INVARIANT
    TreeInv
PROPERTIES
    DeletionsJustified
    OkMeansInstalled
    EventuallyInShape
