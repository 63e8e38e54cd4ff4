\* Two files that are rewritten, every write with a later stamp; the tree is one entry
\* too large for a manifest that lists both.
SPECIFICATION Spec
CONSTANTS
    s1 = s1
    s2 = s2
    f1 = f1
    f2 = f2
    NoSum = NoSum
    Torn = Torn
    None = None
    Subs <- OneSub
    Modes = {"always", "auto", "never"}
    Names <- TwoNames
    Sizes = {1, 2}
    HashMax = 1
    UseCache = TRUE
    Grace = 1
    MaxEntries = 1
    Stamps = "fresh"
    Flaky <- OneName
    MaxChanges = 1
    MaxClock = 2
INVARIANTS
    ScanInv
    DigestHonest
PROPERTY
    StableDigestExact
