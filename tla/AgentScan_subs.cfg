\* Two sub paths with a file of the same relative name.
SPECIFICATION Spec
CONSTANTS
    s1 = s1
    s2 = s2
    f1 = f1
    f2 = f2
    NoSum = NoSum
    Torn = Torn
    None = None
    Subs <- TwoSubs
    Modes = {"always"}
    Names <- OneName
    Sizes = {1}
    HashMax = 1
    UseCache = TRUE
    Grace = 1
    MaxEntries = 1
    Stamps = "fresh"
    Flaky <- NoNames
    MaxChanges = 1
    MaxClock = 2
PROPERTY
    StableDigestExact
