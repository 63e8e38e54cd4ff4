\* Two requests in two hash modes, manifest_ttl of one tick, clients that hang up,
\* an agent that cannot always read its tree.
SPECIFICATION FairServerSpec
CONSTANTS
    s1 = s1
    f1 = f1
    r1 = r1
    r2 = r2
    NoSum = NoSum
    Torn = Torn
    None = None
    Subs <- OneSub
    Modes = {"always", "never"}
    Names <- OneName
    Sizes = {1}
    HashMax = 1
    UseCache = FALSE
    Grace = 1
    MaxEntries = 2
    Stamps = "coarse"
    Flaky <- OneName
    MaxChanges = 1
    MaxClock = 1
    Reqs <- TwoReqs
    TTL = 1
    HangUps = TRUE
PROPERTIES
    ServerInv
    ReplyIsRecent
    NeverGoesBack
    EveryRequestAnswered
