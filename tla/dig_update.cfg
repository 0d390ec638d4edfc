SPECIFICATION DigSpec
CONSTANTS
    a = a  b = b  c = c  d = d  e = e  f = f  g = g  S = S  T = T
    NoDoc = NoDoc  NoCur = NoCur
    URLs <- Three
    Servers = {S, T}
    ServerOf <- TwoServers
    StartURLs = {a}
    Limits <- Three
    Disallowed = {}
    MaxHops = 2
    MaxDocs <- NoLimit
    MarkDead = TRUE
    Web0 <- Small
    Edits <- Changes
    Flaky = {T}
    GrowAt = {}
    InitialFlags = {TRUE, FALSE}
    UsesHtdump = TRUE
    MaxRuns = 2
    MaxCrashes = 0
INVARIANTS UniqueIDs OneContentPerID DescriptionsFiled
CHECK_DEADLOCK FALSE
