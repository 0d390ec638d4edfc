SPECIFICATION FairDigSpec
CONSTANTS
    a = a  b = b  c = c  d = d  e = e  f = f  g = g  S = S  T = T
    NoDoc = NoDoc  NoCur = NoCur
    URLs <- Four
    Servers = {S, T}
    ServerOf <- TwoServers
    StartURLs = {a}
    Limits <- Four
    Disallowed = {c}
    MaxHops = 2
    MaxDocs = 1
    MarkDead = TRUE
    Web0 <- Fan
    Edits <- Turns
    Flaky = {S}
    GrowAt = {1}
    InitialFlags = {FALSE}
    UsesHtdump = FALSE
    MaxRuns = 2
    MaxCrashes = 1
INVARIANTS NoSecondVisit
PROPERTIES RunsEnd OneCrawl
CHECK_DEADLOCK FALSE
