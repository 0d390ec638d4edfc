SPECIFICATION DigSpec
CONSTANTS
    a = a  b = b  c = c  d = d  e = e  f = f  g = g  S = S  T = T
    NoDoc = NoDoc  NoCur = NoCur
    URLs <- Four
    Servers = {S}
    ServerOf <- OneServer
    StartURLs = {a, b}
    Limits <- Four
    Disallowed = {}
    MaxHops = 2
    MaxDocs <- NoLimit
    MarkDead = TRUE
    Web0 <- Pairs
    Edits = {}
    Flaky = {}
    GrowAt = {}
    InitialFlags = {FALSE}
    UsesHtdump = FALSE
    MaxRuns = 2
    MaxCrashes = 0
INVARIANTS EndsComplete
CHECK_DEADLOCK FALSE
