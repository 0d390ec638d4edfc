SPECIFICATION DigSpec
CONSTANTS
    a = a  b = b  c = c  d = d  e = e  f = f  g = g  S = S  T = T
    NoDoc = NoDoc  NoCur = NoCur
    URLs <- Seven
    Servers = {S}
    ServerOf <- OneServer
    StartURLs = {a, b}
    Limits <- Seven
    Disallowed = {}
    MaxHops = 2
    MaxDocs <- NoLimit
    MarkDead = TRUE
    Web0 <- Ladder
    Edits = {}
    Flaky = {}
    GrowAt = {}
    InitialFlags = {FALSE}
    UsesHtdump = FALSE
    MaxRuns = 2
    MaxCrashes = 0
INVARIANTS DigTypeOK NothingForgotten ReachesExactly HopsAreClicks
CHECK_DEADLOCK FALSE
