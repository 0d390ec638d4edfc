SPECIFICATION DigSpec
CONSTANTS
    a = a  b = b  c = c  d = d  e = e  f = f  g = g  S = S  T = T
    NoDoc = NoDoc  NoCur = NoCur
    URLs <- Seven
    Servers = {S, T}
    ServerOf <- ThreeOnS
    StartURLs = {a, b, c, d}
    Limits <- Seven
    Disallowed = {}
    MaxHops = 2
    MaxDocs <- NoLimit
    MarkDead = TRUE
    Web0 <- Shortcut
    Edits = {}
    Flaky = {}
    GrowAt = {}
    InitialFlags = {FALSE}
    UsesHtdump = FALSE
    MaxRuns = 1
    MaxCrashes = 0
INVARIANTS EndsComplete
CHECK_DEADLOCK FALSE
