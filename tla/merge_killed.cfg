SPECIFICATION PipelineSpec
CONSTANTS
    a = a  b = b  c = c  S = S
    NoDoc = NoDoc  NoCur = NoCur
    URLs <- Couple
    Servers = {S}
    ServerOf <- OnS
    StartURLs = {a}
    Limits <- Couple
    Disallowed = {}
    MaxHops = 2
    MaxDocs <- NoLimit
    MarkDead = TRUE
    Web0 <- Path
    Edits <- Rewritten
    Flaky = {}
    GrowAt = {}
    InitialFlags = {FALSE}
    UsesHtdump = FALSE
    MaxRuns = 2
    MaxCrashes = 0
    RemoveBadValues = {TRUE, FALSE}
    Jobs <- AllJobs
    MaxMerges = 3
    MaxMergeCrashes = 1
    DigsPerMerge = 2
INVARIANTS IndexSound NoStaleWords NoindexUnlisted
CHECK_DEADLOCK FALSE
