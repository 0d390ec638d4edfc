SPECIFICATION PipelineSpec
CONSTANTS
    a = a  b = b  c = c  S = S
    NoDoc = NoDoc  NoCur = NoCur
    URLs <- Pages
    Servers = {S}
    ServerOf <- OnS
    StartURLs = {a}
    Limits <- Pages
    Disallowed = {}
    MaxHops = 2
    MaxDocs <- NoLimit
    MarkDead = TRUE
    Web0 <- Star
    Edits <- Turnover
    Flaky = {S}
    GrowAt = {}
    InitialFlags = {FALSE}
    UsesHtdump = FALSE
    MaxRuns = 2
    MaxCrashes = 0
    RemoveBadValues = {TRUE, FALSE}
    Jobs <- Full
    MaxMerges = 2
    MaxMergeCrashes = 0
    DigsPerMerge = 1
INVARIANTS IndexesAgree AnswerKept
CHECK_DEADLOCK FALSE
