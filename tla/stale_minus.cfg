SPECIFICATION PipelineSpec
CONSTANTS
    a = a  b = b  c = c  S = S
    NoDoc = NoDoc  NoCur = NoCur
    URLs <- Pages
    Servers = {S}
    ServerOf <- OnS
    StartURLs = {a}
    Limits <- Pages
    Disallowed = {}
    MaxHops = 2
    MaxDocs <- NoLimit
    MarkDead = TRUE
    Web0 <- Star
    Edits <- ComesBack
    Flaky = {}
    GrowAt = {}
    InitialFlags = {FALSE}
    UsesHtdump = FALSE
    MaxRuns = 3
    MaxCrashes = 0
    RemoveBadValues = {TRUE}
    Jobs <- Full
    MaxMerges = 2
    MaxMergeCrashes = 0
    DigsPerMerge = 2
INVARIANTS AnswerKept
CHECK_DEADLOCK FALSE
