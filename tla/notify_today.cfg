SPECIFICATION PartsSpec
CONSTANTS
    a = a  b = b
    k1 = k1  k2 = k2  k3 = k3  k4 = k4  k5 = k5
    Timeout = 2
    MaxDoc = 3
    BufSize = 2
    RetryValue = 2
    MaxSilence = 3
    Answers <- TypicalAnswers
    WaitTime = 3
    MaxTime = 15
    Paths = {"p", "q"}
    Files <- AllFiles
    Keys <- FiveKeys
    Hash <- Hashes
    Capacity = 2
    LoadFactor = 1
    NoEntry = NoEntry
    MaxLength = 5
    Locations = {x, y, z}
    NoID = NoID
    MaxID = 4
    Vocabulary = {1, 2}
    Inputs <- ShortLists
    Junk <- AnyRecord
    NoDoc = NoDoc
    URLs <- Pages
    RemoveBadValues = {TRUE}
    Jobs <- WholeJob
    OwnStates <- Own
    OtherStates <- Theirs
    MaxTries = 2
    MaxKills = 1
    Noted = {1, 2}
    Emails = {"author", "webmaster"}
    Requests <- SomeRequests
    Now <- Today
INVARIANTS ToldOnTheDay
CHECK_DEADLOCK FALSE
