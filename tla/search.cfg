SPECIFICATION SearchSpec
CONSTANTS
    u = u  v = v  w = w
    Words = {u, v, w}
    Docs <- AllDocs
    Postings <- WhoHas
    Queries <- AllQueries
    Substitutes <- Expansions
    Keywords <- SomeKeywords
    Results = {1, 2, 3, 4, 5}
    PerPage = 2
    MaxPages = 2
    MaxButtons = 1
    Forms <- SomeForms
    Today <- LastOfMarch
    LastDay <- Jan19In2038
    Eternities <- EndOf32Bits
    Letters = {"a", "b"}
    Others = {"-"}
    PatternLists <- ShortPatterns
    Texts <- ShortTexts
    QUOTE_CHAR = "q"
    Internal <- InternalCodes
    Codes <- SomeCodes
    Strings <- SomeStrings
    Locations <- TwoURLs
    OldSets <- AllOld
    Levels = {0, 6}
    Samples <- SomeDocuments
    NoDocument = NoDocument
    References <- SomeReferences
    Parents <- TwoParents
    Documents <- SomePages
    MaxHead = 2
    MaxDescription = 1
    MaxKeywords = 2
    Addresses = {n1, n2, n3}
    Null = Null
    Objects = {o1, o2}
    Nil = Nil
    Positions = {0, 1, 2, 3}
    Mixed = FALSE
INVARIANTS
    MeansWhatItSays EveryMatchShown RangeAsAsked FindsWhatIsThere
    DecodesBack ListsAll LeadsThere SameURLAgain HiddenNotIndexed LinksOnce
PROPERTIES StoreIsMap ListIsSequence
CHECK_DEADLOCK FALSE
