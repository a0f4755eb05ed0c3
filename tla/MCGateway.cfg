CONSTANTS
    Configs <- mcConfigs
    Asks <- Ask
    FirstFile <- mcFile
    Typed <- mcTyped
    Written <- mcWritten
    Environments <- mcEnvironments
    MaxEdits = 2
    MaxSeconds = 1
    Conversations <- mcConversations
    Responses <- mcResponses
    Keys <- mcKeys
    Models <- mcModels
    AttributedRequests <- mcAttributed
    BufferedResponses <- mcAnswers
    Aliases <- mcAliases
    LongKeys = {9}
    MaxKeys = 2
    Posts <- mcPosts
    Fleets <- mcFleets
    t1 = t1
    t2 = t2
    r1 = r1
    r2 = r2
    r3 = r3
    GRAIN = 3
    TICKS = 2
    Threads <- mcThreads
    RL <- mcLimit
    MaxTime = 6
    Requests <- mcThreeRequests
    BudgetCfg <- mcBudget
    MaxCost = 2
    LastTime = 4
    KeyLists <- mcLists
    Charges = {2}
    MaxReloads = 1
    LastRead = 2
    c1 = c1
    c2 = c2
    Clients <- mcClients
    MaxSessions = 3
    MaxRestarts = 1
    MaxLost = 1
    TokenWords <- mcTokenWords
    Predictions <- mcPredictions
    WINDOW_TOKENS = 4
    STRIDE_OVERLAP = 2
    TraceRoom = 1
    MaxServed = 3
SPECIFICATION GatewaySpec
CHECK_DEADLOCK FALSE
INVARIANTS
    NoEntityInClear
    FallbackInOrder
    BlockedTextStops
    ReportedSpendCharged
    AccountedOnce
    StartsAgain
    SavesAsShown
    DocumentsKept
    ConversationKept
    StreamTold
    RoutingKept
    ShapeKept
    ToolsListedServed
    AdmissionEnvelope
    RetryAfterSuffices
    OvershootBound
    PagesTellTheTruth
    ExecutedOnce
    UndisturbedSucceeds
    SpansWhole
    StopTellsAll
