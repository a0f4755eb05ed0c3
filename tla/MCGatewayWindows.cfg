CONSTANTS
    Configs <- mcConfigs
    Asks = {}
    FirstFile <- mcFile
    Typed <- mcTyped
    Written <- mcWritten
    Environments <- mcEnvironments
    MaxEdits = 0
    MaxSeconds = 0
    Conversations = {}
    Responses = {}
    Keys = {}
    Models <- mcModels
    AttributedRequests = {}
    BufferedResponses = {}
    Aliases <- mcAliases
    LongKeys = {9}
    MaxKeys = 2
    Posts = {}
    Fleets <- mcFleets
    t1 = t1
    t2 = t2
    r1 = r1
    r2 = r2
    r3 = r3
    GRAIN = 3
    TICKS = 2
    Threads <- mcThreads
    RL <- mcLimit
    MaxTime = 0
    Requests <- mcThreeRequests
    BudgetCfg <- mcBudget
    MaxCost = 2
    LastTime = 0
    KeyLists <- mcLists
    Charges = {2}
    MaxReloads = 0
    LastRead = 0
    c1 = c1
    c2 = c2
    Clients <- mcClients
    MaxSessions = 0
    MaxRestarts = 1
    MaxLost = 1
    TokenWords <- mcTokenWords
    Predictions <- mcPredictions
    WINDOW_TOKENS = 4
    STRIDE_OVERLAP = 2
    TraceRoom = 1
    MaxServed = 0
SPECIFICATION GatewaySpec
CHECK_DEADLOCK FALSE
INVARIANT SpanKeptOrCovered
