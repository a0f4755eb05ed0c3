CONSTANTS
    t1 = t1
    t2 = t2
    r1 = r1
    r2 = r2
    w1 = w1
    w2 = w2
    Tasks <- mcTasks
    BufferSize = 2
    MaxEvents = 4
    MaxStops = 1
    TraceBuffer = 1
    RotateMax = 1
    ArchiveAfter = 2
    Retention = 1
    MaxEntries = 3
    LastDay = 2
    MaxFaults = 2
    Callers <- mcCallers
    Workers <- mcWorkers
    Phrases = {"p", "q"}
    QueueCapacity = 1
    CacheCapacity = 1
    MaxCalls = 3
    MaxPanics = 2
    Recognizers <- mcRecognizers
    KindNames <- mcAll
    Fields <- mcFields
    Policies <- mcPolicies
    MaxNumber = 2
    MaxFields = 2
    MaxRequests = 2
    BuiltinPatterns <- mcBuiltin
    DefaultContactKinds = {"EMAIL"}
    Separator <- mcNewline
    RuleLists <- mcRuleLists
    ScannedBodies <- mcBodies
SPECIFICATION Spec
CHECK_DEADLOCK FALSE
INVARIANTS
    EventsAccounted
    EntryKept
    AnswerOfItsText
    EntitiesKept
    VerdictStands
PROPERTIES
    EventuallySettled
    Refines
    ExpiredGo
    EveryCallEnds
