CONSTANTS
    s1 = s1
    s2 = s2
    a1 = a1
    a2 = a2
    r1 = r1
    r2 = r2
    GRAIN = 1
    TICKS = 1
    Secrets <- mcSecrets
    Entries <- mcEntries
    FirstKeys <- mcOneKey
    Ops = {"create", "update", "delete", "save"}
    Admins <- mcTwoAdmins
    Requests <- mcOneRequest
    Costs = {1}
    MaxKeys = 2
    MaxBundles = 3
    MaxTime = 1
    Usages <- mcUsages
    Hour = 1
    Day = 2
    MaxLabels = 3
    MaxFinished = 2
    MaxFailures = 1
    HistoryEnd = 2
    Primary = "admin"
    CoAdmins = {"bob"}
    Passwords = {"x", "y"}
    PrimaryPassword = "x"
    Ttl = 1
    FirstDelivery <- mcDelivery
    MaxUsers = 1
    MaxAudits = 2
    MaxReplays = 1
    MaxOutages = 1
    SessionsEnd = 1
    ConnNames <- mcConns
    ServerNames <- mcServers
    ModelNames = {"m"}
    PrefixedKeys = {"sk-1"}
    FirstShown <- mcShownKey
    FormNumbers = {0, 2}
    LargestU32 = 1
    MaxTouched = 2
    g1 = g1
    g2 = g2
    k1 = k1
    k2 = k2
    email = email
    v1 = v1
    v2 = v2
    n1 = n1
    n2 = n2
    Gateways <- mcGateways
    MasterKeys <- mcMasterKeys
    Kinds <- mcKinds
    Values <- mcValues
    RandomParts <- mcSuffixes
    MaxDraws = 2
    Alphabet <- mcAlphabet
    Digit = "1"
    Quote = "q"
    Original <- mcOriginal
    MaxText = 6
SPECIFICATION ConsoleRunSpec
SYMMETRY AdminSymmetry
INVARIANTS
    DivergenceExplained
    EditHitsShownKey
    PageAgrees
    SignInAudited
    FormGrantsNoMore
    ChargedToOwner
    SpendCarriedExactly
    OneKey
    StreamRestored
PROPERTY
    Implements
CHECK_DEADLOCK FALSE
