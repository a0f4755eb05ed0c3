CONSTANTS
    s1 = s1
    s2 = s2
    a1 = a1
    a2 = a2
    r1 = r1
    r2 = r2
    GRAIN = 1
    TICKS = 1
    Secrets <- mcSecrets
    Entries <- mcEntries
    FirstKeys <- mcTwoKeys
    Ops = {"delete"}
    Admins <- mcOneAdmin
    Requests <- mcOneRequest
    Costs = {1}
    MaxKeys = 2
    MaxBundles = 2
    MaxTime = 0
SPECIFICATION Spec
INVARIANT ChargedToAuthenticatedKey
