SPECIFICATION MCSpec
CONSTANTS
    k1 = k1
    k2 = k2
    r1 = r1
    r2 = r2
    Keys = {k1, k2}
    Challenges = {1, 2}
    Attestations = {9}
    Attested <- AttestedAt
    Requests = {r1, r2}
    MaxAttempts = 2
    Ttl = 2
    Cooldown = 2
    Validity = 2
    Grace = 1
    Declared = {2}
    MaxTime = 3
    MaxCredentials = 2
    MaxCrashes = 1
    Policy = {"revoked"}
    RiskScoresSet = TRUE
    AllowOnUnreachable = FALSE
    CacheTtl = 1
    Timeout = 1
    MaxNow = 3
    MaxChanges = 1
    HoursADay = 2
    MaxHours = 7
    MaxNews = 2
    Jobs = {"sweep", "flush"}
    Callers = {"a", "b"}
    Capacity = 2
    EvictAfter = 2
    MaxBuckets = 1
    MaxTicks = 4
    MaxEnds = 1
    Rows = {"alive", "deal", "task"}
    Alive = "alive"
    MaxVersions = 2
    MaxFaults = 2
    MaxFlight = 6
    MaxSent = 1
    MaxCreds = 2
    MaxTroubles = 2
    m1 = m1
    m2 = m2
    Mirrors = {m1, m2}
    Quorum = 1
    MaxAge = 1
    Pinned = TRUE
    MaxRoots = 2
    MaxFilerKeys = 2
    MaxRevocations = 2
    DirectoryTime = 2
SYMMETRY Symmetry
INVARIANT ControlIsProven
INVARIANT NewsReachesVenue
INVARIANT ServesAsBefore
INVARIANT HonestKeepStanding
PROPERTY KeysInTurn
CHECK_DEADLOCK FALSE
