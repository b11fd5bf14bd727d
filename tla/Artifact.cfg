SPECIFICATION MCSpec
CONSTANTS
    m1 = m1
    m2 = m2
    w1 = w1
    w2 = w2
    Mirrors = {m1, m2}
    Quorum = 1
    DayLength = 2
    NoticeDays = 1
    MaxAge = 1
    Pickup = 3
    Delivery = 4
    FilingsFail = FALSE
    MaxTime = 4
    MinRegistries = 1
    Witnesses = {w1, w2}
    Blind = {w2}
    MinWitnesses = 2
    Staleness = 1
    Hides = TRUE
    SlowPolls = FALSE
    MaxEntries = 2
SYMMETRY Symmetry
 
INVARIANT CoveredInTransit
 
PROPERTY NewsBlocks
CHECK_DEADLOCK FALSE
