SPECIFICATION Spec
CONSTANTS
    load1 = load1
    b1 = b1
    c1 = c1
    t1 = t1
    t2 = t2
    o1 = o1
    h1 = h1
    h2 = h2
    Tasks = {t1, t2}
    LoadOf <- OneLoad
    BrokerOf <- OneBroker
    CarrierOf <- CarriersAlike
    Offers = {o1}
    NoOffer = NoOffer
    Handlers = {h1, h2}
    Overlap = TRUE
    Reported = {}
    MaxRounds = 1
    MaxCommits = 2
    MaxCrashes = 1
SYMMETRY Symmetry
INVARIANT BooksMatchLedger
INVARIANT NothingBeforeCommitPoint
INVARIANT CommittedOnce
INVARIANT NoOpenSibling
CHECK_DEADLOCK FALSE
