SPECIFICATION FairSpec
CONSTANTS
    load1 = load1
    b1 = b1
    c1 = c1
    t1 = t1
    o1 = o1
    o2 = o2
    h1 = h1
    h2 = h2
    Tasks = {t1}
    LoadOf <- OneLoad
    BrokerOf <- OneBroker
    CarrierOf <- CarriersAlike
    Offers = {o1, o2}
    NoOffer = NoOffer
    Handlers = {h1, h2}
    Overlap = TRUE
    Reported = {"PICKED_UP", "DELIVERED", "DELIVERY_ACCEPTED"}
    MaxRounds = 2
    MaxCommits = 1
    MaxCrashes = 1
INVARIANT CommittedOnAgreedTerms
INVARIANT LifecycleInOrder
PROPERTY TerminalNeverReopens
PROPERTY DecidedAndResolved
CHECK_DEADLOCK FALSE
