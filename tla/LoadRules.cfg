SPECIFICATION MCSpec
CONSTANTS
    load1 = load1
    b1 = b1
    c1 = c1
    c2 = c2
    t1 = t1
    t2 = t2
    o1 = o1
    h1 = h1
    h2 = h2
    Tasks = {t1, t2}
    LoadOf <- OneLoad
    BrokerOf <- OneBroker
    CarrierOf <- CarriersAlike
    Offers = {o1}
    NoOffer = NoOffer
    Handlers = {h1, h2}
    Overlap = FALSE
    Reported = {"PICKED_UP", "DELIVERED", "DELIVERY_ACCEPTED"}
    MaxRounds = 2
    MaxCommits = 2
    MaxCrashes = 2
SYMMETRY Symmetry
INVARIANT OneOutcomePerLoad
PROPERTY VoidsAndTendersInTurn
CHECK_DEADLOCK FALSE
