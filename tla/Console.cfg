SPECIFICATION MCSpec
CONSTANTS
    oA = oA
    oB = oB
    uA = uA
    uB = uB
    Orgs = {oA, oB}
    Usdots = {uA, uB}
    Owner <- OwnerOnRecord
    Handlers = {1, 2}
    Proofs = {1, 2}
    MaxMandates = 2
    Processes = {1, 2, 3, 4}
    Requests = {1, 2}
    MaxLimits = 2
    MaxDeaths = 1
    MaxStops = 1
INVARIANT ClientsOwn
PROPERTY ComesBack
CHECK_DEADLOCK FALSE
