SPECIFICATION Spec
CONSTANTS
    g1 = g1
    g2 = g2
    c1 = c1
    c2 = c2
    Guarantees = {g1, g2}
    Carriers = {c1}
    CarrierOf <- OneCarrier
    Covered <- Alike
    Premium = 1
    Amounts = {1, 3}
    Capital = 0
    CarrierLimit = 3
    VenueLimit = 5
    MaxClaims = 2
    MaxCapital = 3
    MaxCrashes = 1
SYMMETRY Symmetry
INVARIANT ReserveBears
INVARIANT SumsAreRight
INVARIANT ClaimsAreRight
PROPERTY CapitalGoesToClaims
CHECK_DEADLOCK FALSE
