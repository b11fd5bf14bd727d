SPECIFICATION MCSpec
CONSTANTS
    ours = ours
    theirs = theirs
    Tasks = {ours, theirs}
    Outbound = {ours}
    Limit = 1
    MaxAttempts = 2
    MaxRounds <- Rounds
    MaxFaults = 1
    VenueRounds = 8
    ModelRounds = 3
    Miles = 780
    MaxEvents = 3
    MaxStarts = 2
    MaxAsked = 2
    MaxKeys = 3
    MaxKeyFaults = 2
    MaxVenueKeys = 3
    MaxVenueRoots = 2
    MaxVenueTime = 2
    MaxCrashes = 1
INVARIANT HandledOnce
 
INVARIANT KeysFollowed
 
INVARIANT DealHonoured
INVARIANT SignaturesTrusted
CHECK_DEADLOCK FALSE
