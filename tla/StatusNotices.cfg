SPECIFICATION FairSpec
CONSTANTS
    c1 = c1
    c2 = c2
    byInsurer = byInsurer
    byRegistry = byRegistry
    elsewhere = elsewhere
    NoCredential = NoCredential
    NoNotice = NoNotice
    Credentials = {c1, c2}
    Issued = {c1}
    Notices = {byInsurer, byRegistry, elsewhere}
    Named <- AboutEach
    ByEntity = {byRegistry}
    MaxStatuses = 2
    MaxCrashes = 2
INVARIANT MatchedOnLedger
INVARIANT PromisedIsRecorded
PROPERTY ServesAndKeeps
CHECK_DEADLOCK FALSE
