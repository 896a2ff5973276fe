CONSTANTS
    EndSlot = 2
    MaxWire = 1
    MaxMishaps = 1
    Stores = {"wallet-orders", "payout-credits", "positions"}
    LastVersion = 4
    MaxPending = 2
    MaxTransit = 2
    Sequenced = FALSE
    LaggingRest = TRUE
    MaxTroubles = 2
    Tabs = {t1, t2}
    Accounts = {a1, a2}
    Nothing = nothing
    MCAccount = a1
    MaxRequests = 2
    MaxTrips = 3
SPECIFICATION EdgeSpec
INVARIANTS
    NotRelabelled
    BookIsReal
    SentAsReviewed
PROPERTIES
    StoresCatchUp
    FeedReturns
    OneIdentity
CHECK_DEADLOCK FALSE
