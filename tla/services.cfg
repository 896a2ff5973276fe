CONSTANTS
    MaxHeight = 6
    Validity = 1
    FinalLag = 1
    MaxTxs = 3
    Levels = 1
    Budget = 2
    LastDay = 2
    MaxFaults = 2
    Requests = {r1, r2}
    OrderOf <- MCOrderOf
    MaxReplans = 1
    MaxChanges = 1
    IndexLag = 1
    MaxCrashes = 1
    MaxLost = 1
    LastSlot = 4
    TradeTail = 2
    ReplayLag = 1
    MaxUpsets = 2
    Entries = 3
    Passes = {s1, s2}
    Room = 2
    DayBudget = 2
    MaxSends = 2
    MaxTrips = 1
SPECIFICATION ServicesSpec
INVARIANTS
    LadderBounded
    SpendCharged
    FundedOnce
    PlacedIsPlaced
    TradesKept
    PaidOnce
PROPERTIES
    JournalResolved
    RequestsEnd
    HistoryCatchesUp
    ExactHistory
    AllKept
CHECK_DEADLOCK FALSE
