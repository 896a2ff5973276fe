CONSTANTS
    Market = market
    Order = order
    Mint = mint
    Addresses = {market, order, mint}
    MaxSlot = 2
    Closed = closed
    None = none
    Modes = {"linear", "relay", "rollback"}
    Writes <- MCWrites
    RetainSlots = 1
    MaxFaults = 1
    SteadyResync = TRUE
    SteadyReplay = TRUE
SPECIFICATION LiveSpec
INVARIANTS
    ConfirmedWholeSlots
PROPERTIES
    FinalizedFeed
    CatchesUp
CHECK_DEADLOCK FALSE
