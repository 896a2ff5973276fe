CONSTANTS
    Market = market
    Order = order
    Mint = mint
    Addresses = {market, order, mint}
    MaxSlot = 2
    Closed = closed
    None = none
    Modes = {"relay"}
    Writes <- MCWrites
    RetainSlots = 1
    MaxFaults = 1
    SteadyResync = FALSE
    SteadyReplay = TRUE
SPECIFICATION LiveSpec
PROPERTIES
    CatchesUp
CHECK_DEADLOCK FALSE
