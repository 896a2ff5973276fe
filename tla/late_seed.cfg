CONSTANTS
    Market = market
    Order = order
    Mint = mint
    Addresses = {market, order, mint}
    MaxSlot = 3
    Closed = closed
    None = none
    Modes = {"linear"}
    Writes <- MCSeedWrites
    RetainSlots = 1
    MaxFaults = 0
    SteadyResync = TRUE
    SteadyReplay = TRUE
SPECIFICATION LiveSpec
PROPERTIES
    SeedNeverOverrides
CHECK_DEADLOCK FALSE
