CONSTANTS
    LastSlot = 4
    TradeTail = 2
    ReplayLag = 0
    MaxUpsets = 1
SPECIFICATION IndexSpec
INVARIANT HistoryComplete
CHECK_DEADLOCK FALSE
