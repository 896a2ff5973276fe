CONSTANTS
    LastSlot = 4
    TradeTail = 2
    ReplayLag = 1
    MaxUpsets = 0
SPECIFICATION IndexSpec
INVARIANT HistoryComplete
CHECK_DEADLOCK FALSE
