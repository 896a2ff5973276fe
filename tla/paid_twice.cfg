CONSTANTS
    Entries = 3
    Passes = {s1, s2}
    Room = 2
    DayBudget = 2
    MaxSends = 2
    MaxTrips = 1
SPECIFICATION KeeperSpec
INVARIANT NeverTwice
CHECK_DEADLOCK FALSE
