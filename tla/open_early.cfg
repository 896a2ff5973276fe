CONSTANTS
    Consoles = {c1, c2}
    Ids = {1, 2}
    Payouts = {yes, no}
    MaxPackets = 3
    MaxAsked = 2
    MaxForms = 2
    MaxBatchPackets = 2
    Subject = 1
    BaseTokens <- MCBaseTokens
    Extra = "z"
    MaxLegs = 3
    MaxLoads = 3
SPECIFICATION ConsoleSpec
INVARIANT OpenedAsReviewed
CHECK_DEADLOCK FALSE
