CONSTANTS
    EndSlot = 2
    MaxWire = 1
    MaxMishaps = 0
    Stores = {"wallet-orders"}
SPECIFICATION BrowserSpec
INVARIANT NeverRelabelled
CHECK_DEADLOCK FALSE
