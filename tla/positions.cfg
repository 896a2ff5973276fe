CONSTANTS
    Wad = 2
    Bps = 4
    MaxFeeBps = 1
    MaxU64 = 20
    Keys = {admin}
    Admin = admin
    NoKey = nokey
    AdminDelay = 1
    MaxTime = 1
    RoleSets <- MCRoleSets
    FeeRates = {0}
    Mints = {quote, stock}
    QuoteMint = quote
    Quote = quote
    Stock = stock
    NoMint = nomint
    Owners = {alice, bob}
    Alice = alice
    Bob = bob
    Controls <- MCControls
    TransferFee <- MCTransferFee
    Multipliers <- MCMultipliers
    Amounts = {1, 2}
    MaxReserve = 4
    Markets = {m1, m2}
    M = m1
    MaxBases = 1
    Terms <- MCTerms
    Scale <- MCScale
    ClaimAmounts = {1}
SPECIFICATION MCCustodySpec
INVARIANTS
    CustodyType
    LedgersExact
    ClaimsBacked
    ClaimCustody
    SelfChecksSilent
    ExitsOpen
CHECK_DEADLOCK FALSE
