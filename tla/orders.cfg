CONSTANTS
    Wad = 2
    Bps = 4
    MaxFeeBps = 1
    MaxU64 = 20
    Keys = {admin}
    Admin = admin
    NoKey = nokey
    AdminDelay = 1
    MaxTime = 2
    RoleSets <- MCRoleSets
    FeeRates = {1}
    Mints = {quote, stock}
    QuoteMint = quote
    Quote = quote
    Stock = stock
    NoMint = nomint
    Owners = {alice, bob}
    Alice = alice
    Bob = bob
    Bot = bot
    M = m1
    Free = free
    Controls <- MCControls
    TransferFee <- MCTransferFee
    Multipliers <- MCMultipliers
    Amounts = {1}
    MaxReserve = 9
    Markets = {m1}
    MaxBases = 1
    Terms <- MCTerms
    Scale <- MCScale
    ClaimAmounts = {1}
    Delegates = {bot}
    Limits <- MCLimits
    MaxLifetime = 2
    Nonces = {1}
    MaxEpoch = 1
    Salts = {s1, s2, free}
    S1 = s1
    S2 = s2
    BoundNonce <- MCBoundNonce
    OrderTerms <- LifeTerms
    Plans = {1, 2}
    MaxMakers = 2
    Window = 2
    MaxSequence = 4
    MaxLag = 3
    PlanLife = 1
    MaxPlaced = 3
    MaxDelegated = 3
SPECIFICATION OrdersSpec
INVARIANTS
    BooksExact
    CancelOpenForLife
    PlansHold
    NoUnseenCross
    DelegateBudget
PROPERTIES
    NoReplay
    OnlyWantedFills
CHECK_DEADLOCK FALSE
