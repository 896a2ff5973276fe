CONSTANTS
    Wad = 2
    Bps = 4
    MaxFeeBps = 1
    MaxU64 = 20
    Keys = {admin}
    Admin = admin
    NoKey = nokey
    AdminDelay = 1
    MaxTime = 2
    RoleSets <- MCRoleSets
    FeeRates = {1}
    Mints = {quote, stock}
    QuoteMint = quote
    Quote = quote
    Stock = stock
    NoMint = nomint
    Owners = {alice, bob}
    Alice = alice
    Bob = bob
    Bot = bot
    M = m1
    Free = free
    Controls <- MCControls
    TransferFee <- MCTransferFee
    Multipliers <- MCMultipliers
    Amounts = {1}
    MaxReserve = 9
    Markets = {m1}
    MaxBases = 1
    Terms <- MCTerms
    Scale <- MCScale
    ClaimAmounts = {1}
    Delegates = {}
    Limits = {}
    MaxLifetime = 2
    Nonces = {1}
    MaxEpoch = 0
    Salts = {s1, free}
    BoundNonce <- MCBoundNonce
    OrderTerms <- LifeTerms
    Plans = {1}
    MaxMakers = 1
    Window = 2
    MaxSequence = 3
    MaxLag = 0
    S1 = s1
    S2 = free
    PlanLife = 1
    MaxPlaced = 1
    MaxDelegated = 0
SPECIFICATION RelistSpec
PROPERTY DelistedAsksAreDead
CHECK_DEADLOCK FALSE
