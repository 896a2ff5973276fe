CONSTANTS
    Wad = 2
    Bps = 4
    MaxFeeBps = 1
    MaxU64 = 20
    Keys = {admin, resolver, heir}
    Admin = admin
    Resolver = resolver
    NoKey = nokey
    AdminDelay = 2
    MaxTime = 5
    RoleSets <- MCRoleSets
    FeeRates = {0, 1, 2}
    Mints = {quote, steady, spare, split}
    QuoteMint = quote
    Split = split
    Spare = spare
    NoMint = nomint
    Owners = {alice}
    Controls <- MCControls
    TransferFee <- MCTransferFee
    Multipliers <- MCMultipliers
    Amounts = {1}
    MaxReserve = 1
    Markets = {m1, m2}
    M = m1
    MaxBases = 2
    Terms <- MCTerms
    Scale <- MCScale
    Consoles = {c1, c2}
    Ids = {1, 2}
    Payouts = {yes, no}
    MaxPackets = 3
    MaxAsked = 2
    MaxForms = 2
    MaxBatchPackets = 2
    Subject = 1
    BaseTokens <- MCBaseTokens
    Extra = "z"
    MaxLegs = 3
    MaxLoads = 2
SPECIFICATION MCListingSpec
INVARIANTS
    EvidenceStands
    RowsOnce
    LegsAsReviewed
    SegregatedCollateral
PROPERTIES
    HandoverNotice
    OutcomeCommitted
    LifecycleForward
CHECK_DEADLOCK FALSE
