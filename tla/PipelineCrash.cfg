\* Every game, settled as a crash round.
SPECIFICATION PipelineSpec
CONSTANTS
    U64_MAX = 15
    GOLDILOCKS_P = 12
    PROVIDER_ALLOWANCE_MAX = 3
    LIMB = 4
    HALF = 2
    Zero = Zero
    NonCanonical = NonCanonical
    GAME_LANE_MAX = 2
    ACCOUNT_LANE_MAX = 2
    NumUsers = 2
    Seeds <- MCSeeds
    SeedHash <- MCSeedHash
    PkHashes <- MCPkHashes
    Addresses = {"a1", "a2"}
    AddressHash <- MCAddressHash
    GameCore <- MCGameCore
    UnpackActions <- MCUnpackActions
    NoPayout = NoPayout
    NoCommitment = NoCommitment
    U8_SIZE = 4
    KENO_NUMBERS = 3
    KENO_MAX_PICKS = 2
    KenoTables <- MCKenoTables
    server_seed <- MCPlayed
    next_server_seed <- MCNext
    SCHNORR_PK <- MCOldKey
    NEW_PK <- MCNewKey
    home = "a1"
    elsewhere = "a2"
    secret = "s"
    other_secret = "t"
    Games <- MCGames
    Inputs <- SettledAsCrash
INVARIANT CrashSettlesCrash
