\* Keys, addresses, seeds and nonce lanes: two keys, two addresses, two seeds.
SPECIFICATION Spec
CONSTANTS
    U64_MAX = 6
    GOLDILOCKS_P = 6
    PROVIDER_ALLOWANCE_MAX = 3
    LIMB = 3
    HALF = 2
    Zero = Zero
    NonCanonical = NonCanonical
    GAME_LANE_MAX = 1
    ACCOUNT_LANE_MAX = 2
    NumUsers = 2
    Seeds <- MCSeeds2
    SeedHash <- MCSeedHash
    PkHashes <- MCPkHashes2
    Addresses = {"a1", "a2"}
    AddressHash <- MCAddressHash
    GameCore <- MCGameCore
    UnpackActions <- MCUnpackActions
    NoPayout = NoPayout
    NoCommitment = NoCommitment
    U8_SIZE = 2
    KENO_NUMBERS = 3
    KENO_MAX_PICKS = 2
    KenoTables = {}
    TxTypes = {1, 5, 8, 9, 12, 13}
    Amounts = {0, 3}
    WinAmounts = {0}
    Games <- MCGames
    Secrets = {"secret"}
INVARIANTS KeylessIsInert RegisteredIsComplete
PROPERTIES AddressIsImmutable LanesAdvanceByOne
