\* One player; at most four messages, the game lane full after two slots.
SPECIFICATION SignedSpec
CONSTANTS
    U64_MAX = 8
    GOLDILOCKS_P = 8
    PROVIDER_ALLOWANCE_MAX = 1
    LIMB = 3
    HALF = 2
    Zero = Zero
    NonCanonical = NonCanonical
    GAME_LANE_MAX = 1
    ACCOUNT_LANE_MAX = 3
    NumUsers = 2
    Seeds <- MCSeeds
    SeedHash <- MCSeedHash
    PkHashes <- MCPkHashes
    Addresses = {"a1", "a2"}
    AddressHash <- MCAddressHash
    GameCore <- MCGameCore
    UnpackActions <- MCUnpackActions
    NoPayout = NoPayout
    NoCommitment = NoCommitment
    U8_SIZE = 2
    KENO_NUMBERS = 3
    KENO_MAX_PICKS = 2
    KenoTables = {}
    TxTypes = {1, 2, 5, 6, 9, 10, 13}
    Amounts = {1, 2}
    WinAmounts = {0, 2}
    Games = {}
    Secrets = {"secret"}
    Requests <- MCRequests
    MaxMessages = 4
INVARIANTS NoReplay SettledAsSigned
PROPERTIES WaitingSurvivesBets OwnersConsent
