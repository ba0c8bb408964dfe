\* One player, batches of at most three slots; a game lane of two values, an account
\* lane of four.
SPECIFICATION MirrorSpec
CONSTANTS
    U64_MAX = 8
    GOLDILOCKS_P = 8
    PROVIDER_ALLOWANCE_MAX = 1
    LIMB = 3
    HALF = 2
    Zero = Zero
    NonCanonical = NonCanonical
    GAME_LANE_MAX = 1
    ACCOUNT_LANE_MAX = 3
    NumUsers = 2
    Seeds <- MCSeeds
    SeedHash <- MCSeedHash
    PkHashes <- MCPkHashes
    Addresses = {"a1"}
    AddressHash <- MCAddressHash
    GameCore <- MCNoGameCore
    UnpackActions <- MCUnpackActions
    NoPayout = NoPayout
    NoCommitment = NoCommitment
    U8_SIZE = 2
    KENO_NUMBERS = 3
    KENO_MAX_PICKS = 2
    KenoTables = {}
    TxTypes = {1, 2, 6, 7, 9, 10, 13}
    Amounts = {1}
    WinAmounts = {}
    Games = {}
    Secrets = {}
    BatchRequests <- MCRequests
    MaxBatch = 3
INVARIANTS MirrorIsExact
PROPERTIES RejectedIsQuarantined
