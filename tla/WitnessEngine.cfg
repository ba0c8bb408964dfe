\* Two workers, three requests on two accounts, balances of at most 2.
SPECIFICATION EngineSpec
CONSTANTS
    U64_MAX = 2
    GOLDILOCKS_P = 2
    PROVIDER_ALLOWANCE_MAX = 0
    LIMB = 2
    HALF = 1
    Zero = Zero
    NonCanonical = NonCanonical
    GAME_LANE_MAX = 0
    ACCOUNT_LANE_MAX = 0
    NumUsers = 2
    Seeds <- MCNoSeeds
    SeedHash <- MCSeedHash
    PkHashes <- MCNoKeys
    Addresses = {"a1"}
    AddressHash <- MCAddressHash
    GameCore <- MCNoGameCore
    UnpackActions <- MCUnpackActions
    NoPayout = NoPayout
    NoCommitment = NoCommitment
    U8_SIZE = 2
    KENO_NUMBERS = 3
    KENO_MAX_PICKS = 2
    KenoTables = {}
    TxTypes = {1, 3, 7}
    Amounts = {1}
    WinAmounts = {}
    Games = {}
    Secrets = {}
    Workers = {w1, w2}
    Pool <- MCPool
INVARIANTS LiabilityIsSum FreshIsAccepted
PROPERTIES ImplementsRollup

