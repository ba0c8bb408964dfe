\* Of money nothing moves (every amount is 0): three bets, a rotation, three commitments.
SPECIFICATION ChainSpec
CONSTANTS
    U64_MAX = 12
    GOLDILOCKS_P = 12
    PROVIDER_ALLOWANCE_MAX = 1
    LIMB = 4
    HALF = 2
    Zero = Zero
    NonCanonical = NonCanonical
    GAME_LANE_MAX = 3
    ACCOUNT_LANE_MAX = 2
    NumUsers = 2
    Seeds <- MCSeeds
    SeedHash <- MCSeedHash
    PkHashes <- MCPkHashes
    Addresses = {"a1"}
    AddressHash <- MCAddressHash
    GameCore <- MCGameCore
    UnpackActions <- MCUnpackActions
    NoPayout = NoPayout
    NoCommitment = NoCommitment
    U8_SIZE = 2
    KENO_NUMBERS = 3
    KENO_MAX_PICKS = 2
    KenoTables = {}
    TxTypes = {0, 1, 2, 3, 4, 5, 6, 7, 8, 9, 10, 11, 12, 13}
    Amounts = {0}
    WinAmounts = {0}
    Games <- MCGames
    Secrets = {"secret"}
    MaxCommitments = 3
INVARIANTS CommitmentIsHeld RevealsWhatWasCommitted
