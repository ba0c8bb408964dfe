\* Every type that moves money, one key, one address, one seed.
SPECIFICATION Spec
CONSTANTS
    U64_MAX = 6
    GOLDILOCKS_P = 6
    PROVIDER_ALLOWANCE_MAX = 2
    LIMB = 3
    HALF = 2
    Zero = Zero
    NonCanonical = NonCanonical
    GAME_LANE_MAX = 1
    ACCOUNT_LANE_MAX = 2
    NumUsers = 2
    Seeds <- MCSeeds1
    SeedHash <- MCSeedHash
    PkHashes <- MCPkHashes1
    Addresses = {"a1"}
    AddressHash <- MCAddressHash
    GameCore <- MCGameCore
    UnpackActions <- MCUnpackActions
    NoPayout = NoPayout
    NoCommitment = NoCommitment
    U8_SIZE = 2
    KENO_NUMBERS = 3
    KENO_MAX_PICKS = 2
    KenoTables = {}
    TxTypes = {0, 1, 2, 3, 4, 5, 6, 7, 9, 10, 11, 13}
    Amounts = {1, 2, 3}
    WinAmounts = {0, 2, 4}
    Games <- MCFlips
    Secrets = {"secret"}
INVARIANTS TypeOK LeavesUnpack RootCommitsLeaves CreditIsCovered LiabilityIsSum ExitIsOpen
PROPERTIES UnsignedDebitsAreCapped DepositIsOutOfReach ImplementsLedger
