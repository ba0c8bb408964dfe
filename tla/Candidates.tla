----------------------------- MODULE Candidates -----------------------------
(***************************************************************************)
(* The slot inputs of the repository's tests (lib.rs, fairness.rs): a few  *)
(* builders of inputs with nothing wrong, and the ways in which the tests  *)
(* spoil them, each with the rejection the test expects.  A spoiled input  *)
(* is committed again, so that the state checks pass and the effects are   *)
(* reached; a corrupted one is not.                                        *)
(***************************************************************************)
EXTENDS Requests

CONSTANTS
    server_seed,        \* the seed the bets reveal
    next_server_seed,   \* and the one they commit to
    SCHNORR_PK, NEW_PK, \* two key hashes
    home, elsewhere,    \* two addresses
    secret, other_secret,
    Games               \* parameters of rounds with nothing wrong

\* Their order of magnitude is that of the tests: the balance covers a bet, the
\* credit does not, the nonce is a legacy one.
RegisteredAccount ==
    [balance |-> 4, deposit_credit |-> 2, nonce |-> 1, provider_allowance |-> 0,
     seed_hash |-> seed_hash_truncated(next_server_seed), pk_hash |-> SCHNORR_PK,
     address_hash |-> address_hash(home)]

user == 1
next_hash == seed_hash_truncated(next_server_seed)

-----------------------------------------------------------------------------
\* Recompute the block state from the account, so that C16 and C18 hold.
commit(in) ==
    [in EXCEPT !.current_root = compute_root(in.old, in.main_siblings, in.req.user_id),
               !.current_tl = in.old_total_liability]

\* A request of a registered user, whose neighbours are unused leaves.
of_account(req, account) ==
    LET siblings == SiblingsOf([u \in Users |-> EmptyAccount]) IN
    commit([req |-> req, old |-> account, main_siblings |-> siblings,
            old_total_liability |-> 6, current_root |-> siblings, current_tl |-> 6])

registered_user(req) == of_account(req, RegisteredAccount)

consistent_noop == registered_user(Request(TX_NOOP, user))

redeposit == registered_user(DepositRequest(user, 1, home))
first_deposit ==
    of_account(DepositRequest(user, 1, elsewhere),
               [RegisteredAccount EXCEPT !.address_hash = ZeroHash])

provider_bet ==
    of_account(AmountRequest(TX_BET, user, 2),
               [RegisteredAccount EXCEPT !.provider_allowance = 3])
set_provider_allowance == registered_user(AmountRequest(TX_SET_PROVIDER_ALLOWANCE, user, 3))

\* To any address: it need not be the registered one.
withdrawal == registered_user(WithdrawalRequest(user, 2, elsewhere, elsewhere))
transfer == registered_user(AmountRequest(TX_TRANSFER, user, 1))
win == of_account(AmountRequest(TX_WIN, user, 1), [RegisteredAccount EXCEPT !.pk_hash = ZeroHash])
risk_reject == registered_user(AmountRequest(TX_RISK_REJECT, user, 2))

set_init_seed == registered_user(CommitRequest(0, next_hash))
first_key_register ==
    of_account(KeyRequest(user, NEW_PK, home, next_hash),
               [RegisteredAccount EXCEPT !.pk_hash = ZeroHash, !.address_hash = ZeroHash,
                                         !.seed_hash = Zero])
key_rotation == registered_user(KeyRequest(user, NEW_PK, elsewhere, Zero))

-----------------------------------------------------------------------------
\* What the game pays, on the parameters it is called with.
outcome(in) ==
    GameCore(in.req.game.game_id, game_random(in), in.req.amount, payout_args(in))

paid(in) == commit([in EXCEPT !.req.win_amount = outcome(in).win])

ihb_of(game, bet) ==
    of_account(RoundRequest(TX_IN_HOUSE_BET, user, bet, 0, game, server_seed, secret,
                            next_hash, NoCommitment),
               [RegisteredAccount EXCEPT !.seed_hash = seed_hash_truncated(server_seed)])

\* Blackjack settles for the stake its replay ends with.
consistent_ihb(game) ==
    IF game.game_id = BLACKJACK
    THEN paid(ihb_of(game, outcome(ihb_of(game, 0)).staked))
    ELSE paid(ihb_of(game, 2))

crash_game(cashout) == [DefaultGame EXCEPT !.game_id = CRASH, !.prediction_lo = cashout]

consistent_crash(game, known) ==
    paid(registered_user(RoundRequest(TX_CRASH_SETTLE, user, 1, 0, game, server_seed,
                                      secret, Zero, known)))

\* A repeated tile, no picks, a tile out of range, too many picks, no such risk.
malformed_keno ==
    LET Keno(risk, picks) ==
            [DefaultGame EXCEPT !.game_id = KENO, !.game_mode = risk, !.keno_selected = picks]
    IN {ihb_of(game, 2) : game \in
           {Keno(0, <<1, 1>>), Keno(0, <<>>), Keno(0, <<KENO_NUMBERS>>),
            Keno(0, [i \in 1 .. KENO_MAX_PICKS + 1 |-> i - 1]), Keno(3, <<0, 1>>)}}

\* An action code outside 1 .. 6.
malformed_blackjack ==
    ihb_of([DefaultGame EXCEPT !.game_id = BLACKJACK, !.prediction_lo = 7, !.base_bet = 1], 2)

invalid_game_id == ihb_of([DefaultGame EXCEPT !.game_id = "no such game"], 2)

-----------------------------------------------------------------------------
\* A spoiled input and the rejection it deserves, for the inputs it applies to.
Spoiled(applies, in, flaw) == IF applies THEN {[in |-> in, flaw |-> flaw]} ELSE {}

of_type(in, types) == in.req.tx_type \in types

still_checks_auth(in) ==
    Spoiled(is_authenticated(in.req.tx_type),
            [in EXCEPT !.old.pk_hash = ZeroHash], "SignedWithoutPk")

broken_seed_chain(in) ==
    Spoiled(of_type(in, {TX_IN_HOUSE_BET}),
            [in EXCEPT !.old.seed_hash = next_hash], "SeedChainBreak")

tampered_user_seed(in) ==
    Spoiled(of_type(in, {TX_IN_HOUSE_BET}),
            [in EXCEPT !.req.user_seed.bet = @ + 1], "UserSeedBindingMismatch")

\* The operator plays on with another secret, and pays what it comes to.
swapped_secret(in) ==
    Spoiled(of_type(in, {TX_IN_HOUSE_BET}) /\ valid_game_params(in),
            paid([in EXCEPT !.req.user_secret_random = other_secret]),
            "UserSeedBindingMismatch")

\* Or a slot with nothing wrong, with other parameters of the same game.
swapped_game(in) ==
    UNION {Spoiled(/\ of_type(in, {TX_IN_HOUSE_BET}) /\ validate_slot(in) = Ok
                   /\ game.game_id = in.req.game.game_id /\ game # in.req.game,
                   paid([in EXCEPT !.req.game = game,
                                   !.req.prediction_hash = expected_prediction_hash(game)]),
                   "UserSeedBindingMismatch") : game \in Games}

\* The base bet of blackjack is in no hash: the stake it comes to gives it away.
tampered_stake(in) ==
    Spoiled(in.req.game.game_id = BLACKJACK /\ valid_game_params(in),
            paid([in EXCEPT !.req.game.base_bet = @ + 1]), "PayoutMismatch")

wrong_win_amount(in) ==
    Spoiled(is_ihb_or_crash(in.req.tx_type), [in EXCEPT !.req.win_amount = @ + 1],
            "PayoutMismatch")

mismatched_game_mode(in) ==
    Spoiled(is_ihb_or_crash(in.req.tx_type), [in EXCEPT !.req.game.game_mode = @ + 1],
            "PayoutMismatch")

house_account_bets(in) ==
    Spoiled(of_type(in, {TX_IN_HOUSE_BET}), [in EXCEPT !.req.user_id = 0],
            "InHouseBetOnAccountZero")

set_init_seed_on_user_leaf(in) ==
    Spoiled(of_type(in, {TX_SET_INIT_SEED_HASH}), [in EXCEPT !.req.user_id = user],
            "SetInitSeedNotAccountZero")

zero_seed_commit(in) ==
    Spoiled(is_needs_new_seed(in), [in EXCEPT !.req.next_server_seed_hash = Zero],
            "ZeroSeedCommit")

crash_wrong_seed_commit(in) ==
    Spoiled(of_type(in, {TX_CRASH_SETTLE}), [in EXCEPT !.req.crash_seed_hash = next_hash],
            "CrashSeedCommitMismatch")

over_balance(in) ==
    Spoiled(of_type(in, {TX_WITHDRAWAL, TX_TRANSFER, TX_BET}),
            [in EXCEPT !.req.amount = in.old.balance + 1], "InsufficientBalance")

above_allowance(in) ==
    Spoiled(of_type(in, {TX_BET}), [in EXCEPT !.old.provider_allowance = 1],
            "ProviderAllowanceExceeded")

allowance_above_62_bits(in) ==
    Spoiled(of_type(in, {TX_SET_PROVIDER_ALLOWANCE}),
            [in EXCEPT !.req.amount = PROVIDER_ALLOWANCE_MAX + 1],
            "ProviderAllowanceOverflow")

below_credit(in) ==
    Spoiled(of_type(in, {TX_RISK_REJECT}), [in EXCEPT !.req.amount = in.old.balance],
            "RiskRejectBelowCredit")

mismatched_address(in) ==
    Spoiled(of_type(in, {TX_DEPOSIT}) /\ ~is_addr_all_zero(in),
            [in EXCEPT !.req.user_address = elsewhere], "AddressHashMismatch")

redirected(in) ==
    Spoiled(of_type(in, {TX_WITHDRAWAL}), [in EXCEPT !.req.user_address = home],
            "RecipientAddrHashMismatch")

unsigned_dest(in) ==
    Spoiled(of_type(in, {TX_WITHDRAWAL}), [in EXCEPT !.req.recipient_addr_hash = Zero],
            "RecipientAddrHashMismatch")

non_payout_recipient(in) ==
    Spoiled(of_type(in, {TX_TRANSFER, TX_SET_PROVIDER_ALLOWANCE}),
            [in EXCEPT !.req.recipient_addr_hash = address_hash(home).lo],
            "RecipientAddrHashMismatch")

lane_at_ceiling(in) ==
    Spoiled(is_game_lane(in.req.tx_type),
            [in EXCEPT !.old.nonce = join_nonce(1, GAME_LANE_MAX)], "NonceLaneOverflow")
    \cup
    Spoiled(is_account_signed(in),
            [in EXCEPT !.old.nonce = join_nonce(ACCOUNT_LANE_MAX, 1)], "NonceLaneOverflow")

\* Canonical, but of a width no slot has ever produced.
nonce_above_63_bits(in) ==
    Spoiled(NONCE_LIMIT < GOLDILOCKS_P, [in EXCEPT !.old.nonce = NONCE_LIMIT],
            "NonceLaneOverflow")

Spoilings(in) ==
    still_checks_auth(in) \cup broken_seed_chain(in) \cup tampered_user_seed(in)
    \cup swapped_secret(in) \cup swapped_game(in) \cup tampered_stake(in)
    \cup wrong_win_amount(in) \cup mismatched_game_mode(in)
    \cup house_account_bets(in) \cup set_init_seed_on_user_leaf(in)
    \cup zero_seed_commit(in) \cup crash_wrong_seed_commit(in) \cup over_balance(in)
    \cup above_allowance(in) \cup allowance_above_62_bits(in) \cup below_credit(in)
    \cup mismatched_address(in) \cup redirected(in) \cup unsigned_dest(in)
    \cup non_payout_recipient(in) \cup lane_at_ceiling(in) \cup nonce_above_63_bits(in)

-----------------------------------------------------------------------------
bad_tx_type(in) ==
    Spoiled(TRUE, [in EXCEPT !.req.tx_type = MAX_TX_TYPE + 1], "BadTxType")

\* Every opaque group, a sibling and the nonce.
non_canonical_field_limb(in) ==
    {[in |-> bad, flaw |-> "FieldNotCanonical"] : bad \in
        {[in EXCEPT !.req.server_seed = NonCanonical],
         [in EXCEPT !.req.user_seed = NonCanonical],
         [in EXCEPT !.req.next_server_seed_hash = NonCanonical],
         [in EXCEPT !.req.new_pk_hash = NonCanonical],
         [in EXCEPT !.req.prediction_hash = NonCanonical],
         [in EXCEPT !.req.user_secret_random = NonCanonical],
         [in EXCEPT !.old.seed_hash = NonCanonical],
         [in EXCEPT !.old.pk_hash = NonCanonical],
         [in EXCEPT !.old.address_hash = NonCanonical],
         [in EXCEPT !.old.nonce = GOLDILOCKS_P],
         [in EXCEPT !.main_siblings[0] = NonCanonical]}}

non_canonical_amount(in) ==
    {[in |-> bad, flaw |-> "AmountNotCanonical"] : bad \in
        {[in EXCEPT !.req.amount = GOLDILOCKS_P], [in EXCEPT !.req.win_amount = U64_MAX]}}

stored_allowance_above_62_bits(in) ==
    Spoiled(TRUE, [in EXCEPT !.old.provider_allowance = PROVIDER_ALLOWANCE_MAX + 1],
            "ProviderAllowanceOverflow")

user_id_out_of_range(in) ==
    Spoiled(TRUE, [in EXCEPT !.req.user_id = NumUsers], "UserIdOutOfRange")

merkle_root_mismatch(in) ==
    {[in |-> bad, flaw |-> "MerkleRootMismatch"] : bad \in
        {[in EXCEPT !.current_root[0] = Zero], [in EXCEPT !.old.balance = @ + 1]}}

tl_chain_break(in) ==
    Spoiled(TRUE, [in EXCEPT !.old_total_liability = in.current_tl + 1], "TlOverflow")

Corruptions(in) ==
    bad_tx_type(in) \cup non_canonical_field_limb(in) \cup non_canonical_amount(in)
    \cup stored_allowance_above_62_bits(in) \cup user_id_out_of_range(in)
    \cup merkle_root_mismatch(in) \cup tl_chain_break(in)

-----------------------------------------------------------------------------
WellFormed ==
    {consistent_noop, redeposit, first_deposit, provider_bet, set_provider_allowance,
     withdrawal, transfer, win, risk_reject, set_init_seed, first_key_register,
     key_rotation}
    \cup {consistent_ihb(game) : game \in Games}
    \cup {consistent_crash(crash_game(2), known) :
             known \in {NoCommitment, seed_hash_truncated(server_seed)}}

Malformed == malformed_keno \cup {malformed_blackjack, invalid_game_id}

Built ==
    {[in |-> in, flaws |-> {}] : in \in WellFormed}
    \cup {[in |-> in, flaws |-> {"PayoutMismatch"}] : in \in Malformed}

\* The rounds of the other games, settled as crash rounds are.
SettledAsCrash ==
    {[in |-> consistent_crash(game, NoCommitment), flaws |-> {}] : game \in Games}

\* One more thing goes wrong before, or after, the input is committed.
SpoilOnce(inputs) ==
    UNION {{[in |-> commit(bad.in), flaws |-> input.flaws \cup {bad.flaw}] :
                bad \in Spoilings(input.in)} : input \in inputs}

CorruptOnce(inputs) ==
    UNION {{[in |-> bad.in, flaws |-> input.flaws \cup {bad.flaw}] :
                bad \in Corruptions(input.in)} : input \in inputs}

\* Up to two things are wrong with an input (bounds the run).
TestInputs ==
    LET spoiled == SpoilOnce(Built)
    IN Built \cup spoiled \cup SpoilOnce(spoiled)
       \cup CorruptOnce(Built) \cup CorruptOnce(spoiled)
=============================================================================
