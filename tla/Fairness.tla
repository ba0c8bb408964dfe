------------------------------ MODULE Fairness ------------------------------
(***************************************************************************)
(* Game outcomes (fairness.rs, blackjack.rs): the seed chain, the user's   *)
(* seed, the random value and the payout of in_house_bet and crash_settle. *)
(*                                                                         *)
(* in.req.game holds the raw parameters of the round.  The games           *)
(* themselves live in another crate; GameCore stands for it.               *)
(***************************************************************************)
EXTENDS Hash, TxFlags, Sequences
LOCAL INSTANCE TLC

CONSTANTS
    GameCore(_, _, _, _), \* (game, random, bet, args): [win, staked] or NoPayout
    UnpackActions(_, _),  \* (lo, hi): the blackjack actions packed in two words
    NoPayout,             \* the crate's own refusal (bad mode, config)
    NoCommitment,         \* crash_seed_hash is None
    U8_SIZE,              \* 256: `as u8` reduces modulo this
    KENO_NUMBERS,         \* 40 numbers on the board
    KENO_MAX_PICKS,       \* 10
    KenoTables            \* the <<risk, count>> keno has a multiplier table for

ASSUME GameAssumption ==
    /\ U8_SIZE \in Nat \ {0}
    /\ KENO_NUMBERS \in Nat /\ KENO_MAX_PICKS \in Nat

CRASH == "crash"
LIMBO == "limbo"
DICE == "dice"
KENO == "keno"
PLINKO == "plinko"
COINFLIP == "coinflip"
BLACKJACK == "blackjack"

as_u8(v) == v % U8_SIZE

-----------------------------------------------------------------------------
\* keno::validate_selected: between one and ten distinct numbers of the board.
validate_selected(picks) ==
    /\ Len(picks) \in 1 .. KENO_MAX_PICKS
    /\ \A i, j \in DOMAIN picks : picks[i] = picks[j] => i = j
    /\ \A i \in DOMAIN picks : picks[i] < KENO_NUMBERS

sorted_picks(game) == SortSeq(game.keno_selected, <)

has_multiplier_table(game) ==
    <<as_u8(game.game_mode), as_u8(Len(sorted_picks(game)))>> \in KenoTables

sorted_keno_picks(game) ==
    Require(/\ game.game_mode <= 2
            /\ validate_selected(sorted_picks(game))
            /\ has_multiplier_table(game), "PayoutMismatch")

-----------------------------------------------------------------------------
\* blackjack.rs: the shoe is dealt from both seeds (a hash, as its inputs), and
\* the replay is reached with valid action codes only.
ACTION_HIT == 1
ACTION_INSURANCE_DECLINE == 6

unfold_shoe(server_seed, user_secret_random) ==
    [server_seed |-> server_seed, user_secret_random |-> user_secret_random]

valid_actions(actions) ==
    \A i \in DOMAIN actions : actions[i] \in ACTION_HIT .. ACTION_INSURANCE_DECLINE

actions_of(game) == UnpackActions(game.prediction_lo, game.prediction_hi)

-----------------------------------------------------------------------------
expected_prediction_hash(game) ==
    IF game.game_id = KENO
    THEN prediction_hash_keno(KENO, game.game_mode, sorted_picks(game))
    ELSE prediction_hash_standard(game.game_id, game.game_mode,
                                  game.prediction_lo, game.prediction_hi)

verify_prediction_hash(in) ==
    Require(in.req.game.game_id = KENO => sorted_keno_picks(in.req.game) = Ok,
            "PayoutMismatch") ??
    Require(expected_prediction_hash(in.req.game) = in.req.prediction_hash,
            "PayoutMismatch")

(***************************************************************************)
(* The arguments each game is called with.  The narrowing casts are the    *)
(* code's: only a game's own checks stand between them and the payout.     *)
(***************************************************************************)
payout_args(in) ==
    LET game == in.req.game IN
    CASE game.game_id \in {CRASH, LIMBO} -> <<game.prediction_lo>>
      [] game.game_id = DICE ->
            <<as_u8(game.game_mode), game.prediction_lo, game.prediction_hi>>
      [] game.game_id = KENO -> <<as_u8(game.game_mode), sorted_picks(game)>>
      [] game.game_id = PLINKO ->
            <<as_u8(game.game_mode), game.prediction_lo, game.prediction_hi # 0>>
      [] game.game_id = COINFLIP -> <<as_u8(game.prediction_lo)>>
      [] game.game_id = BLACKJACK ->
            <<unfold_shoe(in.req.server_seed, in.req.user_secret_random),
              actions_of(game), game.base_bet>>

valid_game_params(in) ==
    LET game == in.req.game IN
    CASE game.game_id \in {CRASH, LIMBO, DICE, PLINKO} -> TRUE
      [] game.game_id = KENO -> sorted_keno_picks(game) = Ok
      [] game.game_id = COINFLIP -> as_u8(game.prediction_lo) <= 1
      [] game.game_id = BLACKJACK -> valid_actions(actions_of(game))
      [] OTHER -> FALSE

\* Mutant: the stake of a blackjack round is not compared.
pays_any_stake(in, payout) == payout # NoPayout /\ payout.win = in.req.win_amount

\* Blackjack also re-derives what was staked, from the base bet.
pays(in, payout) ==
    /\ payout # NoPayout
    /\ in.req.game.game_id = BLACKJACK => payout.staked = in.req.amount
    /\ payout.win = in.req.win_amount

verify_payout(in, random) ==
    Require(valid_game_params(in), "PayoutMismatch") ??
    Require(pays(in, GameCore(in.req.game.game_id, random, in.req.amount,
                              payout_args(in))), "PayoutMismatch")

-----------------------------------------------------------------------------
game_random(in) ==
    IF in.req.tx_type = TX_IN_HOUSE_BET
    THEN random_ihb(in.req.server_seed, in.req.user_seed)
    ELSE random_crash(in.req.server_seed)

\* C9: an in-house bet reveals the seed its account is committed to.
check_seed_chain(in) ==
    Require(in.req.tx_type = TX_IN_HOUSE_BET =>
                seed_hash_truncated(in.req.server_seed) = in.old.seed_hash,
            "SeedChainBreak")

\* A crash round reveals the committed seed, when the caller knows it.
check_crash_commit(in) ==
    Require(in.req.tx_type = TX_CRASH_SETTLE =>
                in.req.crash_seed_hash \in
                    {NoCommitment, seed_hash_truncated(in.req.server_seed)},
            "CrashSeedCommitMismatch")

\* Mutant: the binding covers the stake, not the parameters of the game.
check_user_stake(in) ==
    Require(in.req.tx_type = TX_IN_HOUSE_BET =>
                /\ in.req.user_seed.game_id = in.req.game.game_id
                /\ in.req.user_seed.bet = in.req.amount
                /\ in.req.user_seed.user_secret = in.req.user_secret_random,
            "UserSeedBindingMismatch")

\* C10: the user's seed is bound to the bet it was made for.
check_user_seed(in) ==
    Require(in.req.tx_type = TX_IN_HOUSE_BET =>
                in.req.user_seed = user_seed_binding(
                    in.req.game.game_id, in.req.amount,
                    in.req.prediction_hash, in.req.user_secret_random),
            "UserSeedBindingMismatch")

check_fairness(in) ==
    check_seed_chain(in) ??
    check_crash_commit(in) ??
    check_user_seed(in) ??
    verify_prediction_hash(in) ??
    verify_payout(in, game_random(in))
=============================================================================
