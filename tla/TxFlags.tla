------------------------------ MODULE TxFlags ------------------------------
(***************************************************************************)
(* The fourteen transaction types and the flag sets the validator selects  *)
(* on (flags.rs).  The code decodes tx_type into one-hot booleans; here a  *)
(* flag disjunction such as is_bet | is_withdrawal | ... is a set of       *)
(* types.                                                                  *)
(***************************************************************************)
EXTENDS Integers

TX_NOOP == 0
TX_DEPOSIT == 1
TX_BET == 2                       \* placed by a game provider, not signed
TX_WIN == 3
TX_BONUS == 4
TX_IN_HOUSE_BET == 5
TX_WITHDRAWAL == 6
TX_RISK_REJECT == 7
TX_SET_INIT_SEED_HASH == 8
TX_KEY_REGISTER_ONLY == 9
TX_TRANSFER == 10
TX_REFERRAL == 11
TX_CRASH_SETTLE == 12
TX_SET_PROVIDER_ALLOWANCE == 13
MAX_TX_TYPE == 13

\* The two slots that carry a game outcome (in_house_bet | crash_settle).
is_ihb_or_crash(t) == t \in {TX_IN_HOUSE_BET, TX_CRASH_SETTLE}

\* Signed under, and bumping, the game lane of the nonce.
is_game_lane(t) == is_ihb_or_crash(t) \/ t = TX_SET_PROVIDER_ALLOWANCE

\* Signed under, and bumping, the account lane of the nonce.
is_account_lane(t) == t \in {TX_WITHDRAWAL, TX_TRANSFER}

\* Mutant: a transfer is not signed.
is_authenticated_debit(t) == is_game_lane(t) \/ t = TX_WITHDRAWAL

\* Folded into the Schnorr chain: needs a registered key.
is_authenticated(t) == is_game_lane(t) \/ is_account_lane(t)
=============================================================================
