----------------------------- MODULE NonceLanes -----------------------------
(***************************************************************************)
(* The two-lane anti-replay nonce of lib.rs.  A leaf stores one word,      *)
(* account_lane * 2^40 + game_lane; bets and allowance changes bump the    *)
(* low lane, withdrawals, transfers and key registrations the high one.    *)
(***************************************************************************)
EXTENDS Field, TxFlags

CONSTANTS
    GAME_LANE_MAX,      \* 2^40 - 1
    ACCOUNT_LANE_MAX    \* 2^23 - 1

\* The packed word of two full lanes is 2^63 - 1: below the modulus.
ASSUME LaneAssumption ==
    /\ GAME_LANE_MAX \in Nat /\ ACCOUNT_LANE_MAX \in Nat
    /\ (ACCOUNT_LANE_MAX + 1) * (GAME_LANE_MAX + 1) <= GOLDILOCKS_P

ACCOUNT_LANE_UNIT == GAME_LANE_MAX + 1
NONCE_LIMIT == (ACCOUNT_LANE_MAX + 1) * ACCOUNT_LANE_UNIT
Nonces == 0 .. NONCE_LIMIT - 1

\* split_nonce(nonce) = (account_lane(nonce), game_lane(nonce)).
account_lane(nonce) == nonce \div ACCOUNT_LANE_UNIT
game_lane(nonce) == nonce % ACCOUNT_LANE_UNIT
join_nonce(account, game) == account * ACCOUNT_LANE_UNIT + game

Bump(flag) == IF flag THEN 1 ELSE 0

\* Mutant: the game lane may carry into the account lane.
compute_carrying_nonce_check(nonce, is_game_bump, is_account_bump) ==
    Require(/\ nonce < NONCE_LIMIT - 1
            /\ is_account_bump => account_lane(nonce) # ACCOUNT_LANE_MAX,
            "NonceLaneOverflow")

(***************************************************************************)
(* compute_new_nonce: a lane at its ceiling rejects; it never carries into *)
(* the other lane and never wraps.                                         *)
(***************************************************************************)
compute_new_nonce_check(nonce, is_game_bump, is_account_bump) ==
    Require(/\ nonce < NONCE_LIMIT
            /\ is_game_bump => game_lane(nonce) # GAME_LANE_MAX
            /\ is_account_bump => account_lane(nonce) # ACCOUNT_LANE_MAX,
            "NonceLaneOverflow")

compute_new_nonce(nonce, is_game_bump, is_account_bump) ==
    nonce + Bump(is_game_bump) + Bump(is_account_bump) * ACCOUNT_LANE_UNIT

\* Mutant: a transfer is signed but bumps nothing.
is_withdrawal_bump(t, is_key_setter) == t = TX_WITHDRAWAL \/ is_key_setter

\* advance_nonce: what the witness engine mirrors without the other checks.  It
\* derives the bumps from the type, validate_slot from the signed lane.
is_account_bump(t, is_key_setter) ==
    t = TX_WITHDRAWAL \/ t = TX_TRANSFER \/ is_key_setter

advance_nonce_check(nonce, t, is_key_setter) ==
    compute_new_nonce_check(nonce, is_game_lane(t), is_account_bump(t, is_key_setter))

advance_nonce(nonce, t, is_key_setter) ==
    compute_new_nonce(nonce, is_game_lane(t), is_account_bump(t, is_key_setter))
=============================================================================
