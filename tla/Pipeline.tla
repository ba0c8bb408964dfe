------------------------------ MODULE Pipeline ------------------------------
(***************************************************************************)
(* validate_slot one call at a time (lib.rs, fairness.rs).                 *)
(*                                                                         *)
(* Slot says what the verdict on an input is; this module says how it is   *)
(* reached: which call runs after which, and that each of them is defined  *)
(* for whatever the calls before it let through.  The input is raw: any    *)
(* limb may be non-canonical and any number out of range, because the      *)
(* engine deserializes it from untrusted JSON, and a panic would take the  *)
(* validator down with it.                                                 *)
(***************************************************************************)
EXTENDS Requests

CONSTANT
    Inputs  \* slot inputs, each with what its author got wrong: [in, flaws]

\* Of an input only this much is taken for granted.
ASSUME InputAssumption ==
    \A input \in Inputs :
        /\ input.in.old.nonce \in Nat
        /\ input.in.req.user_address \in Addresses
        /\ input.in.req.game.game_mode \in Nat

VARIABLES
    input,      \* the input being validated
    stage,      \* the position in Stages of the call that runs next
    verdict     \* Pending, Ok, the name of a rejection, or Panic

pipeline_vars == <<input, stage, verdict>>

Pending == "pending"
Panic == "panic"

-----------------------------------------------------------------------------
\* Mutant: the old leaf is packed before its allowance is known to fit.
StagesRootFirst ==
    <<"check_tx_type", "check_field_canonicity", "check_amount_canonicity",
      "verify_current_root", "check_stored_allowance_range", "check_user_id_range",
      "check_tl_chain",
      "check_house_account", "build_balance_changes", "compute_new_allowance",
      "risk_reject_floor", "build_address", "check_recipient_binding", "check_auth",
      "compute_new_nonce",
      "check_seed_chain", "check_crash_commit", "check_user_seed",
      "verify_prediction_hash", "verify_payout", "slot_h",
      "check_new_seed", "compute_new_tl", "compute_new_root">>

\* validate_slot, compute_effects and check_fairness, in the order of the calls.
Stages ==
    <<"check_tx_type", "check_field_canonicity", "check_amount_canonicity",
      "check_stored_allowance_range", "check_user_id_range", "verify_current_root",
      "check_tl_chain",
      "check_house_account", "build_balance_changes", "compute_new_allowance",
      "risk_reject_floor", "build_address", "check_recipient_binding", "check_auth",
      "compute_new_nonce",
      "check_seed_chain", "check_crash_commit", "check_user_seed",
      "verify_prediction_hash", "verify_payout", "slot_h",
      "check_new_seed", "compute_new_tl", "compute_new_root">>

is_played(in) == is_ihb_or_crash(in.req.tx_type)

\* What a call returns when it returns; slot_h and the new root are values.
Result(call, in) ==
    CASE call = "check_tx_type" -> check_tx_type(in)
      [] call = "check_field_canonicity" -> check_field_canonicity(in)
      [] call = "check_amount_canonicity" -> check_amount_canonicity(in)
      [] call = "check_stored_allowance_range" -> check_stored_allowance_range(in)
      [] call = "check_user_id_range" -> check_user_id_range(in)
      [] call = "verify_current_root" -> verify_current_root(in)
      [] call = "check_tl_chain" -> check_tl_chain(in)
      [] call = "check_house_account" -> check_house_account(in)
      [] call = "build_balance_changes" -> build_balance_changes(in)
      [] call = "compute_new_allowance" -> compute_new_allowance(in)
      [] call = "risk_reject_floor" -> risk_reject_floor(in)
      [] call = "build_address" -> build_address(in)
      [] call = "check_recipient_binding" -> check_recipient_binding(in)
      [] call = "check_auth" -> check_auth(in)
      [] call = "compute_new_nonce" -> check_new_nonce(in)
      [] call = "check_seed_chain" -> IF is_played(in) THEN check_seed_chain(in) ELSE Ok
      [] call = "check_crash_commit" -> IF is_played(in) THEN check_crash_commit(in) ELSE Ok
      [] call = "check_user_seed" -> IF is_played(in) THEN check_user_seed(in) ELSE Ok
      [] call = "verify_prediction_hash" ->
            IF is_played(in) THEN verify_prediction_hash(in) ELSE Ok
      [] call = "verify_payout" ->
            IF is_played(in) THEN verify_payout(in, game_random(in)) ELSE Ok
      [] call = "check_new_seed" -> check_new_seed(in)
      [] call = "compute_new_tl" -> compute_new_tl(in)
      [] call \in {"slot_h", "compute_new_root"} -> Ok

-----------------------------------------------------------------------------
\* poseidon2 panics on a limb that is not below the modulus ...
poseidon2_defined(groups) == \A i \in DOMAIN groups : all_canonical(groups[i])

\* ... and pack_balance_fields on an allowance without a packed form.
leaf_defined(account) ==
    /\ packable(account.provider_allowance)
    /\ is_canonical(account.nonce)
    /\ poseidon2_defined(<<account.seed_hash, account.pk_hash, account.address_hash>>)

path_defined(in) ==
    \A u \in DOMAIN in.main_siblings : all_canonical(in.main_siblings[u])

\* The payout tables of keno and the replay of blackjack, once reached, panic on
\* parameters they do not know.
payout_defined(in) ==
    LET game == in.req.game IN
    /\ game.game_id = KENO =>
          /\ as_u8(game.game_mode) <= 2
          /\ validate_selected(sorted_picks(game)) /\ has_multiplier_table(game)
    /\ game.game_id = BLACKJACK => valid_actions(actions_of(game))

\* Does the call return, on this input?
Defined(call, in) ==
    CASE call = "verify_current_root" -> leaf_defined(in.old) /\ path_defined(in)
      [] call = "check_seed_chain" ->
            in.req.tx_type = TX_IN_HOUSE_BET => poseidon2_defined(<<in.req.server_seed>>)
      [] call = "check_crash_commit" ->
            in.req.tx_type = TX_CRASH_SETTLE => poseidon2_defined(<<in.req.server_seed>>)
      [] call = "check_user_seed" ->
            in.req.tx_type = TX_IN_HOUSE_BET =>
                /\ is_canonical(in.req.amount)
                /\ poseidon2_defined(<<in.req.prediction_hash, in.req.user_secret_random>>)
      [] call = "verify_payout" ->
            is_played(in) =>
                /\ poseidon2_defined(<<in.req.server_seed, in.req.user_seed,
                                      in.req.user_secret_random>>)
                /\ valid_game_params(in) => payout_defined(in)
      [] call = "slot_h" ->
            is_played(in) =>
                /\ is_canonical(in.req.amount) /\ is_canonical(in.req.win_amount)
                /\ poseidon2_defined(<<in.req.server_seed, in.req.prediction_hash>>)
      [] call = "compute_new_root" -> leaf_defined(new_account(in)) /\ path_defined(in)
      [] OTHER -> TRUE

Call(name, in) == IF Defined(name, in) THEN Result(name, in) ELSE Panic

-----------------------------------------------------------------------------
PipelineInit == input \in Inputs /\ stage = 1 /\ verdict = Pending

CurrentCall == Call(Stages[stage], input.in)

\* The `?` after a call: go on, or return what it returned.
Pass ==
    /\ verdict = Pending /\ CurrentCall = Ok
    /\ stage < Len(Stages)
    /\ stage' = stage + 1
    /\ UNCHANGED <<input, verdict>>

Accept ==
    /\ verdict = Pending /\ CurrentCall = Ok
    /\ stage = Len(Stages)
    /\ verdict' = Ok
    /\ UNCHANGED <<input, stage>>

Reject ==
    /\ verdict = Pending /\ CurrentCall # Ok
    /\ verdict' = CurrentCall
    /\ UNCHANGED <<input, stage>>

\* The verdict is with the caller; after a panic there is nobody to give it to.
Return == verdict \notin {Pending, Panic} /\ UNCHANGED pipeline_vars

PipelineNext == Pass \/ Accept \/ Reject \/ Return

PipelineSpec == PipelineInit /\ [][PipelineNext]_pipeline_vars

-----------------------------------------------------------------------------
\* Whatever is deserialized, no call is made that would panic: every hash, the
\* packing, the keno table and the replay are reached behind the check that makes
\* them total ("Screening here keeps a malformed slot a typed rejection instead of
\* a panic that would take the whole validator down", fairness.rs:120).
NoCallPanics == verdict # Panic

\* An input with nothing wrong is accepted; any other is rejected for one of the
\* things that are wrong with it: two errors never cancel, and none hides behind
\* the type of another slot (the tests of lib.rs and fairness.rs, in pairs).
RejectedForAFlaw ==
    verdict # Pending =>
        IF input.flaws = {} THEN verdict = Ok ELSE verdict \in input.flaws

\* Once an owner has signed a user seed and the account is committed to a server
\* seed, one win can be settled and no other, whatever the operator completes the
\* slot with: the parameters, the order of the picks, the secret, the base bet
\* ("so the operator cannot swap them after the user signs", hash.rs:175).
OneWinPerSignedBet ==
    verdict = Ok /\ input.in.req.tx_type = TX_IN_HOUSE_BET =>
        \A other \in Inputs :
            /\ other.in.req.tx_type = TX_IN_HOUSE_BET
            /\ other.in.req.user_seed = input.in.req.user_seed
            /\ other.in.old.seed_hash = input.in.old.seed_hash
            /\ validate_slot(other.in) = Ok
            => other.in.req.win_amount = input.in.req.win_amount

\* "Returns the expected win_amount, or `PayoutMismatch` on invalid game params"
\* (fairness.rs:179): a coin has two sides.
InvalidParamsAreMismatch ==
    verdict = Ok /\ is_played(input.in) /\ input.in.req.game.game_id = COINFLIP =>
        input.in.req.game.prediction_lo \in {0, 1}

\* "in_house_bet: dispatch by game_id" (fairness.rs:193): every game but crash is
\* played as an in-house bet, on a random value its user had a part in.
CrashSettlesCrash ==
    verdict = Ok /\ input.in.req.tx_type = TX_CRASH_SETTLE =>
        input.in.req.game.game_id = CRASH
=============================================================================
