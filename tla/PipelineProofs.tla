---------------------------- MODULE PipelineProofs ----------------------------
(***************************************************************************)
(* validate_slot never panics and its calls, one by one, come to the       *)
(* verdict of Slot: for every set of inputs, every width and every game.   *)
(*                                                                         *)
(* The invariant says that every call before the current one returned Ok;  *)
(* what a call needs in order to return is among what they checked.        *)
(***************************************************************************)
EXTENDS Pipeline, Candidates, SlotProofs

\* All calls before the k-th one passed.
PassedBefore(k, in) == \A i \in 1 .. k - 1 : Result(Stages[i], in) = Ok

\* The validator makes at most 24 calls.
LEMMA StageCount == Len(Stages) = 24
  BY DEF Stages

(***************************************************************************)
(* The calls before a call.                                                *)
(***************************************************************************)
\* From the old-leaf hash on, everything that is hashed is canonical and the
\* stored allowance can be packed.
LEMMA ScreenedBeforeHashing ==
    ASSUME NEW in, NEW k \in 6 .. 24, PassedBefore(k, in)
    PROVE  /\ check_field_canonicity(in) = Ok
           /\ check_amount_canonicity(in) = Ok
           /\ check_stored_allowance_range(in) = Ok
<1>1. /\ Result(Stages[2], in) = Ok
      /\ Result(Stages[3], in) = Ok
      /\ Result(Stages[4], in) = Ok
  BY DEF PassedBefore
<1>2. /\ Stages[2] = "check_field_canonicity"
      /\ Stages[3] = "check_amount_canonicity"
      /\ Stages[4] = "check_stored_allowance_range"
  BY DEF Stages
<1> QED BY <1>1, <1>2 DEF Result

\* What the screening establishes.
LEMMA Screened ==
    ASSUME NEW in, check_field_canonicity(in) = Ok, check_amount_canonicity(in) = Ok,
           check_stored_allowance_range(in) = Ok
    PROVE  /\ is_canonical(in.old.nonce)
           /\ is_canonical(in.req.amount) /\ is_canonical(in.req.win_amount)
           /\ packable(in.old.provider_allowance)
           /\ \A group \in {in.req.server_seed, in.req.user_seed, in.old.seed_hash,
                            in.req.next_server_seed_hash, in.old.pk_hash,
                            in.req.new_pk_hash, in.old.address_hash,
                            in.req.prediction_hash, in.req.user_secret_random} :
                  all_canonical(group)
           /\ path_defined(in)
<1> DEFINE groups == <<in.req.server_seed, in.req.user_seed, in.old.seed_hash,
                       in.req.next_server_seed_hash, in.old.pk_hash,
                       in.req.new_pk_hash, in.old.address_hash,
                       in.req.prediction_hash, in.req.user_secret_random>>
<1>1. /\ is_canonical(in.old.nonce)
      /\ \A i \in DOMAIN groups : all_canonical(groups[i])
      /\ \A u \in DOMAIN in.main_siblings : all_canonical(in.main_siblings[u])
  BY DEF check_field_canonicity, Require, Ok
<1>2. \A i \in 1 .. 9 : i \in DOMAIN groups
  OBVIOUS
<1>3. \A i \in 1 .. 9 : all_canonical(groups[i])
  BY <1>1, <1>2
<1>4. /\ all_canonical(groups[1]) /\ all_canonical(groups[2]) /\ all_canonical(groups[3])
      /\ all_canonical(groups[4]) /\ all_canonical(groups[5]) /\ all_canonical(groups[6])
      /\ all_canonical(groups[7]) /\ all_canonical(groups[8]) /\ all_canonical(groups[9])
  BY <1>3
<1>5. /\ is_canonical(in.req.amount) /\ is_canonical(in.req.win_amount)
      /\ packable(in.old.provider_allowance)
  BY DEF check_amount_canonicity, check_stored_allowance_range, packable, Require, Ok
<1> QED BY <1>1, <1>4, <1>5 DEF path_defined

\* The games that panic are reached with what they know.
LEMMA GamesAreScreened ==
    ASSUME NEW in, in.req.game.game_mode \in Nat, valid_game_params(in)
    PROVE  payout_defined(in)
<1> DEFINE game == in.req.game
<1>1. CASE game.game_id = KENO
  <2>1. sorted_keno_picks(game) = Ok
    BY <1>1 DEF valid_game_params, KENO, CRASH, LIMBO, DICE, PLINKO, COINFLIP, BLACKJACK
  <2>2. /\ game.game_mode <= 2
        /\ validate_selected(sorted_picks(game)) /\ has_multiplier_table(game)
    BY <2>1 DEF sorted_keno_picks, Require, Ok
  <2>3. as_u8(game.game_mode) <= 2
    <3> DEFINE m == game.game_mode
    <3>1. U8_SIZE \in Nat \ {0} /\ m \in Nat /\ m <= 2
      BY <2>2, GameAssumption
    <3>2. m % U8_SIZE <= m
      BY <3>1, Z3
    <3>3. m % U8_SIZE \in Int
      BY <3>1
    <3> QED BY <3>1, <3>2, <3>3 DEF as_u8
  <2> QED BY <1>1, <2>2, <2>3 DEF payout_defined, KENO, BLACKJACK
<1>2. CASE game.game_id = BLACKJACK
  <2>1. valid_actions(actions_of(game))
    BY <1>2 DEF valid_game_params, KENO, CRASH, LIMBO, DICE, PLINKO, COINFLIP, BLACKJACK
  <2> QED BY <1>2, <2>1 DEF payout_defined, KENO, BLACKJACK
<1>3. CASE game.game_id \notin {KENO, BLACKJACK}
  BY <1>3 DEF payout_defined
<1> QED BY <1>1, <1>2, <1>3

\* The new leaf can be packed and hashed.
LEMMA NewLeafIsDefined ==
    ASSUME NEW candidate \in Inputs, PassedBefore(24, candidate.in)
    PROVE  leaf_defined(new_account(candidate.in))
<1> DEFINE in == candidate.in
<1>1. /\ check_field_canonicity(in) = Ok
      /\ check_amount_canonicity(in) = Ok
      /\ check_stored_allowance_range(in) = Ok
  BY ScreenedBeforeHashing
<1>2. compute_new_allowance(in) = Ok /\ check_new_nonce(in) = Ok
  <2>1. Result(Stages[10], in) = Ok /\ Result(Stages[15], in) = Ok
    BY DEF PassedBefore
  <2>2. Stages[10] = "compute_new_allowance" /\ Stages[15] = "compute_new_nonce"
    BY DEF Stages
  <2> QED BY <2>1, <2>2 DEF Result
<1>3. packable(new_allowance(in))
  BY <1>2 DEF compute_new_allowance, Require, Ok, packable, ??
<1>4. is_canonical(new_nonce(in))
  <2> DEFINE game == is_game_lane(in.req.tx_type)
             account == is_account_signed(in)
  <2>1. game \in BOOLEAN /\ account \in BOOLEAN
    BY DEF is_game_lane, is_ihb_or_crash, is_account_signed, is_account_lane, is_key_setter
  <2>2. compute_new_nonce_check(in.old.nonce, game, account) = Ok
    BY <1>2 DEF check_new_nonce
  <2>3. in.old.nonce \in Nat /\ in.old.nonce < NONCE_LIMIT
    BY <2>2, InputAssumption DEF compute_new_nonce_check, Require, Ok
  <2>4. NONCE_LIMIT \in Nat /\ NONCE_LIMIT <= GOLDILOCKS_P /\ GOLDILOCKS_P \in Nat
    BY LaneAssumption, WordAssumption DEF NONCE_LIMIT, ACCOUNT_LANE_UNIT
  <2>5. in.old.nonce \in Nonces
    BY <2>3, <2>4 DEF Nonces
  <2> HIDE DEF game, account
  <2>6. compute_new_nonce(in.old.nonce, game, account) \in Nonces
    BY <2>1, <2>2, <2>5, BumpOneLane
  <2>7. new_nonce(in) \in Nonces
    BY <2>6 DEF new_nonce, game, account
  <2> QED BY <2>4, <2>7 DEF Nonces, is_canonical
<1>5. /\ all_canonical(new_seed_hash(in))
      /\ all_canonical(new_pk_hash(in))
  BY <1>1, Screened DEF new_seed_hash, new_pk_hash
<1>6. all_canonical(new_address_hash(in))
  <2>1. in.req.user_address \in Addresses
    BY InputAssumption
  <2>2. address_hash(in.req.user_address) # NonCanonical
    BY <2>1, IdentityHashAssumption DEF address_hash, AddressHashes
  <2> QED BY <1>1, <2>2, Screened DEF new_address_hash, all_canonical
<1>7. LET groups == <<new_seed_hash(in), new_pk_hash(in), new_address_hash(in)>>
      IN \A i \in DOMAIN groups : all_canonical(groups[i])
  BY <1>5, <1>6
<1> QED BY <1>3, <1>4, <1>7 DEF leaf_defined, poseidon2_defined, new_account

\* Every call returns, when every call before it returned Ok.
LEMMA CallsAreDefined ==
    ASSUME NEW candidate \in Inputs, NEW k \in 1 .. 24, PassedBefore(k, candidate.in)
    PROVE  Defined(Stages[k], candidate.in)
<1> DEFINE in == candidate.in
<1>1. CASE k \in {6, 16, 17, 18, 20, 21, 24}
  <2>1. /\ check_field_canonicity(in) = Ok
        /\ check_amount_canonicity(in) = Ok
        /\ check_stored_allowance_range(in) = Ok
    BY <1>1, ScreenedBeforeHashing
  <2>2. /\ is_canonical(in.old.nonce)
        /\ is_canonical(in.req.amount) /\ is_canonical(in.req.win_amount)
        /\ packable(in.old.provider_allowance)
        /\ path_defined(in)
    BY <2>1, Screened
  <2>3. /\ all_canonical(in.req.server_seed) /\ all_canonical(in.req.user_seed)
        /\ all_canonical(in.old.seed_hash) /\ all_canonical(in.old.pk_hash)
        /\ all_canonical(in.old.address_hash) /\ all_canonical(in.req.prediction_hash)
        /\ all_canonical(in.req.user_secret_random)
    BY <2>1, Screened
  <2>4. CASE k = 6
    <3>1. Stages[6] = "verify_current_root"
      BY DEF Stages
    <3>2. leaf_defined(in.old)
      BY <2>2, <2>3 DEF leaf_defined, poseidon2_defined
    <3> QED BY <2>2, <2>4, <3>1, <3>2 DEF Defined
  <2>5. CASE k \in {16, 17, 18}
    <3>1. /\ Stages[16] = "check_seed_chain" /\ Stages[17] = "check_crash_commit"
          /\ Stages[18] = "check_user_seed"
      BY DEF Stages
    <3>2. /\ poseidon2_defined(<<in.req.server_seed>>)
          /\ poseidon2_defined(<<in.req.prediction_hash, in.req.user_secret_random>>)
      BY <2>3 DEF poseidon2_defined
    <3> QED BY <2>2, <2>5, <3>1, <3>2 DEF Defined
  <2>6. CASE k = 20
    <3>1. Stages[20] = "verify_payout"
      BY DEF Stages
    <3>2. poseidon2_defined(<<in.req.server_seed, in.req.user_seed,
                              in.req.user_secret_random>>)
      BY <2>3 DEF poseidon2_defined
    <3>3. valid_game_params(in) => payout_defined(in)
      BY InputAssumption, GamesAreScreened
    <3> QED BY <2>6, <3>1, <3>2, <3>3 DEF Defined
  <2>7. CASE k = 21
    <3>1. Stages[21] = "slot_h"
      BY DEF Stages
    <3>2. poseidon2_defined(<<in.req.server_seed, in.req.prediction_hash>>)
      BY <2>3 DEF poseidon2_defined
    <3> QED BY <2>2, <2>7, <3>1, <3>2 DEF Defined
  <2>8. CASE k = 24
    <3>1. Stages[24] = "compute_new_root"
      BY DEF Stages
    <3> QED BY <2>2, <2>8, <3>1, NewLeafIsDefined DEF Defined
  <2> QED BY <1>1, <2>4, <2>5, <2>6, <2>7, <2>8
<1>2. CASE k \notin {6, 16, 17, 18, 20, 21, 24}
  <2>1. Stages[k] \notin {"verify_current_root", "check_seed_chain", "check_crash_commit",
                          "check_user_seed", "verify_payout", "slot_h", "compute_new_root"}
    BY <1>2 DEF Stages
  <2> QED BY <2>1 DEF Defined
<1> QED BY <1>1, <1>2

(***************************************************************************)
(* The verdict.                                                            *)
(***************************************************************************)
\* What a chain of two checks comes to.
LEMMA ChainValue ==
    ASSUME NEW v, NEW w
    PROVE  /\ v = Ok => (v ?? w) = w
           /\ v # Ok => (v ?? w) = v
  BY DEF ??

\* The verdict of Slot is the first result, in the order of the calls, that is
\* not Ok: fairness is skipped as a block there and call by call here.
LEMMA VerdictIsFirstRejection ==
    ASSUME NEW in
    PROVE  validate_slot(in) =
        (Result(Stages[1], in) ?? Result(Stages[2], in) ?? Result(Stages[3], in) ??
         Result(Stages[4], in) ?? Result(Stages[5], in) ?? Result(Stages[6], in) ??
         Result(Stages[7], in) ?? Result(Stages[8], in) ?? Result(Stages[9], in) ??
         Result(Stages[10], in) ?? Result(Stages[11], in) ?? Result(Stages[12], in) ??
         Result(Stages[13], in) ?? Result(Stages[14], in) ?? Result(Stages[15], in) ??
         Result(Stages[16], in) ?? Result(Stages[17], in) ?? Result(Stages[18], in) ??
         Result(Stages[19], in) ?? Result(Stages[20], in) ?? Result(Stages[21], in) ??
         Result(Stages[22], in) ?? Result(Stages[23], in) ?? Result(Stages[24], in))
<1>0. /\ Stages[1] = "check_tx_type"
      /\ Stages[2] = "check_field_canonicity"
      /\ Stages[3] = "check_amount_canonicity"
      /\ Stages[4] = "check_stored_allowance_range"
      /\ Stages[5] = "check_user_id_range"
      /\ Stages[6] = "verify_current_root"
      /\ Stages[7] = "check_tl_chain"
      /\ Stages[8] = "check_house_account"
      /\ Stages[9] = "build_balance_changes"
      /\ Stages[10] = "compute_new_allowance"
      /\ Stages[11] = "risk_reject_floor"
      /\ Stages[12] = "build_address"
      /\ Stages[13] = "check_recipient_binding"
      /\ Stages[14] = "check_auth"
      /\ Stages[15] = "compute_new_nonce"
      /\ Stages[16] = "check_seed_chain"
      /\ Stages[17] = "check_crash_commit"
      /\ Stages[18] = "check_user_seed"
      /\ Stages[19] = "verify_prediction_hash"
      /\ Stages[20] = "verify_payout"
      /\ Stages[21] = "slot_h"
      /\ Stages[22] = "check_new_seed"
      /\ Stages[23] = "compute_new_tl"
      /\ Stages[24] = "compute_new_root"
  BY DEF Stages
<1>1. /\ Result("check_tx_type", in) = check_tx_type(in)
      /\ Result("check_field_canonicity", in) = check_field_canonicity(in)
      /\ Result("check_amount_canonicity", in) = check_amount_canonicity(in)
      /\ Result("check_stored_allowance_range", in) = check_stored_allowance_range(in)
      /\ Result("check_user_id_range", in) = check_user_id_range(in)
      /\ Result("verify_current_root", in) = verify_current_root(in)
      /\ Result("check_tl_chain", in) = check_tl_chain(in)
      /\ Result("check_house_account", in) = check_house_account(in)
      /\ Result("build_balance_changes", in) = build_balance_changes(in)
      /\ Result("compute_new_allowance", in) = compute_new_allowance(in)
      /\ Result("risk_reject_floor", in) = risk_reject_floor(in)
      /\ Result("build_address", in) = build_address(in)
      /\ Result("check_recipient_binding", in) = check_recipient_binding(in)
      /\ Result("check_auth", in) = check_auth(in)
      /\ Result("compute_new_nonce", in) = check_new_nonce(in)
  BY DEF Result
<1>2. /\ Result("slot_h", in) = Ok
      /\ Result("check_new_seed", in) = check_new_seed(in)
      /\ Result("compute_new_tl", in) = compute_new_tl(in)
      /\ Result("compute_new_root", in) = Ok
  BY DEF Result
<1>3. CASE is_played(in)
  <2>1. /\ Result("check_seed_chain", in) = check_seed_chain(in)
        /\ Result("check_crash_commit", in) = check_crash_commit(in)
        /\ Result("check_user_seed", in) = check_user_seed(in)
        /\ Result("verify_prediction_hash", in) = verify_prediction_hash(in)
        /\ Result("verify_payout", in) = verify_payout(in, game_random(in))
    BY <1>3 DEF Result
  <2> QED BY <1>0, <1>1, <1>2, <1>3, <2>1, ChainValue
          DEF validate_slot, compute_effects, check_fairness, is_played
<1>4. CASE ~is_played(in)
  <2>1. /\ Result("check_seed_chain", in) = Ok
        /\ Result("check_crash_commit", in) = Ok
        /\ Result("check_user_seed", in) = Ok
        /\ Result("verify_prediction_hash", in) = Ok
        /\ Result("verify_payout", in) = Ok
    BY <1>4 DEF Result
  <2> QED BY <1>0, <1>1, <1>2, <1>4, <2>1, ChainValue
          DEF validate_slot, compute_effects, is_played
<1> QED BY <1>3, <1>4

\* A call that is reached and fails gives the verdict ...
LEMMA VerdictAtRejection ==
    ASSUME NEW in, NEW k \in 1 .. 24, PassedBefore(k, in), Result(Stages[k], in) # Ok
    PROVE  validate_slot(in) = Result(Stages[k], in)
<1>1. \A i \in 1 .. k - 1 : Result(Stages[i], in) = Ok
  BY DEF PassedBefore
<1> QED BY <1>1, VerdictIsFirstRejection, ChainValue

\* ... and when all pass, the slot is accepted.
LEMMA VerdictAtTheEnd ==
    ASSUME NEW in, PassedBefore(25, in)
    PROVE  validate_slot(in) = Ok
<1>1. \A i \in 1 .. 24 : Result(Stages[i], in) = Ok
  BY DEF PassedBefore
<1> QED BY <1>1, VerdictIsFirstRejection, ChainValue

\* No check returns what stands for a panic or for no verdict.
LEMMA ResultsAreVerdicts ==
    ASSUME NEW in, NEW k \in 1 .. 24
    PROVE  Result(Stages[k], in) \notin {Panic, Pending}
<1> DEFINE names == {"check_tx_type", "check_field_canonicity", "check_amount_canonicity",
                     "check_stored_allowance_range", "check_user_id_range",
                     "verify_current_root", "check_tl_chain", "check_house_account",
                     "build_balance_changes", "compute_new_allowance", "risk_reject_floor",
                     "build_address", "check_recipient_binding", "check_auth",
                     "compute_new_nonce", "check_seed_chain", "check_crash_commit",
                     "check_user_seed", "verify_prediction_hash", "verify_payout", "slot_h",
                     "check_new_seed", "compute_new_tl", "compute_new_root"}
           returns(v) == v \notin {Panic, Pending}
<1>1. Stages[k] \in names
  BY DEF Stages
<1>2. /\ returns(check_tx_type(in)) /\ returns(check_field_canonicity(in))
      /\ returns(check_amount_canonicity(in)) /\ returns(check_stored_allowance_range(in))
      /\ returns(check_user_id_range(in)) /\ returns(verify_current_root(in))
      /\ returns(check_tl_chain(in)) /\ returns(risk_reject_floor(in))
      /\ returns(build_address(in)) /\ returns(check_recipient_binding(in))
      /\ returns(check_auth(in)) /\ returns(check_new_nonce(in))
      /\ returns(check_seed_chain(in)) /\ returns(check_crash_commit(in))
      /\ returns(check_user_seed(in)) /\ returns(check_new_seed(in))
      /\ returns(compute_new_tl(in)) /\ returns(Ok)
  BY DEF check_tx_type, check_field_canonicity, check_amount_canonicity,
         check_stored_allowance_range, check_user_id_range, verify_current_root,
         check_tl_chain, risk_reject_floor, build_address, check_recipient_binding,
         check_auth, check_new_nonce, compute_new_nonce_check, check_seed_chain,
         check_crash_commit, check_user_seed, check_new_seed, compute_new_tl,
         Require, Ok, Panic, Pending
<1>3. /\ returns(check_house_account(in)) /\ returns(build_balance_changes(in))
      /\ returns(compute_new_allowance(in)) /\ returns(verify_prediction_hash(in))
      /\ returns(verify_payout(in, game_random(in)))
  BY ChainValue
     DEF check_house_account, build_balance_changes, compute_new_allowance,
         verify_prediction_hash, verify_payout, Require, Ok, Panic, Pending
<1> HIDE DEF returns
<1>4. returns(Result(Stages[k], in))
  BY <1>1, <1>2, <1>3 DEF Result
<1> QED BY <1>4 DEF returns

-----------------------------------------------------------------------------
\* Where the validation of an input stands.
PipelineInv ==
    /\ input \in Inputs
    /\ stage \in 1 .. 24
    /\ PassedBefore(stage, input.in)
    /\ verdict # Panic
    /\ verdict # Pending => validate_slot(input.in) = verdict

\* The current call returns, so that it is its result.
LEMMA CurrentCallReturns ==
    ASSUME PipelineInv
    PROVE  /\ CurrentCall = Result(Stages[stage], input.in)
           /\ CurrentCall \notin {Panic, Pending}
<1>1. /\ input \in Inputs /\ stage \in 1 .. 24 /\ PassedBefore(stage, input.in)
  BY DEF PipelineInv
<1>2. CurrentCall = Result(Stages[stage], input.in)
  BY <1>1, CallsAreDefined DEF CurrentCall, Call
<1> QED BY <1>1, <1>2, ResultsAreVerdicts

\* The calls that were passed all returned Ok.
LEMMA PipelineSafe == PipelineSpec => []PipelineInv
<1>1. PipelineInit => PipelineInv
  BY DEF PipelineInit, PipelineInv, PassedBefore, Pending, Panic
<1>2. PipelineInv /\ [PipelineNext]_pipeline_vars => PipelineInv'
  <2> SUFFICES ASSUME PipelineInv, [PipelineNext]_pipeline_vars
               PROVE  PipelineInv'
    OBVIOUS
  <2>1. /\ input \in Inputs /\ stage \in 1 .. 24
        /\ \A i \in 1 .. stage - 1 : Result(Stages[i], input.in) = Ok
    BY DEF PipelineInv, PassedBefore
  <2>2. /\ CurrentCall = Result(Stages[stage], input.in)
        /\ CurrentCall \notin {Panic, Pending}
    BY CurrentCallReturns
  <2>3. CASE Pass
    <3>1. /\ input' = input /\ verdict' = Pending
          /\ stage' = stage + 1 /\ stage' \in 1 .. 24
      BY <2>1, <2>3, StageCount DEF Pass
    <3>2. Result(Stages[stage], input.in) = Ok
      BY <2>2, <2>3 DEF Pass
    <3>3. \A i \in 1 .. stage : Result(Stages[i], input.in) = Ok
      BY <2>1, <3>2
    <3>4. stage' - 1 = stage
      BY <2>1, <3>1
    <3> QED BY <2>1, <3>1, <3>3, <3>4 DEF PipelineInv, PassedBefore, Pending, Panic
  <2>4. CASE Accept
    <3>1. /\ input' = input /\ stage' = stage /\ stage = 24 /\ verdict' = Ok
      BY <2>4, StageCount DEF Accept
    <3>2. Result(Stages[24], input.in) = Ok
      BY <2>2, <2>4, <3>1 DEF Accept
    <3>3. \A i \in 1 .. 24 : Result(Stages[i], input.in) = Ok
      BY <2>1, <3>1, <3>2
    <3>4. validate_slot(input.in) = Ok
      BY <3>3, VerdictAtTheEnd DEF PassedBefore
    <3> QED BY <2>1, <3>1, <3>4 DEF PipelineInv, PassedBefore, Ok, Panic
  <2>5. CASE Reject
    <3>1. /\ input' = input /\ stage' = stage /\ verdict' = CurrentCall
          /\ CurrentCall # Ok
      BY <2>5 DEF Reject
    <3>2. validate_slot(input.in) = CurrentCall
      BY <2>1, <2>2, <3>1, VerdictAtRejection DEF PassedBefore
    <3> QED BY <2>1, <2>2, <3>1, <3>2 DEF PipelineInv, PassedBefore
  <2>6. CASE UNCHANGED pipeline_vars
    BY <2>6 DEF PipelineInv, PassedBefore, pipeline_vars
  <2> QED BY <2>3, <2>4, <2>5, <2>6 DEF PipelineNext, Return
<1> QED BY <1>1, <1>2, PTL DEF PipelineSpec

\* Whatever is deserialized, at any width, no call panics: each hash, the
\* packing, the keno table and the replay sit behind the checks they need
\* (fairness.rs, sorted_keno_picks; lib.rs, check_field_canonicity).
THEOREM NoCallPanicsCorrect == PipelineSpec => []NoCallPanics
<1>1. PipelineInv => NoCallPanics
  BY DEF PipelineInv, NoCallPanics
<1> QED BY <1>1, PipelineSafe, PTL

-----------------------------------------------------------------------------
(***************************************************************************)
(* One win per signed bet.                                                 *)
(***************************************************************************)
\* What the theorem takes for granted: a bet that is accepted reveals one of the
\* seeds (nobody inverts a commitment), and ...
RevealsSeed ==
    \A candidate \in Inputs :
        /\ validate_slot(candidate.in) = Ok
        /\ candidate.in.req.tx_type = TX_IN_HOUSE_BET
        => candidate.in.req.server_seed \in Seeds

\* ... two blackjack rounds on one shoe, with the same actions and the same total
\* at stake, started from base bets that win the same (the game crate).
StakeFixesWin ==
    \A random, bet, shoe, actions, b, c :
        LET one == GameCore(BLACKJACK, random, bet, <<shoe, actions, b>>)
            two == GameCore(BLACKJACK, random, bet, <<shoe, actions, c>>)
        IN /\ one # NoPayout /\ two # NoPayout /\ one.staked = two.staked
           => one.win = two.win

\* What the acceptance of a bet says of its game.
LEMMA AcceptedBet ==
    ASSUME NEW in, validate_slot(in) = Ok, in.req.tx_type = TX_IN_HOUSE_BET
    PROVE  LET game == in.req.game
               payout == GameCore(game.game_id, game_random(in), in.req.amount,
                                  payout_args(in))
           IN /\ seed_hash_truncated(in.req.server_seed) = in.old.seed_hash
              /\ in.req.user_seed = user_seed_binding(game.game_id, in.req.amount,
                                         in.req.prediction_hash, in.req.user_secret_random)
              /\ expected_prediction_hash(game) = in.req.prediction_hash
              /\ valid_game_params(in)
              /\ pays(in, payout)
<1>1. is_ihb_or_crash(in.req.tx_type)
  BY DEF is_ihb_or_crash
<1>2. check_fairness(in) = Ok
  BY <1>1, AcceptedChecks
<1>3. /\ check_seed_chain(in) = Ok /\ check_user_seed(in) = Ok
      /\ verify_prediction_hash(in) = Ok /\ verify_payout(in, game_random(in)) = Ok
  BY <1>2, ChainOk DEF check_fairness
<1>4. /\ seed_hash_truncated(in.req.server_seed) = in.old.seed_hash
      /\ in.req.user_seed = user_seed_binding(in.req.game.game_id, in.req.amount,
                                 in.req.prediction_hash, in.req.user_secret_random)
  BY <1>3 DEF check_seed_chain, check_user_seed, Require, Ok
<1>5. expected_prediction_hash(in.req.game) = in.req.prediction_hash
  BY <1>3, ChainOk DEF verify_prediction_hash, Require, Ok
<1>6. /\ valid_game_params(in)
      /\ pays(in, GameCore(in.req.game.game_id, game_random(in), in.req.amount,
                           payout_args(in)))
  BY <1>3, ChainOk DEF verify_payout, Require, Ok
<1> QED BY <1>4, <1>5, <1>6

\* Two accepted bets on one seed and one user seed win the same.
LEMMA OneWin ==
    ASSUME StakeFixesWin, NEW one, NEW two,
           validate_slot(one) = Ok, one.req.tx_type = TX_IN_HOUSE_BET,
           validate_slot(two) = Ok, two.req.tx_type = TX_IN_HOUSE_BET,
           one.req.server_seed \in Seeds, two.req.server_seed \in Seeds,
           one.req.user_seed = two.req.user_seed,
           one.old.seed_hash = two.old.seed_hash
    PROVE  one.req.win_amount = two.req.win_amount
<1> DEFINE payout(in) == GameCore(in.req.game.game_id, game_random(in), in.req.amount,
                                  payout_args(in))
<1>1. /\ one.req.game.game_id = two.req.game.game_id
      /\ one.req.amount = two.req.amount
      /\ one.req.prediction_hash = two.req.prediction_hash
      /\ one.req.user_secret_random = two.req.user_secret_random
  <2>1. /\ one.req.user_seed = user_seed_binding(one.req.game.game_id, one.req.amount,
                   one.req.prediction_hash, one.req.user_secret_random)
        /\ two.req.user_seed = user_seed_binding(two.req.game.game_id, two.req.amount,
                   two.req.prediction_hash, two.req.user_secret_random)
    BY AcceptedBet
  <2>2. \A in : LET seed == user_seed_binding(in.req.game.game_id, in.req.amount,
                          in.req.prediction_hash, in.req.user_secret_random)
               IN /\ seed.game_id = in.req.game.game_id /\ seed.bet = in.req.amount
                  /\ seed.prediction_hash = in.req.prediction_hash
                  /\ seed.user_secret = in.req.user_secret_random
    BY DEF user_seed_binding
  <2> QED BY <2>1, <2>2
<1>2. one.req.server_seed = two.req.server_seed
  BY AcceptedBet, SeedHashAssumption DEF seed_hash_truncated
<1>3. game_random(one) = game_random(two)
  BY <1>2 DEF game_random
<1>4. /\ expected_prediction_hash(one.req.game) = expected_prediction_hash(two.req.game)
      /\ valid_game_params(one) /\ valid_game_params(two)
      /\ pays(one, payout(one)) /\ pays(two, payout(two))
  BY <1>1, AcceptedBet
<1>5. CASE one.req.game.game_id = KENO
  <2>1. /\ one.req.game.game_mode = two.req.game.game_mode
        /\ sorted_picks(one.req.game) = sorted_picks(two.req.game)
    BY <1>1, <1>4, <1>5 DEF expected_prediction_hash, prediction_hash_keno
  <2>2. payout_args(one) = payout_args(two)
    BY <1>1, <1>5, <2>1
       DEF payout_args, KENO, CRASH, LIMBO, DICE, PLINKO, COINFLIP, BLACKJACK
  <2>3. payout(one) = payout(two)
    BY <1>1, <1>3, <2>2
  <2> QED BY <1>4, <2>3 DEF pays
<1>6. CASE one.req.game.game_id # KENO
  <2>1. /\ one.req.game.game_mode = two.req.game.game_mode
        /\ one.req.game.prediction_lo = two.req.game.prediction_lo
        /\ one.req.game.prediction_hi = two.req.game.prediction_hi
    BY <1>1, <1>4, <1>6 DEF expected_prediction_hash, prediction_hash_standard
  <2>2. CASE one.req.game.game_id \in {CRASH, LIMBO, DICE, PLINKO, COINFLIP}
    <3>1. payout_args(one) = payout_args(two)
      BY <1>1, <2>1, <2>2
         DEF payout_args, KENO, CRASH, LIMBO, DICE, PLINKO, COINFLIP, BLACKJACK
    <3>2. payout(one) = payout(two)
      BY <1>1, <1>3, <3>1
    <3> QED BY <1>4, <3>2 DEF pays
  <2>3. CASE one.req.game.game_id = BLACKJACK
    <3> DEFINE shoe == unfold_shoe(one.req.server_seed, one.req.user_secret_random)
               actions == actions_of(one.req.game)
    <3>1. /\ payout_args(one) = <<shoe, actions, one.req.game.base_bet>>
          /\ payout_args(two) = <<shoe, actions, two.req.game.base_bet>>
      BY <1>1, <1>2, <2>1, <2>3
         DEF payout_args, actions_of, KENO, CRASH, LIMBO, DICE, PLINKO, COINFLIP, BLACKJACK
    <3>2. /\ payout(one) # NoPayout /\ payout(two) # NoPayout
          /\ payout(one).staked = payout(two).staked
          /\ payout(one).win = one.req.win_amount
          /\ payout(two).win = two.req.win_amount
      BY <1>1, <1>4, <2>3 DEF pays
    <3>3. /\ payout(one) = GameCore(BLACKJACK, game_random(one), one.req.amount,
                                    <<shoe, actions, one.req.game.base_bet>>)
          /\ payout(two) = GameCore(BLACKJACK, game_random(one), one.req.amount,
                                    <<shoe, actions, two.req.game.base_bet>>)
      BY <1>1, <1>3, <2>3, <3>1
    <3> HIDE DEF shoe, actions, payout
    <3> QED BY <3>2, <3>3 DEF StakeFixesWin
  <2>4. CASE one.req.game.game_id \notin
                 {CRASH, LIMBO, DICE, PLINKO, COINFLIP, BLACKJACK, KENO}
    BY <1>4, <2>4
       DEF valid_game_params, KENO, CRASH, LIMBO, DICE, PLINKO, COINFLIP, BLACKJACK
  <2> QED BY <1>6, <2>2, <2>3, <2>4
<1> QED BY <1>5, <1>6

\* Whatever an operator may complete a signed bet with, one win can be settled
\* (fairness.rs, check_fairness; hash.rs, user_seed_binding), given that bets
\* reveal seeds and that a blackjack stake fixes its win.
THEOREM OneWinCorrect ==
    ASSUME RevealsSeed, StakeFixesWin
    PROVE  PipelineSpec => []OneWinPerSignedBet
<1>1. PipelineInv => OneWinPerSignedBet
  <2> SUFFICES ASSUME PipelineInv, verdict = Ok, input.in.req.tx_type = TX_IN_HOUSE_BET,
                      NEW other \in Inputs,
                      other.in.req.tx_type = TX_IN_HOUSE_BET,
                      other.in.req.user_seed = input.in.req.user_seed,
                      other.in.old.seed_hash = input.in.old.seed_hash,
                      validate_slot(other.in) = Ok
               PROVE  other.in.req.win_amount = input.in.req.win_amount
    BY DEF OneWinPerSignedBet
  <2>1. input \in Inputs /\ validate_slot(input.in) = Ok
    BY DEF PipelineInv, Ok, Pending
  <2> QED BY <2>1, OneWin DEF RevealsSeed
<1> QED BY <1>1, PipelineSafe, PTL

-----------------------------------------------------------------------------
(***************************************************************************)
(* A slot is rejected for what is wrong with it.                           *)
(***************************************************************************)
\* What the types of SlotInput leave of an input: its fields, a proof in a tree of
\* Users, and numbers that are not negative.
Shaped(in) ==
    /\ in = [req |-> in.req, old |-> in.old, main_siblings |-> in.main_siblings,
             old_total_liability |-> in.old_total_liability,
             current_root |-> in.current_root, current_tl |-> in.current_tl]
    /\ in.req = [tx_type |-> in.req.tx_type, user_id |-> in.req.user_id,
                 amount |-> in.req.amount, win_amount |-> in.req.win_amount,
                 server_seed |-> in.req.server_seed, user_seed |-> in.req.user_seed,
                 next_server_seed_hash |-> in.req.next_server_seed_hash,
                 new_pk_hash |-> in.req.new_pk_hash,
                 user_address |-> in.req.user_address,
                 recipient_addr_hash |-> in.req.recipient_addr_hash,
                 game |-> in.req.game, prediction_hash |-> in.req.prediction_hash,
                 user_secret_random |-> in.req.user_secret_random,
                 crash_seed_hash |-> in.req.crash_seed_hash]
    /\ in.req.game = [game_id |-> in.req.game.game_id, game_mode |-> in.req.game.game_mode,
                      prediction_lo |-> in.req.game.prediction_lo,
                      prediction_hi |-> in.req.game.prediction_hi,
                      base_bet |-> in.req.game.base_bet,
                      keno_selected |-> in.req.game.keno_selected]
    /\ in.old = [balance |-> in.old.balance, deposit_credit |-> in.old.deposit_credit,
                 nonce |-> in.old.nonce, provider_allowance |-> in.old.provider_allowance,
                 seed_hash |-> in.old.seed_hash, pk_hash |-> in.old.pk_hash,
                 address_hash |-> in.old.address_hash]
    /\ in.main_siblings = [u \in Users |-> in.main_siblings[u]]
    /\ in.req.user_id \in Nat
    /\ in.old.balance \in U64 /\ in.old.provider_allowance \in Nat
    /\ in.current_tl \in Nat

\* The input passes the checks before compute_effects, the witness against the
\* block's root and total among them; its effects may be in order or not.
ReachesEffects(in) ==
    /\ check_tx_type(in) = Ok /\ check_field_canonicity(in) = Ok
    /\ check_amount_canonicity(in) = Ok /\ check_stored_allowance_range(in) = Ok
    /\ check_user_id_range(in) = Ok /\ verify_current_root(in) = Ok
    /\ check_tl_chain(in) = Ok

\* A group that is not canonical fails the check of the groups, whichever it is.
LEMMA NonCanonicalGroup ==
    ASSUME NEW in,
           \/ NonCanonical \in {in.req.server_seed, in.req.user_seed, in.old.seed_hash,
                                in.req.next_server_seed_hash, in.old.pk_hash,
                                in.req.new_pk_hash, in.old.address_hash,
                                in.req.prediction_hash, in.req.user_secret_random}
           \/ ~is_canonical(in.old.nonce)
           \/ \E u \in DOMAIN in.main_siblings : in.main_siblings[u] = NonCanonical
    PROVE  check_field_canonicity(in) = "FieldNotCanonical"
<1>1. CASE \E u \in DOMAIN in.main_siblings : in.main_siblings[u] = NonCanonical
  BY <1>1 DEF check_field_canonicity, all_canonical, Require
<1>2. CASE ~is_canonical(in.old.nonce)
  BY <1>2 DEF check_field_canonicity, Require
<1>3. CASE NonCanonical \in {in.req.server_seed, in.req.user_seed, in.old.seed_hash,
                             in.req.next_server_seed_hash, in.old.pk_hash,
                             in.req.new_pk_hash, in.old.address_hash,
                             in.req.prediction_hash, in.req.user_secret_random}
  <2> DEFINE groups == <<in.req.server_seed, in.req.user_seed, in.old.seed_hash,
                         in.req.next_server_seed_hash, in.old.pk_hash,
                         in.req.new_pk_hash, in.old.address_hash,
                         in.req.prediction_hash, in.req.user_secret_random>>
  <2>1. \A i \in 1 .. 9 : i \in DOMAIN groups
    OBVIOUS
  <2>2. NonCanonical \in {groups[1], groups[2], groups[3], groups[4], groups[5],
                          groups[6], groups[7], groups[8], groups[9]}
    BY <1>3
  <2>3. \E i \in 1 .. 9 : groups[i] = NonCanonical
    <3> HIDE DEF groups
    <3> QED BY <2>2
  <2>4. \E i \in DOMAIN groups : groups[i] = NonCanonical
    BY <2>1, <2>3
  <2> QED BY <2>4 DEF check_field_canonicity, all_canonical, Require
<1> QED BY <1>1, <1>2, <1>3

\* Another balance is another leaf.
LEMMA LeafPinsBalance ==
    ASSUME NEW b \in U64, NEW c \in U64, b # c, NEW a \in Allowances
    PROVE  pack_balance_fields(b, a) # pack_balance_fields(c, a)
  BY UnpackOfPack

\* An unknown type, and a limb that is not canonical, wherever it is.
LEMMA TypeAndLimbs ==
    ASSUME NEW in, Shaped(in), ReachesEffects(in),
           NEW bad \in bad_tx_type(in) \cup non_canonical_field_limb(in)
    PROVE  validate_slot(bad.in) = bad.flaw
<1>1. CASE bad \in bad_tx_type(in)
  <2>1. /\ bad.in = [in EXCEPT !.req.tx_type = MAX_TX_TYPE + 1] /\ bad.flaw = "BadTxType"
    BY <1>1 DEF bad_tx_type, Spoiled
  <2>2. bad.in.req.tx_type = MAX_TX_TYPE + 1
    BY <2>1 DEF Shaped
  <2>3. check_tx_type(bad.in) = "BadTxType"
    BY <2>2 DEF check_tx_type, Require, MAX_TX_TYPE
  <2> QED BY <2>1, <2>3, ChainValue DEF validate_slot, Ok
<1>2. CASE bad \in non_canonical_field_limb(in)
  <2> DEFINE x == bad.in
  <2>1. /\ bad.flaw = "FieldNotCanonical"
        /\ x \in {[in EXCEPT !.req.server_seed = NonCanonical],
                  [in EXCEPT !.req.user_seed = NonCanonical],
                  [in EXCEPT !.req.next_server_seed_hash = NonCanonical],
                  [in EXCEPT !.req.new_pk_hash = NonCanonical],
                  [in EXCEPT !.req.prediction_hash = NonCanonical],
                  [in EXCEPT !.req.user_secret_random = NonCanonical],
                  [in EXCEPT !.old.seed_hash = NonCanonical],
                  [in EXCEPT !.old.pk_hash = NonCanonical],
                  [in EXCEPT !.old.address_hash = NonCanonical],
                  [in EXCEPT !.old.nonce = GOLDILOCKS_P],
                  [in EXCEPT !.main_siblings[0] = NonCanonical]}
    BY <1>2 DEF non_canonical_field_limb
  <2>2. 0 \in DOMAIN in.main_siblings /\ ~is_canonical(GOLDILOCKS_P)
    BY TreeAssumption, WordAssumption DEF Shaped, Users, is_canonical
  <2>3. x.req.tx_type = in.req.tx_type
    BY <2>1 DEF Shaped
  <2>4. \/ NonCanonical \in {x.req.server_seed, x.req.user_seed, x.old.seed_hash,
                             x.req.next_server_seed_hash, x.old.pk_hash,
                             x.req.new_pk_hash, x.old.address_hash,
                             x.req.prediction_hash, x.req.user_secret_random}
        \/ ~is_canonical(x.old.nonce)
        \/ \E u \in DOMAIN x.main_siblings : x.main_siblings[u] = NonCanonical
    <3>1. CASE x = [in EXCEPT !.main_siblings[0] = NonCanonical]
      <4>1. 0 \in DOMAIN x.main_siblings /\ x.main_siblings[0] = NonCanonical
        BY <2>2, <3>1 DEF Shaped
      <4> QED BY <4>1
    <3>2. CASE x # [in EXCEPT !.main_siblings[0] = NonCanonical]
      BY <2>1, <2>2, <3>2 DEF Shaped
    <3> QED BY <3>1, <3>2
  <2>5. check_field_canonicity(x) = "FieldNotCanonical"
    <3> HIDE DEF x
    <3> QED BY <2>4, NonCanonicalGroup
  <2>6. check_tx_type(x) = Ok
    BY <2>3 DEF ReachesEffects, check_tx_type
  <2> QED BY <2>1, <2>5, <2>6, ChainValue DEF validate_slot, Ok
<1> QED BY <1>1, <1>2

\* A number of the request or of the witness that is too large.
LEMMA Widths ==
    ASSUME NEW in, Shaped(in), ReachesEffects(in),
           NEW bad \in non_canonical_amount(in) \cup stored_allowance_above_62_bits(in)
                          \cup user_id_out_of_range(in)
    PROVE  validate_slot(bad.in) = bad.flaw
<1> DEFINE x == bad.in
<1>1. /\ x.req.tx_type = in.req.tx_type /\ x.old.nonce = in.old.nonce
      /\ x.main_siblings = in.main_siblings
      /\ x.req.server_seed = in.req.server_seed /\ x.req.user_seed = in.req.user_seed
      /\ x.old.seed_hash = in.old.seed_hash /\ x.old.pk_hash = in.old.pk_hash
      /\ x.req.next_server_seed_hash = in.req.next_server_seed_hash
      /\ x.req.new_pk_hash = in.req.new_pk_hash
      /\ x.old.address_hash = in.old.address_hash
      /\ x.req.prediction_hash = in.req.prediction_hash
      /\ x.req.user_secret_random = in.req.user_secret_random
  BY DEF Shaped, non_canonical_amount, stored_allowance_above_62_bits,
         user_id_out_of_range, Spoiled
<1>2. check_tx_type(x) = Ok /\ check_field_canonicity(x) = Ok
  BY <1>1 DEF ReachesEffects, check_tx_type, check_field_canonicity
<1>3. CASE bad \in non_canonical_amount(in)
  <2>1. /\ bad.flaw = "AmountNotCanonical"
        /\ x \in {[in EXCEPT !.req.amount = GOLDILOCKS_P],
                  [in EXCEPT !.req.win_amount = U64_MAX]}
    BY <1>3 DEF non_canonical_amount
  <2>2. x.req.amount = GOLDILOCKS_P \/ x.req.win_amount = U64_MAX
    BY <2>1 DEF Shaped
  <2>3. check_amount_canonicity(x) = "AmountNotCanonical"
    BY <2>2, WordAssumption DEF check_amount_canonicity, is_canonical, Require
  <2> QED BY <1>2, <2>1, <2>3, ChainValue DEF validate_slot, Ok
<1>4. CASE bad \in stored_allowance_above_62_bits(in) \cup user_id_out_of_range(in)
  <2>1. x.req.amount = in.req.amount /\ x.req.win_amount = in.req.win_amount
    BY <1>4 DEF Shaped, stored_allowance_above_62_bits, user_id_out_of_range, Spoiled
  <2>2. check_amount_canonicity(x) = Ok
    BY <2>1 DEF ReachesEffects, check_amount_canonicity
  <2>3. CASE bad \in stored_allowance_above_62_bits(in)
    <3>1. /\ bad.flaw = "ProviderAllowanceOverflow"
          /\ x = [in EXCEPT !.old.provider_allowance = PROVIDER_ALLOWANCE_MAX + 1]
      BY <2>3 DEF stored_allowance_above_62_bits, Spoiled
    <3>2. x.old.provider_allowance = PROVIDER_ALLOWANCE_MAX + 1
      BY <3>1 DEF Shaped
    <3>3. check_stored_allowance_range(x) = "ProviderAllowanceOverflow"
      BY <3>2, WordAssumption DEF check_stored_allowance_range, Require
    <3> QED BY <1>2, <2>2, <3>1, <3>3, ChainValue DEF validate_slot, Ok
  <2>4. CASE bad \in user_id_out_of_range(in)
    <3>1. /\ bad.flaw = "UserIdOutOfRange" /\ x = [in EXCEPT !.req.user_id = NumUsers]
      BY <2>4 DEF user_id_out_of_range, Spoiled
    <3>2. x.req.user_id = NumUsers /\ x.old = in.old
      BY <3>1 DEF Shaped
    <3>3. check_stored_allowance_range(x) = Ok
      BY <3>2 DEF ReachesEffects, check_stored_allowance_range
    <3>4. check_user_id_range(x) = "UserIdOutOfRange"
      BY <3>2, TreeAssumption DEF check_user_id_range, Require
    <3> QED BY <1>2, <2>2, <3>1, <3>3, <3>4, ChainValue DEF validate_slot, Ok
  <2> QED BY <1>4, <2>3, <2>4
<1> QED BY <1>3, <1>4

\* A witness of another state: another root, another balance, another total.
LEMMA StaleWitness ==
    ASSUME NEW in, Shaped(in), ReachesEffects(in),
           in.current_root[0] # Zero, in.old.balance < U64_MAX,
           NEW bad \in merkle_root_mismatch(in) \cup tl_chain_break(in)
    PROVE  validate_slot(bad.in) = bad.flaw
<1> DEFINE x == bad.in
           u == in.req.user_id
<1>1. /\ x.req = in.req /\ x.main_siblings = in.main_siblings
      /\ x.old.nonce = in.old.nonce /\ x.old.seed_hash = in.old.seed_hash
      /\ x.old.pk_hash = in.old.pk_hash /\ x.old.address_hash = in.old.address_hash
      /\ x.old.provider_allowance = in.old.provider_allowance
  BY DEF Shaped, merkle_root_mismatch, tl_chain_break, Spoiled
<1>2. /\ check_tx_type(x) = Ok /\ check_field_canonicity(x) = Ok
      /\ check_amount_canonicity(x) = Ok /\ check_stored_allowance_range(x) = Ok
      /\ check_user_id_range(x) = Ok
  BY <1>1 DEF ReachesEffects, check_tx_type, check_field_canonicity,
              check_amount_canonicity, check_stored_allowance_range, check_user_id_range
<1>3. u \in Users /\ 0 \in Users
  BY TreeAssumption DEF ReachesEffects, check_user_id_range, Shaped, Users, Require, Ok
<1>4. in.current_root = [in.main_siblings EXCEPT ![u] = main_leaf(in.old)]
  BY DEF ReachesEffects, verify_current_root, compute_root, root_from_leaf, Require, Ok
<1>5. DOMAIN in.main_siblings = Users
  BY DEF Shaped
<1>6. CASE x = [in EXCEPT !.current_root[0] = Zero] /\ bad.flaw = "MerkleRootMismatch"
  <2>1. x.old = in.old /\ x.current_root = [in.current_root EXCEPT ![0] = Zero]
    BY <1>6 DEF Shaped
  <2>2. x.current_root[0] = Zero
    BY <1>3, <1>4, <1>5, <2>1
  <2>3. compute_root(x.old, x.main_siblings, x.req.user_id) = in.current_root
    BY <1>1, <1>4, <2>1 DEF compute_root, root_from_leaf
  <2>4. verify_current_root(x) = "MerkleRootMismatch"
    BY <2>2, <2>3 DEF verify_current_root, Require
  <2> QED BY <1>2, <1>6, <2>4, ChainValue DEF validate_slot, Ok
<1>7. CASE x = [in EXCEPT !.old.balance = @ + 1] /\ bad.flaw = "MerkleRootMismatch"
  <2>1. x.old.balance = in.old.balance + 1 /\ x.current_root = in.current_root
    BY <1>7 DEF Shaped
  <2>2. in.old.balance \in U64 /\ x.old.balance \in U64 /\ x.old.balance # in.old.balance
    BY <2>1, WordAssumption DEF Shaped, U64
  <2>3. in.old.provider_allowance \in Allowances
    BY WordAssumption
       DEF ReachesEffects, check_stored_allowance_range, Shaped, Allowances, Require, Ok
  <2>4. main_leaf(x.old).balance_hash.packed # main_leaf(in.old).balance_hash.packed
    BY <1>1, <2>2, <2>3, LeafPinsBalance DEF main_leaf, balance_leaf
  <2>5. compute_root(x.old, x.main_siblings, x.req.user_id)[u] = main_leaf(x.old)
    BY <1>1, <1>3, <1>5 DEF compute_root, root_from_leaf
  <2>6. x.current_root[u] = main_leaf(in.old)
    BY <1>3, <1>4, <1>5, <2>1
  <2>7. verify_current_root(x) = "MerkleRootMismatch"
    BY <2>4, <2>5, <2>6 DEF verify_current_root, Require
  <2> QED BY <1>2, <1>7, <2>7, ChainValue DEF validate_slot, Ok
<1>8. CASE bad \in tl_chain_break(in)
  <2>1. /\ bad.flaw = "TlOverflow"
        /\ x = [in EXCEPT !.old_total_liability = in.current_tl + 1]
    BY <1>8 DEF tl_chain_break, Spoiled
  <2>2. /\ x.old = in.old /\ x.current_root = in.current_root
        /\ x.old_total_liability = in.current_tl + 1 /\ x.current_tl = in.current_tl
    BY <2>1 DEF Shaped
  <2>3. verify_current_root(x) = Ok
    BY <1>1, <2>2 DEF ReachesEffects, verify_current_root
  <2>4. check_tl_chain(x) = "TlOverflow"
    <3>1. in.current_tl \in Nat
      BY DEF Shaped
    <3> QED BY <2>2, <3>1 DEF check_tl_chain, Require
  <2> QED BY <1>2, <2>1, <2>3, <2>4, ChainValue DEF validate_slot, Ok
<1> QED BY <1>6, <1>7, <1>8 DEF merkle_root_mismatch

\* An input that is corrupted after its witness was built is rejected for just that,
\* at any width and whatever else its effects would have been rejected for: no
\* check of the state is hidden behind another one.
THEOREM CorruptionIsRejected ==
    ASSUME NEW in, Shaped(in), ReachesEffects(in),
           in.current_root[0] # Zero, in.old.balance < U64_MAX,
           NEW bad \in Corruptions(in)
    PROVE  validate_slot(bad.in) = bad.flaw
  BY TypeAndLimbs, Widths, StaleWitness DEF Corruptions

-----------------------------------------------------------------------------
(***************************************************************************)
(* An effect that is refused is refused for its own reason.  A spoiled     *)
(* input is compared with the accepted one it was made from: every check   *)
(* before the one that bites reads what was left alone.                    *)
(***************************************************************************)
\* The spoilings that do not depend on what a game pays.
PlainSpoilings(in) ==
    house_account_bets(in) \cup set_init_seed_on_user_leaf(in) \cup over_balance(in)
    \cup above_allowance(in) \cup allowance_above_62_bits(in) \cup below_credit(in)
    \cup mismatched_address(in) \cup redirected(in) \cup unsigned_dest(in)
    \cup non_payout_recipient(in) \cup still_checks_auth(in) \cup lane_at_ceiling(in)
    \cup nonce_above_63_bits(in) \cup broken_seed_chain(in)
    \cup crash_wrong_seed_commit(in) \cup tampered_user_seed(in)
    \cup wrong_win_amount(in) \cup mismatched_game_mode(in) \cup zero_seed_commit(in)

\* The value a spoiling puts in is another one than the input had, and the balance
\* has room for a win of one more.
Telling(in) ==
    /\ in.req.amount \in Nat /\ in.req.win_amount \in Nat
    /\ in.old.deposit_credit \in Nat /\ in.old.nonce \in Nat
    /\ in.req.game.game_mode \in Nat
    /\ in.req.user_address \in Addresses /\ home \in Addresses
    /\ in.req.tx_type = TX_DEPOSIT => in.old.address_hash # address_hash(elsewhere)
    /\ in.req.tx_type = TX_WITHDRAWAL => in.req.user_address # home
    /\ in.req.tx_type = TX_BET => in.req.amount > 1
    /\ in.req.tx_type = TX_RISK_REJECT => in.old.deposit_credit > 0
    /\ is_ihb_or_crash(in.req.tx_type) =>
          /\ in.req.server_seed \in Seeds /\ next_server_seed \in Seeds
          /\ in.req.server_seed # next_server_seed /\ next_hash # NoCommitment
          /\ in.old.balance + in.req.win_amount < U64_MAX

\* Once the checks of the state have passed, the verdict is that of the effects.
LEMMA ReachedVerdict ==
    ASSUME NEW in, ReachesEffects(in)
    PROVE  validate_slot(in) = compute_effects(in)
  BY ChainValue DEF ReachesEffects, validate_slot

\* compute_effects in three parts: the money, who may do it, and what is played.
money_verdict(in) ==
    check_house_account(in) ?? build_balance_changes(in) ??
    compute_new_allowance(in) ?? risk_reject_floor(in)

identity_verdict(in) ==
    build_address(in) ?? check_recipient_binding(in) ?? check_auth(in) ??
    check_new_nonce(in)

fairness_verdict(in) == IF is_ihb_or_crash(in.req.tx_type) THEN check_fairness(in) ELSE Ok

\* The first part that is refused is what the slot is refused for.
LEMMA EffectsByPart ==
    ASSUME NEW x
    PROVE  /\ money_verdict(x) # Ok => compute_effects(x) = money_verdict(x)
           /\ money_verdict(x) = Ok /\ identity_verdict(x) # Ok =>
                 compute_effects(x) = identity_verdict(x)
           /\ money_verdict(x) = Ok /\ identity_verdict(x) = Ok =>
                 /\ fairness_verdict(x) # Ok => compute_effects(x) = fairness_verdict(x)
                 /\ fairness_verdict(x) = Ok /\ check_new_seed(x) # Ok =>
                       compute_effects(x) = check_new_seed(x)
  BY ChainValue DEF compute_effects, money_verdict, identity_verdict, fairness_verdict

\* An accepted slot passes all three.
LEMMA AcceptedParts ==
    ASSUME NEW in, validate_slot(in) = Ok
    PROVE  /\ money_verdict(in) = Ok /\ identity_verdict(in) = Ok
           /\ fairness_verdict(in) = Ok /\ check_new_seed(in) = Ok
  BY AcceptedChecks, ChainOk DEF money_verdict, identity_verdict, fairness_verdict

\* The money checks read the type, the user, the amounts and the balances.
LEMMA MoneyFrame ==
    ASSUME NEW in, NEW x,
           x.req.tx_type = in.req.tx_type, x.req.user_id = in.req.user_id,
           x.req.amount = in.req.amount, x.req.win_amount = in.req.win_amount,
           x.old.balance = in.old.balance, x.old.deposit_credit = in.old.deposit_credit,
           x.old.provider_allowance = in.old.provider_allowance
    PROVE  money_verdict(x) = money_verdict(in)
  BY DEF money_verdict, check_house_account, build_balance_changes,
         compute_new_allowance, risk_reject_floor, new_balance, credit_post_deposit,
         new_allowance, add_full, sub_full

\* The identity checks read the two addresses, the payout hash, the two keys and the
\* nonce.
LEMMA IdentityFrame ==
    ASSUME NEW in, NEW x,
           x.req.tx_type = in.req.tx_type, x.req.new_pk_hash = in.req.new_pk_hash,
           x.req.user_address = in.req.user_address,
           x.req.recipient_addr_hash = in.req.recipient_addr_hash,
           x.old.address_hash = in.old.address_hash, x.old.pk_hash = in.old.pk_hash,
           x.old.nonce = in.old.nonce
    PROVE  identity_verdict(x) = identity_verdict(in)
  BY DEF identity_verdict, build_address, check_recipient_binding, check_auth,
         check_new_nonce, is_account_signed, is_key_setter, is_addr_all_zero

\* An amount, an account or an allowance that is not the slot's to move.
LEMMA MoneySpoilings ==
    ASSUME NEW in, Shaped(in), Telling(in), validate_slot(in) = Ok,
           NEW bad \in house_account_bets(in) \cup set_init_seed_on_user_leaf(in)
                          \cup over_balance(in) \cup above_allowance(in)
                          \cup allowance_above_62_bits(in) \cup below_credit(in),
           ReachesEffects(commit(bad.in))
    PROVE  validate_slot(commit(bad.in)) = bad.flaw
<1> DEFINE x == commit(bad.in)
           t == in.req.tx_type
<1>1. SUFFICES money_verdict(x) = bad.flaw /\ bad.flaw # Ok
  BY ReachedVerdict, EffectsByPart
<1>2. /\ check_house_account(in) = Ok /\ build_balance_changes(in) = Ok
      /\ compute_new_allowance(in) = Ok /\ risk_reject_floor(in) = Ok
  BY AcceptedChecks
<1>3. CASE bad \in house_account_bets(in)
  <2>1. /\ bad.flaw = "InHouseBetOnAccountZero" /\ t = TX_IN_HOUSE_BET
        /\ bad.in = [in EXCEPT !.req.user_id = 0]
    BY <1>3 DEF house_account_bets, Spoiled, of_type
  <2>2. x.req.tx_type = t /\ x.req.user_id = 0
    BY <2>1 DEF Shaped, commit
  <2>3. check_house_account(x) = "InHouseBetOnAccountZero"
    BY <2>1, <2>2, ChainValue
       DEF check_house_account, Require, Ok, TX_IN_HOUSE_BET, TX_SET_INIT_SEED_HASH
  <2> QED BY <2>1, <2>3, ChainValue DEF money_verdict, Ok
<1>4. CASE bad \in set_init_seed_on_user_leaf(in)
  <2>1. /\ bad.flaw = "SetInitSeedNotAccountZero" /\ t = TX_SET_INIT_SEED_HASH
        /\ bad.in = [in EXCEPT !.req.user_id = user]
    BY <1>4 DEF set_init_seed_on_user_leaf, Spoiled, of_type
  <2>2. x.req.tx_type = t /\ x.req.user_id = 1
    BY <2>1 DEF Shaped, commit, user
  <2>3. check_house_account(x) = "SetInitSeedNotAccountZero"
    BY <2>1, <2>2, ChainValue DEF check_house_account, Require, Ok
  <2> QED BY <2>1, <2>3, ChainValue DEF money_verdict, Ok
<1>5. CASE bad \in over_balance(in)
  <2>1. /\ bad.flaw = "InsufficientBalance"
        /\ t \in {TX_WITHDRAWAL, TX_TRANSFER, TX_BET}
        /\ bad.in = [in EXCEPT !.req.amount = in.old.balance + 1]
    BY <1>5 DEF over_balance, Spoiled, of_type
  <2>2. /\ x.req.tx_type = t /\ x.req.user_id = in.req.user_id
        /\ x.req.amount = in.old.balance + 1 /\ x.old = in.old
    BY <2>1 DEF Shaped, commit
  <2>3. /\ is_user_sub(t) /\ ~is_user_add(t) /\ ~is_ihb_or_crash(t)
    BY <2>1 DEF is_user_sub, is_user_add, is_ihb_or_crash, TX_WITHDRAWAL, TX_TRANSFER,
                TX_BET, TX_DEPOSIT, TX_WIN, TX_BONUS, TX_REFERRAL, TX_IN_HOUSE_BET,
                TX_CRASH_SETTLE
  <2>4. in.old.balance \in Nat /\ in.old.balance <= U64_MAX
    BY WordAssumption DEF Shaped, U64
  <2>5. /\ add_full(x) = 0 /\ sub_full(x) = in.old.balance + 1
    BY <2>2, <2>3 DEF add_full, sub_full
  <2>6. build_balance_changes(x) = "InsufficientBalance"
    <3>1. in.old.balance + add_full(x) <= U64_MAX /\ ~(new_balance(x) >= 0)
      BY <2>2, <2>4, <2>5 DEF new_balance
    <3> QED BY <2>2, <3>1, ChainValue DEF build_balance_changes, Require, Ok
  <2>7. check_house_account(x) = Ok
    BY <1>2, <2>2 DEF check_house_account
  <2> QED BY <2>1, <2>6, <2>7, ChainValue DEF money_verdict, Ok
<1>6. CASE bad \in above_allowance(in)
  <2>1. /\ bad.flaw = "ProviderAllowanceExceeded" /\ t = TX_BET
        /\ bad.in = [in EXCEPT !.old.provider_allowance = 1]
    BY <1>6 DEF above_allowance, Spoiled, of_type
  <2>2. /\ x.req = in.req /\ x.old.provider_allowance = 1
        /\ x.old.balance = in.old.balance /\ x.old.deposit_credit = in.old.deposit_credit
    BY <2>1 DEF Shaped, commit
  <2>3. check_house_account(x) = Ok /\ build_balance_changes(x) = Ok
    BY <1>2, <2>2 DEF check_house_account, build_balance_changes, new_balance, add_full,
                      sub_full, credit_post_deposit
  <2>4. new_allowance(x) = 1 - in.req.amount
    BY <2>1, <2>2 DEF new_allowance, TX_BET, TX_SET_PROVIDER_ALLOWANCE
  <2>5. in.req.amount \in Nat /\ in.req.amount > 1
    BY <2>1 DEF Telling
  <2>6. x.old.provider_allowance <= PROVIDER_ALLOWANCE_MAX
    BY DEF ReachesEffects, check_stored_allowance_range, Require, Ok
  <2>7. compute_new_allowance(x) = "ProviderAllowanceExceeded"
    <3>1. ~(new_allowance(x) >= 0) /\ new_allowance(x) <= PROVIDER_ALLOWANCE_MAX
      BY <2>2, <2>4, <2>5, <2>6, WordAssumption
    <3> QED BY <2>6, <3>1, ChainValue DEF compute_new_allowance, Require, Ok
  <2> QED BY <2>1, <2>3, <2>7, ChainValue DEF money_verdict, Ok
<1>7. CASE bad \in allowance_above_62_bits(in)
  <2>1. /\ bad.flaw = "ProviderAllowanceOverflow" /\ t = TX_SET_PROVIDER_ALLOWANCE
        /\ bad.in = [in EXCEPT !.req.amount = PROVIDER_ALLOWANCE_MAX + 1]
    BY <1>7 DEF allowance_above_62_bits, Spoiled, of_type
  <2>2. /\ x.req.tx_type = t /\ x.req.user_id = in.req.user_id
        /\ x.req.amount = PROVIDER_ALLOWANCE_MAX + 1 /\ x.old = in.old
    BY <2>1 DEF Shaped, commit
  <2>3. ~is_user_sub(t) /\ ~is_user_add(t) /\ ~is_ihb_or_crash(t) /\ t # TX_DEPOSIT
    BY <2>1 DEF is_user_sub, is_user_add, is_ihb_or_crash, TX_WITHDRAWAL, TX_TRANSFER,
                TX_BET, TX_DEPOSIT, TX_WIN, TX_BONUS, TX_REFERRAL, TX_IN_HOUSE_BET,
                TX_CRASH_SETTLE, TX_RISK_REJECT, TX_SET_PROVIDER_ALLOWANCE
  <2>4. /\ add_full(x) = add_full(in) /\ sub_full(x) = sub_full(in)
        /\ credit_post_deposit(x) = credit_post_deposit(in)
    BY <2>2, <2>3 DEF add_full, sub_full, credit_post_deposit
  <2>5. check_house_account(x) = Ok /\ build_balance_changes(x) = Ok
    BY <1>2, <2>2, <2>4 DEF check_house_account, build_balance_changes, new_balance
  <2>6. compute_new_allowance(x) = "ProviderAllowanceOverflow"
    <3>1. new_allowance(x) = PROVIDER_ALLOWANCE_MAX + 1
      BY <2>1, <2>2 DEF new_allowance, TX_SET_PROVIDER_ALLOWANCE, TX_BET
    <3>2. ~(new_allowance(x) <= PROVIDER_ALLOWANCE_MAX)
      BY <3>1, WordAssumption
    <3> QED BY <3>2, ChainValue DEF compute_new_allowance, Require, Ok
  <2> QED BY <2>1, <2>5, <2>6, ChainValue DEF money_verdict, Ok
<1>8. CASE bad \in below_credit(in)
  <2>1. /\ bad.flaw = "RiskRejectBelowCredit" /\ t = TX_RISK_REJECT
        /\ bad.in = [in EXCEPT !.req.amount = in.old.balance]
    BY <1>8 DEF below_credit, Spoiled, of_type
  <2>2. /\ x.req.tx_type = t /\ x.req.user_id = in.req.user_id
        /\ x.req.amount = in.old.balance /\ x.old = in.old
    BY <2>1 DEF Shaped, commit
  <2>3. is_user_sub(t) /\ ~is_user_add(t) /\ ~is_ihb_or_crash(t) /\ t # TX_DEPOSIT
    BY <2>1 DEF is_user_sub, is_user_add, is_ihb_or_crash, TX_DEPOSIT, TX_WIN, TX_BONUS,
                TX_REFERRAL, TX_IN_HOUSE_BET, TX_CRASH_SETTLE, TX_RISK_REJECT
  <2>4. in.old.balance \in Nat /\ in.old.balance <= U64_MAX
    BY WordAssumption DEF Shaped, U64
  <2>5. add_full(x) = 0 /\ new_balance(x) = 0
    BY <2>2, <2>3, <2>4 DEF add_full, sub_full, new_balance
  <2>6. credit_post_deposit(x) = credit_post_deposit(in)
    BY <2>2, <2>3 DEF credit_post_deposit
  <2>7. credit_post_deposit(in) <= U64_MAX
    BY <1>2, ChainOk DEF build_balance_changes, Require, Ok
  <2>8. build_balance_changes(x) = Ok
    BY <2>2, <2>4, <2>5, <2>6, <2>7, ChainValue DEF build_balance_changes, Require, Ok
  <2>9. compute_new_allowance(x) = Ok /\ check_house_account(x) = Ok
    <3>1. new_allowance(x) = new_allowance(in)
      BY <2>1, <2>2 DEF new_allowance, TX_RISK_REJECT, TX_BET, TX_SET_PROVIDER_ALLOWANCE
    <3> QED BY <1>2, <2>2, <3>1 DEF compute_new_allowance, check_house_account
  <2>10. risk_reject_floor(x) = "RiskRejectBelowCredit"
    <3>1. in.old.deposit_credit \in Nat /\ in.old.deposit_credit > 0
      BY <2>1 DEF Telling
    <3> QED BY <2>1, <2>2, <2>5, <3>1 DEF risk_reject_floor, Require, Ok
  <2> QED BY <2>1, <2>8, <2>9, <2>10, ChainValue DEF money_verdict, Ok
<1> QED BY <1>3, <1>4, <1>5, <1>6, <1>7, <1>8

\* Another address, no signed address, no key, or a lane that is full.
LEMMA IdentitySpoilings ==
    ASSUME NEW in, Shaped(in), Telling(in), validate_slot(in) = Ok,
           NEW bad \in mismatched_address(in) \cup redirected(in) \cup unsigned_dest(in)
                          \cup non_payout_recipient(in) \cup still_checks_auth(in)
                          \cup lane_at_ceiling(in) \cup nonce_above_63_bits(in),
           ReachesEffects(commit(bad.in))
    PROVE  validate_slot(commit(bad.in)) = bad.flaw
<1> DEFINE x == commit(bad.in)
           t == in.req.tx_type
<1>1. /\ x.req.tx_type = t /\ x.req.user_id = in.req.user_id
      /\ x.req.amount = in.req.amount /\ x.req.win_amount = in.req.win_amount
      /\ x.req.new_pk_hash = in.req.new_pk_hash
      /\ x.old.balance = in.old.balance /\ x.old.deposit_credit = in.old.deposit_credit
      /\ x.old.provider_allowance = in.old.provider_allowance
      /\ x.old.address_hash = in.old.address_hash
  BY DEF Shaped, commit, Spoiled, mismatched_address, redirected, unsigned_dest,
         non_payout_recipient, still_checks_auth, lane_at_ceiling, nonce_above_63_bits
<1>2. money_verdict(x) = Ok
  BY <1>1, MoneyFrame, AcceptedParts
<1>3. SUFFICES identity_verdict(x) = bad.flaw /\ bad.flaw # Ok
  BY <1>2, ReachedVerdict, EffectsByPart
<1>4. /\ build_address(in) = Ok /\ check_recipient_binding(in) = Ok
      /\ check_auth(in) = Ok /\ check_new_nonce(in) = Ok
  BY AcceptedChecks
<1>5. in.req.recipient_addr_hash = recipient_addr_hash_for(t, in.req.user_address)
  BY <1>4 DEF check_recipient_binding, Require, Ok
<1>6. CASE bad \in mismatched_address(in)
  <2>1. /\ bad.flaw = "AddressHashMismatch" /\ t = TX_DEPOSIT /\ ~is_addr_all_zero(in)
        /\ bad.in = [in EXCEPT !.req.user_address = elsewhere]
    BY <1>6 DEF mismatched_address, Spoiled, of_type
  <2>2. x.req.user_address = elsewhere
    BY <2>1 DEF Shaped, commit
  <2>3. in.old.address_hash # address_hash(elsewhere) /\ ~is_addr_all_zero(x)
    BY <1>1, <2>1 DEF Telling, is_addr_all_zero
  <2>4. build_address(x) = "AddressHashMismatch"
    BY <1>1, <2>1, <2>2, <2>3 DEF build_address, Require
  <2> QED BY <2>1, <2>4, ChainValue DEF identity_verdict, Ok
<1>7. CASE bad \in redirected(in) \cup unsigned_dest(in) \cup non_payout_recipient(in)
  <2>1. /\ bad.flaw = "RecipientAddrHashMismatch"
        /\ t \in {TX_WITHDRAWAL, TX_TRANSFER, TX_SET_PROVIDER_ALLOWANCE}
    BY <1>7 DEF redirected, unsigned_dest, non_payout_recipient, Spoiled, of_type
  <2>2. build_address(x) = Ok
    BY <1>1, <2>1
       DEF build_address, Require, TX_WITHDRAWAL, TX_TRANSFER, TX_SET_PROVIDER_ALLOWANCE,
           TX_DEPOSIT
  <2>3. SUFFICES x.req.recipient_addr_hash # recipient_addr_hash_for(t, x.req.user_address)
    BY <1>1, <2>1, <2>2, ChainValue
       DEF identity_verdict, check_recipient_binding, Require, Ok
  <2>4. /\ home \in Addresses /\ in.req.user_address \in Addresses
        /\ t = TX_WITHDRAWAL => in.req.user_address # home
    BY DEF Telling
  <2>5. \A a \in Addresses : address_hash(a) \in AddressHashes /\ address_hash(a).lo # Zero
    BY IdentityHashAssumption DEF address_hash
  <2>6. CASE bad \in redirected(in)
    <3>1. t = TX_WITHDRAWAL /\ bad.in = [in EXCEPT !.req.user_address = home]
      BY <2>6 DEF redirected, Spoiled, of_type
    <3>2. /\ x.req.user_address = home
          /\ x.req.recipient_addr_hash = address_hash(in.req.user_address).lo
      BY <1>5, <3>1 DEF Shaped, commit, recipient_addr_hash_for
    <3>3. address_hash(in.req.user_address).lo # address_hash(home).lo
      BY <2>4, <3>1, IdentityHashAssumption DEF address_hash
    <3> QED BY <3>1, <3>2, <3>3 DEF recipient_addr_hash_for
  <2>7. CASE bad \in unsigned_dest(in)
    <3>1. t = TX_WITHDRAWAL /\ bad.in = [in EXCEPT !.req.recipient_addr_hash = Zero]
      BY <2>7 DEF unsigned_dest, Spoiled, of_type
    <3>2. x.req.user_address = in.req.user_address /\ x.req.recipient_addr_hash = Zero
      BY <3>1 DEF Shaped, commit
    <3> QED BY <2>4, <2>5, <3>1, <3>2 DEF recipient_addr_hash_for
  <2>8. CASE bad \in non_payout_recipient(in)
    <3>1. /\ t \in {TX_TRANSFER, TX_SET_PROVIDER_ALLOWANCE}
          /\ bad.in = [in EXCEPT !.req.recipient_addr_hash = address_hash(home).lo]
      BY <2>8 DEF non_payout_recipient, Spoiled, of_type
    <3>2. x.req.recipient_addr_hash = address_hash(home).lo
      BY <3>1 DEF Shaped, commit
    <3> QED BY <2>4, <2>5, <3>1, <3>2
            DEF recipient_addr_hash_for, TX_TRANSFER, TX_SET_PROVIDER_ALLOWANCE,
                TX_WITHDRAWAL
  <2> QED BY <1>7, <2>6, <2>7, <2>8
<1>8. CASE bad \in still_checks_auth(in) \cup lane_at_ceiling(in)
                   \cup nonce_above_63_bits(in)
  <2>1. /\ x.req.user_address = in.req.user_address
        /\ x.req.recipient_addr_hash = in.req.recipient_addr_hash
    BY <1>8 DEF Shaped, commit, Spoiled, still_checks_auth, lane_at_ceiling,
                nonce_above_63_bits
  <2>2. build_address(x) = Ok /\ check_recipient_binding(x) = Ok
    BY <1>1, <1>4, <2>1 DEF build_address, check_recipient_binding, is_addr_all_zero
  <2>3. CASE bad \in still_checks_auth(in)
    <3>1. /\ bad.flaw = "SignedWithoutPk" /\ is_authenticated(t)
          /\ bad.in = [in EXCEPT !.old.pk_hash = ZeroHash]
      BY <2>3 DEF still_checks_auth, Spoiled
    <3>2. x.old.pk_hash = ZeroHash
      BY <3>1 DEF Shaped, commit
    <3>3. check_auth(x) = "SignedWithoutPk"
      BY <1>1, <3>1, <3>2 DEF check_auth, Require
    <3> QED BY <2>2, <3>1, <3>3, ChainValue DEF identity_verdict, Ok
  <2>4. CASE bad \in lane_at_ceiling(in) \cup nonce_above_63_bits(in)
    <3>1. x.old.pk_hash = in.old.pk_hash /\ bad.flaw = "NonceLaneOverflow"
      BY <2>4 DEF Shaped, commit, Spoiled, lane_at_ceiling, nonce_above_63_bits
    <3>2. check_auth(x) = Ok
      BY <1>1, <1>4, <3>1 DEF check_auth
    <3>3. SUFFICES check_new_nonce(x) = "NonceLaneOverflow"
      BY <2>2, <3>1, <3>2, ChainValue DEF identity_verdict, Ok
    <3>4. is_account_signed(x) = is_account_signed(in)
      BY <1>1 DEF is_account_signed, is_key_setter
    <3>5. /\ ACCOUNT_LANE_UNIT \in Nat \ {0} /\ GAME_LANE_MAX = ACCOUNT_LANE_UNIT - 1
          /\ GAME_LANE_MAX \in Nat /\ ACCOUNT_LANE_MAX \in Nat
      BY LaneAssumption DEF ACCOUNT_LANE_UNIT
    <3>6. CASE is_game_lane(t) /\ x.old.nonce = join_nonce(1, GAME_LANE_MAX)
      <4>1. game_lane(x.old.nonce) = GAME_LANE_MAX
        <5>1. GAME_LANE_MAX \in 0 .. GAME_LANE_MAX
          BY <3>5
        <5>2. game_lane(join_nonce(1, GAME_LANE_MAX)) = GAME_LANE_MAX
          BY <5>1, SplitOfJoin
        <5> QED BY <3>6, <5>2
      <4> QED BY <1>1, <3>6, <4>1 DEF check_new_nonce, compute_new_nonce_check, Require
    <3>7. CASE is_account_signed(in) /\ x.old.nonce = join_nonce(ACCOUNT_LANE_MAX, 1)
      <4>1. CASE GAME_LANE_MAX = 0
        <5>1. ~(x.old.nonce < NONCE_LIMIT)
          BY <3>5, <3>7, <4>1 DEF join_nonce, NONCE_LIMIT
        <5> QED BY <5>1 DEF check_new_nonce, compute_new_nonce_check, Require
      <4>2. CASE GAME_LANE_MAX # 0
        <5>1. account_lane(x.old.nonce) = ACCOUNT_LANE_MAX
          <6>1. 1 \in 0 .. GAME_LANE_MAX
            BY <3>5, <4>2
          <6>2. account_lane(join_nonce(ACCOUNT_LANE_MAX, 1)) = ACCOUNT_LANE_MAX
            BY <3>5, <6>1, SplitOfJoin
          <6> QED BY <3>7, <6>2
        <5> QED BY <3>4, <3>7, <5>1 DEF check_new_nonce, compute_new_nonce_check, Require
      <4> QED BY <4>1, <4>2
    <3>8. CASE x.old.nonce = NONCE_LIMIT
      <4>1. ~(x.old.nonce < NONCE_LIMIT)
        BY <3>5, <3>8 DEF NONCE_LIMIT
      <4> QED BY <4>1 DEF check_new_nonce, compute_new_nonce_check, Require
    <3>9. \/ is_game_lane(t) /\ x.old.nonce = join_nonce(1, GAME_LANE_MAX)
          \/ is_account_signed(in) /\ x.old.nonce = join_nonce(ACCOUNT_LANE_MAX, 1)
          \/ x.old.nonce = NONCE_LIMIT
      BY <2>4 DEF Shaped, commit, Spoiled, lane_at_ceiling, nonce_above_63_bits
    <3> QED BY <3>6, <3>7, <3>8, <3>9
  <2> QED BY <1>8, <2>3, <2>4
<1> QED BY <1>6, <1>7, <1>8

\* What the bet reveals and binds; the win only shows in the payout.
LEMMA BindingFrame ==
    ASSUME NEW in, NEW x,
           x.req.tx_type = in.req.tx_type, x.req.server_seed = in.req.server_seed,
           x.req.amount = in.req.amount, x.req.game.game_id = in.req.game.game_id,
           x.req.prediction_hash = in.req.prediction_hash,
           x.req.user_secret_random = in.req.user_secret_random,
           x.req.crash_seed_hash = in.req.crash_seed_hash
    PROVE  /\ x.old.seed_hash = in.old.seed_hash =>
                 check_seed_chain(x) = check_seed_chain(in)
           /\ check_crash_commit(x) = check_crash_commit(in)
           /\ x.req.user_seed = in.req.user_seed => check_user_seed(x) = check_user_seed(in)
  BY DEF check_seed_chain, check_crash_commit, check_user_seed

\* A win of one more than a payable one can be credited.
LEMMA RoomForOneMore ==
    ASSUME NEW in, Shaped(in), Telling(in), is_ihb_or_crash(in.req.tx_type),
           money_verdict(in) = Ok,
           NEW x, x.req.tx_type = in.req.tx_type, x.req.user_id = in.req.user_id,
           x.req.amount = in.req.amount, x.req.win_amount = in.req.win_amount + 1,
           x.old = in.old
    PROVE  money_verdict(x) = Ok
<1> DEFINE t == in.req.tx_type
<1>1. /\ check_house_account(in) = Ok /\ build_balance_changes(in) = Ok
      /\ compute_new_allowance(in) = Ok /\ risk_reject_floor(in) = Ok
  BY ChainOk DEF money_verdict
<1>2. /\ ~is_user_add(t) /\ is_user_sub(t)
      /\ t \notin {TX_DEPOSIT, TX_RISK_REJECT, TX_BET, TX_SET_PROVIDER_ALLOWANCE}
  BY DEF is_user_add, is_user_sub, is_ihb_or_crash, TX_DEPOSIT, TX_WIN, TX_BONUS,
         TX_REFERRAL, TX_IN_HOUSE_BET, TX_CRASH_SETTLE, TX_RISK_REJECT, TX_BET,
         TX_SET_PROVIDER_ALLOWANCE
<1>3. /\ in.old.balance \in Nat /\ in.req.win_amount \in Nat /\ in.req.amount \in Nat
      /\ U64_MAX \in Nat /\ in.old.balance + in.req.win_amount < U64_MAX
  BY WordAssumption DEF Shaped, Telling, U64
<1>4. /\ add_full(x) = in.req.win_amount + 1 /\ add_full(in) = in.req.win_amount
      /\ sub_full(x) = in.req.amount /\ sub_full(in) = in.req.amount
      /\ credit_post_deposit(x) = credit_post_deposit(in)
  BY <1>2 DEF add_full, sub_full, credit_post_deposit
<1>5. /\ new_balance(in) >= 0 /\ credit_post_deposit(in) <= U64_MAX
  BY <1>1, ChainOk DEF build_balance_changes, Require, Ok
<1>6. /\ in.old.balance + add_full(x) <= U64_MAX /\ new_balance(x) >= 0
  BY <1>3, <1>4, <1>5 DEF new_balance
<1>7. build_balance_changes(x) = Ok
  BY <1>4, <1>5, <1>6, ChainValue DEF build_balance_changes, Require
<1>8. new_allowance(x) = new_allowance(in)
  BY <1>2 DEF new_allowance
<1>9. /\ check_house_account(x) = Ok /\ compute_new_allowance(x) = Ok
      /\ risk_reject_floor(x) = Ok
  BY <1>1, <1>2, <1>8
     DEF check_house_account, compute_new_allowance, risk_reject_floor, Require
<1> QED BY <1>7, <1>9, ChainOk DEF money_verdict

\* Another seed, another bet, another win, another mode, or no commitment.
LEMMA FairnessSpoilings ==
    ASSUME NEW in, Shaped(in), Telling(in), validate_slot(in) = Ok,
           NEW bad \in broken_seed_chain(in) \cup crash_wrong_seed_commit(in)
                          \cup tampered_user_seed(in) \cup wrong_win_amount(in)
                          \cup mismatched_game_mode(in) \cup zero_seed_commit(in),
           ReachesEffects(commit(bad.in))
    PROVE  validate_slot(commit(bad.in)) = bad.flaw
<1> DEFINE x == commit(bad.in)
           t == in.req.tx_type
<1>1. /\ x.req.tx_type = t /\ x.req.user_id = in.req.user_id
      /\ x.req.amount = in.req.amount /\ x.req.new_pk_hash = in.req.new_pk_hash
      /\ x.req.user_address = in.req.user_address
      /\ x.req.recipient_addr_hash = in.req.recipient_addr_hash
      /\ x.req.server_seed = in.req.server_seed
      /\ x.req.prediction_hash = in.req.prediction_hash
      /\ x.req.user_secret_random = in.req.user_secret_random
      /\ x.req.game.game_id = in.req.game.game_id
      /\ x.old.balance = in.old.balance /\ x.old.deposit_credit = in.old.deposit_credit
      /\ x.old.provider_allowance = in.old.provider_allowance
      /\ x.old.address_hash = in.old.address_hash /\ x.old.pk_hash = in.old.pk_hash
      /\ x.old.nonce = in.old.nonce
  BY DEF Shaped, commit, Spoiled, broken_seed_chain, crash_wrong_seed_commit,
         tampered_user_seed, wrong_win_amount, mismatched_game_mode, zero_seed_commit
<1>2. identity_verdict(x) = Ok
  BY <1>1, IdentityFrame, AcceptedParts
<1>3. CASE bad \in zero_seed_commit(in)
  <2>1. /\ bad.flaw = "ZeroSeedCommit" /\ is_needs_new_seed(in)
        /\ bad.in = [in EXCEPT !.req.next_server_seed_hash = Zero]
    BY <1>3 DEF zero_seed_commit, Spoiled
  <2>2. /\ x.old = in.old /\ x.req.game = in.req.game
        /\ x.req.win_amount = in.req.win_amount /\ x.req.user_seed = in.req.user_seed
        /\ x.req.crash_seed_hash = in.req.crash_seed_hash
        /\ x.req.next_server_seed_hash = Zero
    BY <2>1 DEF Shaped, commit
  <2>3. money_verdict(x) = Ok
    BY <1>1, <2>2, MoneyFrame, AcceptedParts
  <2>4. /\ check_seed_chain(x) = check_seed_chain(in)
        /\ check_crash_commit(x) = check_crash_commit(in)
        /\ check_user_seed(x) = check_user_seed(in)
    BY <1>1, <2>2, BindingFrame
  <2>5. /\ verify_prediction_hash(x) = verify_prediction_hash(in)
        /\ verify_payout(x, game_random(x)) = verify_payout(in, game_random(in))
    BY <1>1, <2>2 DEF verify_prediction_hash, verify_payout, game_random, payout_args,
                      valid_game_params, pays
  <2>6. fairness_verdict(x) = Ok
    BY <1>1, <2>4, <2>5, AcceptedParts DEF fairness_verdict, check_fairness
  <2>7. check_new_seed(x) = "ZeroSeedCommit"
    BY <1>1, <2>1, <2>2
       DEF check_new_seed, is_needs_new_seed, is_first_registration, all_zero, Require
  <2> QED BY <1>2, <2>1, <2>3, <2>6, <2>7, ReachedVerdict, EffectsByPart DEF Ok
<1>4. CASE bad \notin zero_seed_commit(in)
  <2>1. /\ is_ihb_or_crash(t)
        /\ bad.flaw \in {"SeedChainBreak", "CrashSeedCommitMismatch",
                         "UserSeedBindingMismatch", "PayoutMismatch"}
    BY <1>4 DEF Spoiled, of_type, broken_seed_chain, crash_wrong_seed_commit,
                tampered_user_seed, wrong_win_amount, mismatched_game_mode,
                is_ihb_or_crash
  <2>2. money_verdict(x) = Ok
    <3>1. CASE bad \in wrong_win_amount(in)
      <4>1. x.old = in.old /\ x.req.win_amount = in.req.win_amount + 1
        BY <3>1 DEF wrong_win_amount, Spoiled, Shaped, commit
      <4> QED BY <1>1, <2>1, <4>1, RoomForOneMore, AcceptedParts
    <3>2. CASE bad \notin wrong_win_amount(in)
      <4>1. x.req.win_amount = in.req.win_amount
        BY <1>4, <3>2 DEF Spoiled, broken_seed_chain, crash_wrong_seed_commit,
                          tampered_user_seed, mismatched_game_mode, Shaped, commit
      <4> QED BY <1>1, <4>1, MoneyFrame, AcceptedParts
    <3> QED BY <3>1, <3>2
  <2>3. SUFFICES check_fairness(x) = bad.flaw
    BY <1>1, <1>2, <2>1, <2>2, ReachedVerdict, EffectsByPart DEF fairness_verdict, Ok
  <2>4. check_fairness(in) = Ok
    BY <2>1, AcceptedChecks
  <2>5. /\ check_seed_chain(in) = Ok /\ check_crash_commit(in) = Ok
        /\ check_user_seed(in) = Ok /\ verify_prediction_hash(in) = Ok
        /\ verify_payout(in, game_random(in)) = Ok
    BY <2>4, ChainOk DEF check_fairness
  <2>6. /\ in.req.server_seed \in Seeds /\ next_server_seed \in Seeds
        /\ seed_hash_truncated(in.req.server_seed) # next_hash
    BY <2>1, SeedHashAssumption DEF Telling, seed_hash_truncated, next_hash
  <2>7. CASE bad \in broken_seed_chain(in)
    <3>1. /\ bad.flaw = "SeedChainBreak" /\ t = TX_IN_HOUSE_BET
          /\ bad.in = [in EXCEPT !.old.seed_hash = next_hash]
      BY <2>7 DEF broken_seed_chain, Spoiled, of_type
    <3>2. x.old.seed_hash = next_hash
      BY <3>1 DEF Shaped, commit
    <3>3. check_seed_chain(x) = "SeedChainBreak"
      BY <1>1, <2>6, <3>1, <3>2 DEF check_seed_chain, Require
    <3> QED BY <3>1, <3>3, ChainValue DEF check_fairness, Ok
  <2>8. CASE bad \in crash_wrong_seed_commit(in)
    <3>1. /\ bad.flaw = "CrashSeedCommitMismatch" /\ t = TX_CRASH_SETTLE
          /\ bad.in = [in EXCEPT !.req.crash_seed_hash = next_hash]
      BY <2>8 DEF crash_wrong_seed_commit, Spoiled, of_type
    <3>2. x.req.crash_seed_hash = next_hash
      BY <3>1 DEF Shaped, commit
    <3>3. next_hash # NoCommitment
      BY <2>1 DEF Telling
    <3>4. check_seed_chain(x) = Ok
      BY <1>1, <3>1 DEF check_seed_chain, Require, TX_CRASH_SETTLE, TX_IN_HOUSE_BET
    <3>5. check_crash_commit(x) = "CrashSeedCommitMismatch"
      BY <1>1, <2>6, <3>1, <3>2, <3>3 DEF check_crash_commit, Require
    <3> QED BY <3>1, <3>4, <3>5, ChainValue DEF check_fairness, Ok
  <2>9. CASE bad \in tampered_user_seed(in)
    <3>1. /\ bad.flaw = "UserSeedBindingMismatch" /\ t = TX_IN_HOUSE_BET
          /\ bad.in = [in EXCEPT !.req.user_seed.bet = @ + 1]
      BY <2>9 DEF tampered_user_seed, Spoiled, of_type
    <3>2. /\ x.old = in.old /\ x.req.crash_seed_hash = in.req.crash_seed_hash
          /\ x.req.user_seed = [in.req.user_seed EXCEPT !.bet = @ + 1]
      BY <3>1 DEF Shaped, commit
    <3>3. check_seed_chain(x) = Ok /\ check_crash_commit(x) = Ok
      BY <1>1, <2>5, <3>2, BindingFrame
    <3>4. in.req.user_seed = user_seed_binding(in.req.game.game_id, in.req.amount,
                                 in.req.prediction_hash, in.req.user_secret_random)
      BY <2>5, <3>1 DEF check_user_seed, Require, Ok
    <3>5. x.req.user_seed.bet = in.req.amount + 1 /\ in.req.amount \in Nat
      BY <3>2, <3>4 DEF user_seed_binding, Telling
    <3>6. user_seed_binding(in.req.game.game_id, in.req.amount, in.req.prediction_hash,
                            in.req.user_secret_random).bet = in.req.amount
      BY DEF user_seed_binding
    <3>7. check_user_seed(x) = "UserSeedBindingMismatch"
      BY <1>1, <3>1, <3>5, <3>6 DEF check_user_seed, Require
    <3> QED BY <3>1, <3>3, <3>7, ChainValue DEF check_fairness, Ok
  <2>10. CASE bad \in wrong_win_amount(in) \cup mismatched_game_mode(in)
    <3>1. /\ x.old = in.old /\ x.req.crash_seed_hash = in.req.crash_seed_hash
          /\ x.req.user_seed = in.req.user_seed /\ bad.flaw = "PayoutMismatch"
      BY <2>10 DEF wrong_win_amount, mismatched_game_mode, Spoiled, Shaped, commit
    <3>2. /\ check_seed_chain(x) = Ok /\ check_crash_commit(x) = Ok
          /\ check_user_seed(x) = Ok
      BY <1>1, <2>5, <3>1, BindingFrame
    <3>3. SUFFICES \/ verify_prediction_hash(x) = "PayoutMismatch"
                   \/ /\ verify_prediction_hash(x) = Ok
                      /\ verify_payout(x, game_random(x)) = "PayoutMismatch"
      BY <3>1, <3>2, ChainValue DEF check_fairness, Ok
    <3>4. CASE bad \in wrong_win_amount(in)
      <4>1. x.req.win_amount = in.req.win_amount + 1 /\ x.req.game = in.req.game
        BY <3>4 DEF wrong_win_amount, Spoiled, Shaped, commit
      <4>2. verify_prediction_hash(x) = Ok
        BY <1>1, <2>5, <4>1 DEF verify_prediction_hash
      <4>3. PICK payout : /\ payout = GameCore(in.req.game.game_id, game_random(in),
                                               in.req.amount, payout_args(in))
                          /\ pays(in, payout)
        BY <2>5, ChainOk DEF verify_payout, Require, Ok
      <4>4. payout = GameCore(x.req.game.game_id, game_random(x), x.req.amount,
                              payout_args(x))
        BY <1>1, <3>1, <4>1, <4>3 DEF game_random, payout_args
      <4>5. ~pays(x, payout)
        BY <4>1, <4>3 DEF pays, Telling
      <4> QED BY <4>2, <4>4, <4>5, ChainValue DEF verify_payout, Require, Ok
    <3>5. CASE bad \in mismatched_game_mode(in)
      <4>1. x.req.game = [in.req.game EXCEPT !.game_mode = @ + 1]
        BY <3>5 DEF mismatched_game_mode, Spoiled, Shaped, commit
      <4>2. expected_prediction_hash(in.req.game) = in.req.prediction_hash
        BY <2>5, ChainOk DEF verify_prediction_hash, Require, Ok
      <4>3. expected_prediction_hash(x.req.game)[2] #
            expected_prediction_hash(in.req.game)[2]
        <5>1. /\ x.req.game.game_mode = in.req.game.game_mode + 1
              /\ in.req.game.game_mode \in Nat
          BY <4>1 DEF Telling
        <5>2. \A game : expected_prediction_hash(game)[2] = game.game_mode
          BY DEF expected_prediction_hash, prediction_hash_keno, prediction_hash_standard
        <5> QED BY <5>1, <5>2
      <4> QED BY <1>1, <4>2, <4>3, ChainValue DEF verify_prediction_hash, Require, Ok
    <3> QED BY <2>10, <3>4, <3>5
  <2> QED BY <1>4, <2>7, <2>8, <2>9, <2>10
<1> QED BY <1>3, <1>4

\* One thing is wrong with the effects of a slot, and it is rejected for just that:
\* each check of compute_effects bites on its own, at any width (the tests of lib.rs
\* and fairness.rs on one spoiled value each).
THEOREM SpoilingIsRejected ==
    ASSUME NEW in, Shaped(in), Telling(in), validate_slot(in) = Ok,
           NEW bad \in PlainSpoilings(in), ReachesEffects(commit(bad.in))
    PROVE  validate_slot(commit(bad.in)) = bad.flaw
  BY MoneySpoilings, IdentitySpoilings, FairnessSpoilings DEF PlainSpoilings

\* A spoiling is its input and its flaw, where it applies.
LEMMA SpoiledIs ==
    ASSUME NEW applies, NEW in, NEW flaw, NEW bad \in Spoiled(applies, in, flaw)
    PROVE  applies /\ bad.in = in /\ bad.flaw = flaw
  BY DEF Spoiled

\* The operator completes a signed bet with another secret or with another game, and
\* pays what that comes to: as long as the account can be paid, it is the user's seed
\* that gives the swap away (fairness.rs, check_user_seed).
THEOREM SwapIsRejected ==
    ASSUME NEW in, Shaped(in), validate_slot(in) = Ok,
           NEW bad \in swapped_secret(in) \cup swapped_game(in),
           \/ bad.in.req.user_secret_random # in.req.user_secret_random
           \/ bad.in.req.prediction_hash # in.req.prediction_hash,
           ReachesEffects(bad.in), build_balance_changes(bad.in) = Ok
    PROVE  validate_slot(bad.in) = bad.flaw
<1> DEFINE x == bad.in
           t == in.req.tx_type
<1>0. \/ /\ of_type(in, {TX_IN_HOUSE_BET}) /\ bad.flaw = "UserSeedBindingMismatch"
         /\ x = paid([in EXCEPT !.req.user_secret_random = other_secret])
      \/ \E game \in Games :
            /\ of_type(in, {TX_IN_HOUSE_BET}) /\ bad.flaw = "UserSeedBindingMismatch"
            /\ x = paid([in EXCEPT !.req.game = game,
                                  !.req.prediction_hash = expected_prediction_hash(game)])
  <2> DEFINE ihb == of_type(in, {TX_IN_HOUSE_BET})
             can == of_type(in, {TX_IN_HOUSE_BET}) /\ valid_game_params(in)
             other == paid([in EXCEPT !.req.user_secret_random = other_secret])
             played(game) ==
                 paid([in EXCEPT !.req.game = game,
                                 !.req.prediction_hash = expected_prediction_hash(game)])
             may(game) == /\ of_type(in, {TX_IN_HOUSE_BET}) /\ validate_slot(in) = Ok
                          /\ game.game_id = in.req.game.game_id /\ game # in.req.game
  <2>1. CASE bad \in swapped_secret(in)
    <3>1. bad \in Spoiled(can, other, "UserSeedBindingMismatch")
      BY <2>1 DEF swapped_secret
    <3> HIDE DEF other, x, can
    <3>2. can /\ bad.in = other /\ bad.flaw = "UserSeedBindingMismatch"
      BY <3>1, SpoiledIs
    <3>3. ihb
      BY <3>2 DEF can
    <3> QED BY <3>2, <3>3 DEF other, x
  <2>2. CASE bad \in swapped_game(in)
    <3>1. PICK game \in Games :
              bad \in Spoiled(may(game), played(game), "UserSeedBindingMismatch")
      BY <2>2 DEF swapped_game
    <3> HIDE DEF played, may, x
    <3>2. may(game) /\ bad.in = played(game) /\ bad.flaw = "UserSeedBindingMismatch"
      BY <3>1, SpoiledIs
    <3>3. ihb
      BY <3>2 DEF may
    <3> QED BY <3>2, <3>3, Zenon DEF played, x
  <2> QED BY <2>1, <2>2
<1>1. bad.flaw = "UserSeedBindingMismatch" /\ t = TX_IN_HOUSE_BET
  <2> HIDE DEF x
  <2> QED BY <1>0 DEF of_type
<1>2. /\ x.req.tx_type = t /\ x.req.user_id = in.req.user_id
      /\ x.req.amount = in.req.amount /\ x.req.new_pk_hash = in.req.new_pk_hash
      /\ x.req.user_address = in.req.user_address
      /\ x.req.recipient_addr_hash = in.req.recipient_addr_hash
      /\ x.req.server_seed = in.req.server_seed /\ x.req.user_seed = in.req.user_seed
      /\ x.old = in.old
  <2> HIDE DEF x
  <2>1. CASE x = paid([in EXCEPT !.req.user_secret_random = other_secret])
    BY <2>1 DEF Shaped, paid, commit
  <2>2. ASSUME NEW game,
               x = paid([in EXCEPT !.req.game = game,
                                   !.req.prediction_hash = expected_prediction_hash(game)])
        PROVE  /\ x.req.tx_type = t /\ x.req.user_id = in.req.user_id
               /\ x.req.amount = in.req.amount /\ x.req.new_pk_hash = in.req.new_pk_hash
               /\ x.req.user_address = in.req.user_address
               /\ x.req.recipient_addr_hash = in.req.recipient_addr_hash
               /\ x.req.server_seed = in.req.server_seed
               /\ x.req.user_seed = in.req.user_seed /\ x.old = in.old
    BY <2>2 DEF Shaped, paid, commit
  <2> QED BY <1>0, <2>1, <2>2
<1>3. identity_verdict(x) = Ok
  BY <1>2, IdentityFrame, AcceptedParts
<1>4. money_verdict(x) = Ok
  <2>1. /\ check_house_account(in) = Ok /\ compute_new_allowance(in) = Ok
        /\ new_allowance(in) = new_allowance(x)
    BY <1>1, <1>2, AcceptedChecks
       DEF new_allowance, TX_IN_HOUSE_BET, TX_BET, TX_SET_PROVIDER_ALLOWANCE
  <2>2. /\ check_house_account(x) = Ok /\ compute_new_allowance(x) = Ok
        /\ risk_reject_floor(x) = Ok
    BY <1>1, <1>2, <2>1
       DEF check_house_account, compute_new_allowance, risk_reject_floor, Require,
           TX_IN_HOUSE_BET, TX_RISK_REJECT
  <2> QED BY <2>2, ChainOk DEF money_verdict
<1>5. check_fairness(in) = Ok
  BY <1>1, AcceptedChecks DEF is_ihb_or_crash
<1>6. check_seed_chain(in) = Ok /\ check_user_seed(in) = Ok
  BY <1>5, ChainOk DEF check_fairness
<1>7. check_seed_chain(x) = Ok /\ check_crash_commit(x) = Ok
  BY <1>1, <1>2, <1>6
     DEF check_seed_chain, check_crash_commit, Require, TX_IN_HOUSE_BET, TX_CRASH_SETTLE
<1>8. check_user_seed(x) = "UserSeedBindingMismatch"
  <2>1. /\ in.req.user_seed.prediction_hash = in.req.prediction_hash
        /\ in.req.user_seed.user_secret = in.req.user_secret_random
    BY <1>1, <1>6 DEF check_user_seed, user_seed_binding, Require, Ok
  <2>2. LET seed == user_seed_binding(x.req.game.game_id, x.req.amount,
                                      x.req.prediction_hash, x.req.user_secret_random)
        IN /\ seed.prediction_hash = x.req.prediction_hash
           /\ seed.user_secret = x.req.user_secret_random
    BY DEF user_seed_binding
  <2> QED BY <1>1, <1>2, <2>1, <2>2 DEF check_user_seed, Require
<1>9. fairness_verdict(x) = "UserSeedBindingMismatch"
  BY <1>1, <1>2, <1>7, <1>8, ChainValue
     DEF fairness_verdict, check_fairness, is_ihb_or_crash, Ok
<1> QED BY <1>1, <1>3, <1>4, <1>9, ReachedVerdict, EffectsByPart DEF Ok

-----------------------------------------------------------------------------
\* Inputs with nothing wrong, inputs with one effect spoiled, and what is needed of an
\* input for a corruption of it to show.
Sound(good) == {[in |-> in, flaws |-> {}] : in \in good}

SpoiledOnce(good) ==
    UNION {{[in |-> commit(bad.in), flaws |-> {bad.flaw}] : bad \in PlainSpoilings(in)} :
                in \in good}

Corruptible(in) ==
    /\ Shaped(in) /\ ReachesEffects(in)
    /\ in.current_root[0] # Zero /\ in.old.balance < U64_MAX

\* An input with nothing wrong is accepted, an input with one thing wrong is rejected
\* for it, and one with an effect spoiled and the state corrupted as well is rejected
\* for one of the two: whatever the accepted inputs are that it starts from.
THEOREM FlawsCorrect ==
    ASSUME NEW Good,
           \A in \in Good : validate_slot(in) = Ok /\ Telling(in) /\ Corruptible(in),
           \A in \in Good : \A bad \in PlainSpoilings(in) : Corruptible(commit(bad.in)),
           Inputs \subseteq Sound(Good) \cup SpoiledOnce(Good)
                                \cup CorruptOnce(Sound(Good) \cup SpoiledOnce(Good))
    PROVE  PipelineSpec => []RejectedForAFlaw
<1>1. \A i \in Sound(Good) \cup SpoiledOnce(Good) :
          /\ Corruptible(i.in)
          /\ IF i.flaws = {} THEN validate_slot(i.in) = Ok
                             ELSE validate_slot(i.in) \in i.flaws
  <2>1. \A i \in Sound(Good) :
            Corruptible(i.in) /\ i.flaws = {} /\ validate_slot(i.in) = Ok
    BY DEF Sound
  <2>2. ASSUME NEW i \in SpoiledOnce(Good)
        PROVE  /\ Corruptible(i.in) /\ i.flaws # {} /\ validate_slot(i.in) \in i.flaws
    <3>1. PICK in \in Good : \E bad \in PlainSpoilings(in) :
              i = [in |-> commit(bad.in), flaws |-> {bad.flaw}]
      BY DEF SpoiledOnce
    <3>2. PICK bad \in PlainSpoilings(in) :
              i = [in |-> commit(bad.in), flaws |-> {bad.flaw}]
      BY <3>1
    <3>3. Corruptible(commit(bad.in))
      OBVIOUS
    <3>4. validate_slot(commit(bad.in)) = bad.flaw
      BY <3>3, SpoilingIsRejected DEF Corruptible
    <3>5. i.in = commit(bad.in) /\ i.flaws = {bad.flaw}
      BY <3>2
    <3> QED BY <3>3, <3>4, <3>5
  <2> QED BY <2>1, <2>2
<1>2. \A i \in CorruptOnce(Sound(Good) \cup SpoiledOnce(Good)) :
          i.flaws # {} /\ validate_slot(i.in) \in i.flaws
  <2> SUFFICES ASSUME NEW i \in CorruptOnce(Sound(Good) \cup SpoiledOnce(Good))
               PROVE  i.flaws # {} /\ validate_slot(i.in) \in i.flaws
    OBVIOUS
  <2>1. PICK before \in Sound(Good) \cup SpoiledOnce(Good) :
            \E bad \in Corruptions(before.in) :
                i = [in |-> bad.in, flaws |-> before.flaws \cup {bad.flaw}]
    BY DEF CorruptOnce
  <2>2. PICK bad \in Corruptions(before.in) :
            i = [in |-> bad.in, flaws |-> before.flaws \cup {bad.flaw}]
    BY <2>1
  <2>3. validate_slot(bad.in) = bad.flaw
    BY <1>1, CorruptionIsRejected DEF Corruptible
  <2>4. i.in = bad.in /\ i.flaws = before.flaws \cup {bad.flaw}
    BY <2>2
  <2> QED BY <2>3, <2>4
<1>3. PipelineInv => RejectedForAFlaw
  <2>1. \A i \in Inputs : IF i.flaws = {} THEN validate_slot(i.in) = Ok
                                          ELSE validate_slot(i.in) \in i.flaws
    BY <1>1, <1>2
  <2> QED BY <2>1 DEF PipelineInv, RejectedForAFlaw
<1> QED BY <1>3, PipelineSafe, PTL
=============================================================================
