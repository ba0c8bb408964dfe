---------------------------- MODULE EngineProofs ----------------------------
(***************************************************************************)
(* Stale witnesses are harmless: the witness engine implements the rollup, *)
(* for any number of workers and users and whatever is in the pool.        *)
(*                                                                         *)
(* The root pins the account and every sibling a verdict depends on (C16), *)
(* C18 pins the total; then a verdict and its effects are the same as on a *)
(* witness that was read at once, and the step is one of Rollup's.  The    *)
(* other way round, an operator's request that is due and is read at once  *)
(* is accepted.                                                            *)
(*                                                                         *)
(* The chain of seed commitments, kept beside the same rollup, comes last. *)
(***************************************************************************)
EXTENDS WitnessEngine, SeedChain, RollupProofs

\* A request of the pool that is accepted is a step of the rollup.
LEMMA RequestIsStep ==
    ASSUME NEW req, IsRequest(req), Submit(req)
    PROVE  Next
<1>1. CASE \E t \in AmountTypes, u \in Users, amount \in Amounts :
              req = AmountRequest(t, u, amount)
  <2>1. \E t \in AmountTypes : SubmitAmount(t)
    BY <1>1 DEF SubmitAmount
  <2> QED BY <2>1 DEF AmountTypes, Next, Noop, Bet, Win, Bonus, RiskReject, Transfer,
                      Referral, SetProviderAllowance
<1>2. CASE \E u \in Users, amount \in Amounts, address \in Addresses :
              req = DepositRequest(u, amount, address)
  BY <1>2 DEF Next, Deposit
<1>3. CASE \E u \in Users, amount \in Amounts, address, signed \in Addresses :
              req = WithdrawalRequest(u, amount, address, signed)
  BY <1>3 DEF Next, Withdrawal
<1>4. CASE \E u \in Users, next \in NewCommitments : req = CommitRequest(u, next)
  BY <1>4 DEF Next, SetInitSeedHash
<1>5. CASE \E u \in Users, key \in PkHashes \cup {ZeroHash}, address \in Addresses,
              next \in NewCommitments :
              req = KeyRequest(u, key, address, next)
  BY <1>5 DEF Next, KeyRegisterOnly
<1>6. CASE \E u \in Users, amount \in Amounts, win \in WinAmounts, game \in Games,
              seed \in Seeds, secret \in Secrets, next \in NewCommitments :
              req = RoundRequest(TX_IN_HOUSE_BET, u, amount, win, game, seed, secret,
                                 next, NoCommitment)
  BY <1>6 DEF Next, InHouseBet
<1>7. CASE \E u \in Users, amount \in Amounts, win \in WinAmounts, game \in Games,
              seed \in Seeds, secret \in Secrets, known \in SeedHashes \cup {NoCommitment} :
              req = RoundRequest(TX_CRASH_SETTLE, u, amount, win, game, seed, secret,
                                 Zero, known)
  BY <1>7 DEF Next, CrashSettle
<1> QED BY <1>1, <1>2, <1>3, <1>4, <1>5, <1>6, <1>7 DEF IsRequest

\* A request of the pool is sound.
LEMMA RequestIsSound ==
    ASSUME NEW req, IsRequest(req)
    PROVE  SoundRequest(req)
<1>1. CASE \E t \in AmountTypes, u \in Users, amount \in Amounts :
              req = AmountRequest(t, u, amount)
  <2>1. AmountTypes \subseteq Nat
    BY DEF AmountTypes, TX_NOOP, TX_BET, TX_WIN, TX_BONUS, TX_RISK_REJECT,
           TX_TRANSFER, TX_REFERRAL, TX_SET_PROVIDER_ALLOWANCE
  <2> QED BY <1>1, <2>1, AmountRequestSound
<1>2. CASE \E u \in Users, amount \in Amounts, address \in Addresses :
              req = DepositRequest(u, amount, address)
  BY <1>2, DepositRequestSound
<1>3. CASE \E u \in Users, amount \in Amounts, address, signed \in Addresses :
              req = WithdrawalRequest(u, amount, address, signed)
  BY <1>3, WithdrawalRequestSound, RequestAssumption
<1>4. CASE \E u \in Users, next \in NewCommitments : req = CommitRequest(u, next)
  BY <1>4, CommitRequestSound
<1>5. CASE \E u \in Users, key \in PkHashes \cup {ZeroHash}, address \in Addresses,
              next \in NewCommitments :
              req = KeyRequest(u, key, address, next)
  BY <1>5, KeyRequestSound
<1>6. CASE \E u \in Users, amount \in Amounts, win \in WinAmounts, game \in Games,
              seed \in Seeds, secret \in Secrets, next \in NewCommitments :
              req = RoundRequest(TX_IN_HOUSE_BET, u, amount, win, game, seed, secret,
                                 next, NoCommitment)
  BY <1>6, RoundRequestSound DEF TX_IN_HOUSE_BET
<1>7. CASE \E u \in Users, amount \in Amounts, win \in WinAmounts, game \in Games,
              seed \in Seeds, secret \in Secrets, known \in SeedHashes \cup {NoCommitment} :
              req = RoundRequest(TX_CRASH_SETTLE, u, amount, win, game, seed, secret,
                                 Zero, known)
  <2>1. Zero \in NewCommitments
    BY DEF NewCommitments
  <2> QED BY <1>7, <2>1, RoundRequestSound DEF TX_CRASH_SETTLE
<1> QED BY <1>1, <1>2, <1>3, <1>4, <1>5, <1>6, <1>7 DEF IsRequest

-----------------------------------------------------------------------------
\* A leaf determines its account: the limbs of the key and address hashes it
\* keeps identify them.
LEMMA LeafDeterminesAccount ==
    ASSUME NEW a \in Account, NEW b \in Account, main_leaf(a) = main_leaf(b)
    PROVE  a = b
<1>1. balance_leaf(a) = balance_leaf(b)
      /\ a.pk_hash.lo = b.pk_hash.lo /\ a.address_hash.lo = b.address_hash.lo
  BY DEF main_leaf
<1>2. /\ a.balance = b.balance /\ a.deposit_credit = b.deposit_credit
      /\ a.nonce = b.nonce /\ a.provider_allowance = b.provider_allowance
      /\ a.seed_hash = b.seed_hash
  <2>1. /\ pack_balance_fields(a.balance, a.provider_allowance) =
              pack_balance_fields(b.balance, b.provider_allowance)
        /\ split_u64(a.deposit_credit) = split_u64(b.deposit_credit)
        /\ a.nonce = b.nonce /\ a.seed_hash = b.seed_hash
    BY <1>1 DEF balance_leaf
  <2>2. <<a.balance, a.provider_allowance>> = <<b.balance, b.provider_allowance>>
    <3>1. /\ a.balance \in U64 /\ a.provider_allowance \in Allowances
          /\ b.balance \in U64 /\ b.provider_allowance \in Allowances
      BY DEF Account
    <3> QED BY <2>1, <3>1, UnpackOfPack
  <2>3. a.deposit_credit = b.deposit_credit
    <3>1. a.deposit_credit \in U64 /\ b.deposit_credit \in U64
      BY DEF Account
    <3> QED BY <2>1, <3>1, LimbsInRange
  <2> QED BY <2>1, <2>2, <2>3
<1>3. a.pk_hash = b.pk_hash
  <2>1. \A k \in PkHashes : k.lo # Zero
    BY IdentityHashAssumption
  <2> QED BY <1>1, <2>1, IdentityHashAssumption DEF Account, ZeroHash
<1>4. a.address_hash = b.address_hash
  <2>1. \A h \in AddressHashes : h.lo # Zero
    BY IdentityHashAssumption
  <2>2. \A g, h \in AddressHashes : g.lo = h.lo => g = h
    BY IdentityHashAssumption DEF AddressHashes
  <2> QED BY <1>1, <2>1, <2>2 DEF Account, ZeroHash
<1> QED BY <1>2, <1>3, <1>4 DEF Account

\* A witness the root authenticates has the account and the siblings of now.
LEMMA RootPinsWitness ==
    ASSUME TypeOK, RootCommitsLeaves, NEW in,
           in.req.user_id \in Users, in.old \in Account, in.current_root = root,
           in.main_siblings = [x \in Users |-> in.main_siblings[x]],
           verify_current_root(in) = Ok
    PROVE  /\ in.old = leaves[in.req.user_id]
           /\ \A leaf : root_from_leaf(leaf, in.main_siblings, in.req.user_id) =
                            root_from_leaf(leaf, SiblingsOf(leaves), in.req.user_id)
<1> DEFINE u == in.req.user_id
           sib == in.main_siblings
<1>1. [sib EXCEPT ![u] = main_leaf(in.old)] = [x \in Users |-> main_leaf(leaves[x])]
  BY DEF verify_current_root, compute_root, root_from_leaf, RootCommitsLeaves, RootOf,
         SiblingsOf, Require, Ok
<1>2. [sib EXCEPT ![u] = main_leaf(in.old)] =
         [x \in Users |-> IF x = u THEN main_leaf(in.old) ELSE sib[x]]
  OBVIOUS
<1>3. \A x \in Users :
         main_leaf(leaves[x]) = IF x = u THEN main_leaf(in.old) ELSE sib[x]
  <2> HIDE DEF u, sib
  <2> QED BY <1>1, <1>2
<1>4. in.old = leaves[u]
  BY <1>3, LeafDeterminesAccount DEF TypeOK
<1>5. \A x \in Users : x # u => sib[x] = SiblingsOf(leaves)[x]
  BY <1>3 DEF SiblingsOf
<1>6. ASSUME NEW leaf
      PROVE  root_from_leaf(leaf, sib, u) = root_from_leaf(leaf, SiblingsOf(leaves), u)
  <2>1. SiblingsOf(leaves) = [x \in Users |-> SiblingsOf(leaves)[x]]
    BY DEF SiblingsOf
  <2> HIDE DEF u, sib
  <2>2. sib = [x \in Users |-> sib[x]]
    BY DEF sib
  <2> QED BY <1>5, <2>1, <2>2 DEF root_from_leaf
<1> QED BY <1>4, <1>6

-----------------------------------------------------------------------------
\* Two witnesses that differ in nothing but their proof and the root.
SameBut(a, b) ==
    /\ a.req = b.req /\ a.old = b.old
    /\ a.old_total_liability = b.old_total_liability
    /\ a.current_tl = b.current_tl

CanonicalProof(in) ==
    \A x \in DOMAIN in.main_siblings : all_canonical(in.main_siblings[x])

\* Beyond being canonical (C2b), a proof matters to C16 and the new root only.
LEMMA ProofIsForTheRoot ==
    ASSUME NEW a, NEW b, SameBut(a, b), CanonicalProof(a), CanonicalProof(b)
    PROVE  /\ check_tx_type(a) = check_tx_type(b)
           /\ check_field_canonicity(a) = check_field_canonicity(b)
           /\ check_amount_canonicity(a) = check_amount_canonicity(b)
           /\ check_stored_allowance_range(a) = check_stored_allowance_range(b)
           /\ check_user_id_range(a) = check_user_id_range(b)
           /\ check_tl_chain(a) = check_tl_chain(b)
           /\ compute_effects(a) = compute_effects(b)
           /\ new_account(a) = new_account(b)
           /\ new_tl(a) = new_tl(b)
<1> USE DEF SameBut, CanonicalProof
<1>1. /\ check_tx_type(a) = check_tx_type(b)
      /\ check_field_canonicity(a) = check_field_canonicity(b)
      /\ check_amount_canonicity(a) = check_amount_canonicity(b)
      /\ check_stored_allowance_range(a) = check_stored_allowance_range(b)
      /\ check_user_id_range(a) = check_user_id_range(b)
      /\ check_tl_chain(a) = check_tl_chain(b)
  BY DEF check_tx_type, check_field_canonicity, check_amount_canonicity,
         check_stored_allowance_range, check_user_id_range, check_tl_chain
<1>2. /\ add_full(a) = add_full(b) /\ sub_full(a) = sub_full(b)
      /\ credit_post_deposit(a) = credit_post_deposit(b)
      /\ new_allowance(a) = new_allowance(b)
      /\ is_key_setter(a) = is_key_setter(b)
      /\ is_account_signed(a) = is_account_signed(b)
      /\ is_addr_all_zero(a) = is_addr_all_zero(b)
      /\ is_needs_new_seed(a) = is_needs_new_seed(b)
  BY DEF add_full, sub_full, credit_post_deposit, new_allowance, is_key_setter,
         is_account_signed, is_addr_all_zero, is_needs_new_seed, is_first_registration
<1>3. new_balance(a) = new_balance(b) /\ new_tl(a) = new_tl(b)
  BY <1>2 DEF new_balance, new_tl
<1>4. new_credit(a) = new_credit(b)
  BY <1>2, <1>3 DEF new_credit
<1>5. is_address_setter(a) = is_address_setter(b)
  BY <1>2 DEF is_address_setter
<1>6. /\ new_nonce(a) = new_nonce(b)
      /\ new_seed_hash(a) = new_seed_hash(b)
      /\ new_pk_hash(a) = new_pk_hash(b)
      /\ new_address_hash(a) = new_address_hash(b)
  BY <1>2, <1>5 DEF new_nonce, new_seed_hash, new_pk_hash, new_address_hash
<1>7. new_account(a) = new_account(b)
  BY <1>3, <1>4, <1>2, <1>6 DEF new_account
<1>8. /\ check_house_account(a) = check_house_account(b)
      /\ build_balance_changes(a) = build_balance_changes(b)
      /\ compute_new_allowance(a) = compute_new_allowance(b)
      /\ risk_reject_floor(a) = risk_reject_floor(b)
      /\ build_address(a) = build_address(b)
      /\ check_recipient_binding(a) = check_recipient_binding(b)
      /\ check_auth(a) = check_auth(b)
      /\ check_new_nonce(a) = check_new_nonce(b)
      /\ check_new_seed(a) = check_new_seed(b)
      /\ compute_new_tl(a) = compute_new_tl(b)
  BY <1>2, <1>3 DEF check_house_account, build_balance_changes, compute_new_allowance,
     risk_reject_floor, build_address, check_recipient_binding, check_auth,
     check_new_nonce, check_new_seed, compute_new_tl
<1>9. check_fairness(a) = check_fairness(b)
  <2>1. game_random(a) = game_random(b) /\ payout_args(a) = payout_args(b)
        /\ valid_game_params(a) = valid_game_params(b)
    BY DEF game_random, payout_args, valid_game_params
  <2>2. \A payout : pays(a, payout) = pays(b, payout)
    BY DEF pays
  <2>3. \A random : verify_payout(a, random) = verify_payout(b, random)
    BY <2>1, <2>2 DEF verify_payout
  <2>4. /\ check_seed_chain(a) = check_seed_chain(b)
        /\ check_crash_commit(a) = check_crash_commit(b)
        /\ check_user_seed(a) = check_user_seed(b)
        /\ verify_prediction_hash(a) = verify_prediction_hash(b)
    BY DEF check_seed_chain, check_crash_commit, check_user_seed, verify_prediction_hash
  <2> QED BY <2>1, <2>3, <2>4 DEF check_fairness
<1>10. compute_effects(a) = compute_effects(b)
  BY <1>8, <1>9 DEF compute_effects
<1> QED BY <1>1, <1>3, <1>7, <1>10
-----------------------------------------------------------------------------
Leaf == {main_leaf(account) : account \in Account}

\* Whatever was read, and whenever, has the type of what is stored.
Witness ==
    [req : Pool, old : Account, main_siblings : [Users -> Leaf],
     old_total_liability : U64]

EngineTypeOK == witnesses \in [Workers -> Witness]

\* An unused account is well typed.
LEMMA EmptyIsAccount == EmptyAccount \in Account
  BY WordAssumption, LaneAssumption
     DEF EmptyAccount, Account, U64, Allowances, Nonces, NONCE_LIMIT, ACCOUNT_LANE_UNIT

\* A worker that starts over holds a well-typed witness.
LEMMA BlankIsWitness ==
    ASSUME NEW req \in Pool
    PROVE  Blank(req) \in Witness
<1>1. 0 \in U64
  BY WordAssumption DEF U64
<1>2. SiblingsOf([u \in Users |-> EmptyAccount]) \in [Users -> Leaf]
  BY EmptyIsAccount DEF SiblingsOf, Leaf
<1> QED BY <1>1, <1>2, EmptyIsAccount DEF Blank, Witness

\* Every read and every fresh start keeps the witnesses well typed.
LEMMA EngineTypeStep ==
    ASSUME TypeOK, EngineTypeOK, [EngineNext]_engine_vars
    PROVE  EngineTypeOK'
<1>1. ASSUME NEW w \in Workers, NEW req \in Pool, StartOver(w, req)
      PROVE  EngineTypeOK'
  BY <1>1, BlankIsWitness DEF StartOver, EngineTypeOK
<1>2. ASSUME NEW w \in Workers
      PROVE  witnesses[w].req \in Pool /\ witnesses[w].req.user_id \in Users
  <2>1. witnesses[w].req \in Pool
    BY DEF EngineTypeOK, Witness
  <2> QED BY <2>1, PoolAssumption, RequestIsSound DEF SoundRequest
<1>3. ASSUME NEW w \in Workers, Take(w)
      PROVE  EngineTypeOK'
  BY <1>1, <1>3 DEF Take
<1>4. ASSUME NEW w \in Workers, ReadAccount(w)
      PROVE  EngineTypeOK'
  <2>1. leaves[witnesses[w].req.user_id] \in Account
    BY <1>2 DEF TypeOK
  <2> QED BY <1>4, <2>1 DEF ReadAccount, EngineTypeOK, Witness
<1>5. ASSUME NEW w \in Workers, ReadProof(w)
      PROVE  EngineTypeOK'
  <2>1. SiblingsOf(leaves) \in [Users -> Leaf]
    BY DEF TypeOK, SiblingsOf, Leaf
  <2> QED BY <1>5, <2>1 DEF ReadProof, EngineTypeOK, Witness
<1>6. ASSUME NEW w \in Workers, ReadTotal(w)
      PROVE  EngineTypeOK'
  BY <1>6 DEF ReadTotal, EngineTypeOK, Witness, TypeOK
<1>7. ASSUME NEW w \in Workers, Accept(w) \/ Reject(w)
      PROVE  EngineTypeOK'
  BY <1>1, <1>2, <1>7 DEF Accept, Reject
<1>8. CASE UNCHANGED engine_vars
  BY <1>8 DEF engine_vars, EngineTypeOK
<1> QED BY <1>3, <1>4, <1>5, <1>6, <1>7, <1>8 DEF EngineNext

\* A slot that is accepted on whatever was read is accepted on a witness read
\* at once, with the same effects.
LEMMA AcceptIsSubmit ==
    ASSUME TypeOK, RootCommitsLeaves, EngineTypeOK, NEW w \in Workers, Accept(w)
    PROVE  Submit(witnesses[w].req)
<1> DEFINE req == witnesses[w].req
           a == Candidate(w)
           b == SlotInput(req, leaves, tl)
           u == req.user_id
<1>1. witnesses[w] \in Witness
  BY DEF EngineTypeOK
<1>2. req \in Pool /\ u \in Users
  BY <1>1, PoolAssumption, RequestIsSound DEF SoundRequest, Witness
<1>3. /\ a.req = req /\ a.old = witnesses[w].old /\ a.old \in Account
      /\ a.main_siblings = [x \in Users |-> a.main_siblings[x]]
      /\ a.current_root = root /\ a.current_tl = tl
      /\ a.old_total_liability = witnesses[w].old_total_liability
  BY <1>1 DEF Candidate, Witness
<1>4. /\ b.req = req /\ b.old = leaves[u] /\ b.main_siblings = SiblingsOf(leaves)
      /\ b.old_total_liability = tl /\ b.current_root = root /\ b.current_tl = tl
  BY DEF SlotInput
<1>5. validate_slot(a) = Ok /\ Apply(a) /\ req.tx_type \in TxTypes
  BY DEF Accept
<1>12. CanonicalProof(a) /\ CanonicalProof(b)
  <2>1. \A leaf \in Leaf : all_canonical(leaf)
    BY LeafHashAssumption DEF Leaf, all_canonical
  <2>2. a.main_siblings \in [Users -> Leaf]
    BY <1>1 DEF Candidate, Witness
  <2>3. b.main_siblings \in [Users -> Leaf]
    BY <1>4 DEF TypeOK, SiblingsOf, Leaf
  <2> QED BY <2>1, <2>2, <2>3 DEF CanonicalProof
<1> HIDE DEF a, b, req, u
<1>6. verify_current_root(a) = Ok /\ check_tl_chain(a) = Ok
  BY <1>5, AcceptedChecks
<1>7. /\ a.old = leaves[u]
      /\ \A leaf : root_from_leaf(leaf, a.main_siblings, u) =
                       root_from_leaf(leaf, SiblingsOf(leaves), u)
  BY <1>2, <1>3, <1>6, RootPinsWitness DEF u
<1>8. SameBut(a, b)
  BY <1>3, <1>4, <1>6, <1>7 DEF SameBut, check_tl_chain, Require, Ok
<1>9. validate_slot(b) = Ok
  <2>1. verify_current_root(b) = verify_current_root(a)
    BY <1>3, <1>4, <1>7 DEF verify_current_root, compute_root, u
  <2> QED BY <1>5, <1>8, <1>12, <2>1, ProofIsForTheRoot DEF validate_slot
<1>10. compute_new_root(b) = compute_new_root(a)
  BY <1>3, <1>4, <1>7, <1>8, <1>12, ProofIsForTheRoot DEF compute_new_root, compute_root, u
<1>11. Apply(b)
  BY <1>3, <1>4, <1>5, <1>8, <1>10, <1>12, ProofIsForTheRoot DEF Apply
<1> QED BY <1>5, <1>9, <1>11 DEF Submit, b, req

\* Every step of the engine is a step of the rollup or touches only witnesses.
LEMMA EngineStepIsRollupStep ==
    ASSUME TypeOK, RootCommitsLeaves, EngineTypeOK, [EngineNext]_engine_vars
    PROVE  [Next]_vars
<1>1. ASSUME NEW w \in Workers, Accept(w)
      PROVE  Next
  <2>1. IsRequest(witnesses[w].req)
    BY PoolAssumption DEF EngineTypeOK, Witness
  <2> QED BY <1>1, <2>1, AcceptIsSubmit, RequestIsStep
<1>2. ASSUME NEW w \in Workers,
             Take(w) \/ ReadAccount(w) \/ ReadProof(w) \/ ReadTotal(w) \/ Reject(w)
      PROVE  UNCHANGED vars
  BY <1>2 DEF Take, ReadAccount, ReadProof, ReadTotal, Reject, Fetch
<1>3. CASE UNCHANGED engine_vars
  BY <1>3 DEF engine_vars, vars
<1> QED BY <1>1, <1>2, <1>3 DEF EngineNext

\* Type correctness of the rollup, as a fact about one step.
LEMMA RollupTypeStep ==
    ASSUME TypeOK, [Next]_vars
    PROVE  TypeOK'
<1>1. CASE Next
  BY <1>1, NextIsSubmit, SubmitTypeOK
<1>2. CASE UNCHANGED vars
  BY <1>2 DEF vars, TypeOK
<1> QED BY <1>1, <1>2

\* The root step of the rollup, as a fact about one step.
LEMMA RollupRootStep ==
    ASSUME TypeOK, RootCommitsLeaves, [Next]_vars
    PROVE  RootCommitsLeaves'
<1>1. CASE Next
  BY <1>1, NextIsSubmit, SubmitRoot
<1>2. CASE UNCHANGED vars
  BY <1>2 DEF vars, RootCommitsLeaves
<1> QED BY <1>1, <1>2

\* The invariant under which the engine's steps are the rollup's.
EngineInv == TypeOK /\ RootCommitsLeaves /\ EngineTypeOK

\* The engine starts where the rollup does, with blank witnesses.
LEMMA EngineInitInv ==
    ASSUME EngineInit
    PROVE  Init /\ EngineInv
<1>1. Init /\ EngineTypeOK
  BY BlankIsWitness DEF EngineInit, EngineTypeOK
<1>2. Init => TypeOK /\ RootCommitsLeaves
  BY InitTypeOK DEF Init, RootCommitsLeaves
<1> QED BY <1>1, <1>2 DEF EngineInv

\* A step of the engine is one of the rollup, and keeps the invariant.
LEMMA EngineStepInv ==
    ASSUME EngineInv, [EngineNext]_engine_vars
    PROVE  [Next]_vars /\ EngineInv'
<1>1. [Next]_vars
  BY EngineStepIsRollupStep DEF EngineInv
<1> QED BY <1>1, RollupTypeStep, RollupRootStep, EngineTypeStep DEF EngineInv

\* The invariant of the engine: the rollup's types and root, and witnesses of the
\* right shape.
LEMMA EngineSafe == EngineSpec => []EngineInv
<1>1. EngineInv /\ [EngineNext]_engine_vars => EngineInv'
  BY EngineStepInv
<1>2. EngineInit => EngineInv
  BY EngineInitInv
<1> QED BY <1>1, <1>2, PTL DEF EngineSpec

\* However reads and slots interleave, the engine is a rollup.
THEOREM EngineImplementsRollup == EngineSpec => ImplementsRollup
<1>1. EngineInit => Init
  BY EngineInitInv
<1>2. EngineInv /\ [EngineNext]_engine_vars => [Next]_vars
  BY EngineStepInv
<1> QED BY <1>1, <1>2, EngineSafe, PTL DEF EngineSpec, ImplementsRollup, Spec

\* So what holds of the rollup holds of the engine; of the money, above all.
THEOREM EngineLiabilityCorrect == EngineSpec => []LiabilityIsSum
  BY EngineImplementsRollup, LiabilityCorrect, PTL DEF ImplementsRollup

-----------------------------------------------------------------------------
(* A request that is due is rejected for its witness only.                 *)

\* The types the operator submits on its own, by the sign of what they move.
OperatorTypes == {TX_DEPOSIT, TX_WIN, TX_BONUS, TX_REFERRAL, TX_RISK_REJECT}

\* Their requests name an amount and an address and nothing else.
LEMMA OperatorRequest ==
    ASSUME NEW req, IsRequest(req), req.tx_type \in OperatorTypes
    PROVE  /\ req.win_amount = 0 /\ req.server_seed = Zero /\ req.user_seed = Zero
           /\ req.next_server_seed_hash = Zero /\ req.new_pk_hash = ZeroHash
           /\ req.prediction_hash = Zero /\ req.user_secret_random = Zero
           /\ req.recipient_addr_hash = Zero
<1>0. req.tx_type \in {1, 3, 4, 7, 11}
  BY DEF OperatorTypes, TX_DEPOSIT, TX_WIN, TX_BONUS, TX_REFERRAL, TX_RISK_REJECT
<1>1. CASE \E t \in AmountTypes, u \in Users, amount \in Amounts :
              req = AmountRequest(t, u, amount)
  BY <1>1 DEF AmountRequest, Request
<1>2. CASE \E u \in Users, amount \in Amounts, address \in Addresses :
              req = DepositRequest(u, amount, address)
  BY <1>2 DEF DepositRequest, Request
<1>3. CASE \E u \in Users, amount \in Amounts, address, signed \in Addresses :
              req = WithdrawalRequest(u, amount, address, signed)
  BY <1>0, <1>3 DEF WithdrawalRequest, Request, TX_WITHDRAWAL
<1>4. CASE \E u \in Users, next \in NewCommitments : req = CommitRequest(u, next)
  BY <1>0, <1>4 DEF CommitRequest, Request, TX_SET_INIT_SEED_HASH
<1>5. CASE \E u \in Users, key \in PkHashes \cup {ZeroHash}, address \in Addresses,
              next \in NewCommitments :
              req = KeyRequest(u, key, address, next)
  BY <1>0, <1>5 DEF KeyRequest, Request, TX_KEY_REGISTER_ONLY
<1>6. CASE \E u \in Users, amount \in Amounts, win \in WinAmounts, game \in Games,
              seed \in Seeds, secret \in Secrets, next \in NewCommitments :
              req = RoundRequest(TX_IN_HOUSE_BET, u, amount, win, game, seed, secret,
                                 next, NoCommitment)
  BY <1>0, <1>6 DEF RoundRequest, Request, TX_IN_HOUSE_BET
<1>7. CASE \E u \in Users, amount \in Amounts, win \in WinAmounts, game \in Games,
              seed \in Seeds, secret \in Secrets, known \in SeedHashes \cup {NoCommitment} :
              req = RoundRequest(TX_CRASH_SETTLE, u, amount, win, game, seed, secret,
                                 Zero, known)
  BY <1>0, <1>7 DEF RoundRequest, Request, TX_CRASH_SETTLE
<1> QED BY <1>1, <1>2, <1>3, <1>4, <1>5, <1>6, <1>7 DEF IsRequest

\* The effects of a request that is due pass every check.  The room the total
\* has is room for the balance, and the credit, being covered, follows.
LEMMA DueIsAccepted ==
    ASSUME TypeOK, RootCommitsLeaves, LiabilityIsSum, CreditIsCovered,
           NEW req, IsRequest(req), IsDue(req)
    PROVE  validate_slot(SlotInput(req, leaves, tl)) = Ok
<1> DEFINE in == SlotInput(req, leaves, tl)
           u == req.user_id
           t == req.tx_type
           amount == req.amount
<1>1. SoundRequest(req)
  BY RequestIsSound
<1>2. /\ in.req = req /\ in.old = leaves[u] /\ in.old_total_liability = tl
  BY DEF SlotInput
<1>3. u \in Users /\ amount \in U64 /\ leaves[u] \in Account /\ tl \in U64
  BY <1>1 DEF SoundRequest, TypeOK
<1>4. /\ leaves[u].balance \in U64 /\ leaves[u].deposit_credit \in U64
      /\ leaves[u].provider_allowance \in Allowances /\ leaves[u].nonce \in Nonces
      /\ leaves[u].deposit_credit <= leaves[u].balance
      /\ leaves[u].balance <= tl
  BY <1>3, BalanceBelowTotal DEF Account, CreditIsCovered
<1>5. t \in OperatorTypes
  BY DEF IsDue, OperatorTypes
<1>6. t \in {1, 3, 4, 7, 11}
  BY <1>5 DEF OperatorTypes, TX_DEPOSIT, TX_WIN, TX_BONUS, TX_REFERRAL, TX_RISK_REJECT
<1>7. /\ req.win_amount = 0 /\ req.server_seed = Zero /\ req.user_seed = Zero
      /\ req.next_server_seed_hash = Zero /\ req.new_pk_hash = ZeroHash
      /\ req.prediction_hash = Zero /\ req.user_secret_random = Zero
      /\ req.recipient_addr_hash = Zero
  BY <1>5, OperatorRequest
<1>8. compute_effects(in) = Ok => validate_slot(in) = Ok
  <2>1. all_canonical(Zero) /\ all_canonical(ZeroHash)
    BY ZeroIsCanonical, IdentityHashAssumption DEF all_canonical
  <2>2. CanonicalRequest(req)
    BY <1>7, <2>1, WordAssumption DEF IsDue, CanonicalRequest, is_canonical
  <2>3. req.tx_type <= MAX_TX_TYPE
    BY <1>6 DEF MAX_TX_TYPE
  <2> QED BY <1>1, <2>2, <2>3, HonestWitnessPasses
<1> HIDE DEF in
<1>9. /\ ~is_ihb_or_crash(t) /\ ~is_game_lane(t) /\ ~is_account_lane(t)
      /\ ~is_key_setter(in) /\ ~is_needs_new_seed(in) /\ ~is_balance_loss(t)
      /\ t # TX_SET_PROVIDER_ALLOWANCE /\ t # TX_BET /\ t # TX_WITHDRAWAL
      /\ t # TX_IN_HOUSE_BET /\ t # TX_SET_INIT_SEED_HASH
  BY <1>2, <1>6 DEF is_ihb_or_crash, is_game_lane, is_account_lane, is_key_setter,
     is_needs_new_seed, is_first_registration, is_balance_loss, TX_WITHDRAWAL,
     TX_SET_PROVIDER_ALLOWANCE, TX_BET, TX_IN_HOUSE_BET, TX_CRASH_SETTLE,
     TX_SET_INIT_SEED_HASH, TX_KEY_REGISTER_ONLY, TX_TRANSFER
<1>10. /\ leaves[u].balance + add_full(in) <= U64_MAX
       /\ tl + add_full(in) <= U64_MAX
       /\ new_balance(in) \in Nat
       /\ t = TX_RISK_REJECT => new_balance(in) >= leaves[u].deposit_credit
       /\ new_tl(in) >= 0
       /\ credit_post_deposit(in) <= U64_MAX
  <2>1. CASE t = TX_RISK_REJECT
    <3>1. /\ t # TX_DEPOSIT /\ ~is_user_add(t) /\ is_user_sub(t)
          /\ leaves[u].balance - amount >= leaves[u].deposit_credit
      BY <2>1 DEF IsDue, is_user_add, is_user_sub, TX_DEPOSIT, TX_WIN, TX_BONUS,
         TX_REFERRAL, TX_RISK_REJECT
    <3>2. add_full(in) = 0 /\ sub_full(in) = amount
      BY <1>2, <1>9, <3>1 DEF add_full, sub_full
    <3>3. /\ new_balance(in) = leaves[u].balance - amount
          /\ new_tl(in) = tl - amount
          /\ credit_post_deposit(in) = leaves[u].deposit_credit
      BY <1>2, <1>3, <1>4, <3>1, <3>2, WordAssumption
         DEF new_balance, new_tl, credit_post_deposit, U64
    <3> QED BY <1>3, <1>4, <3>1, <3>2, <3>3, WordAssumption DEF U64
  <2>2. CASE t # TX_RISK_REJECT
    <3>1. is_user_add(t) /\ ~is_user_sub(t) /\ tl + amount <= U64_MAX
      BY <1>6, <2>2 DEF IsDue, is_user_add, is_user_sub, is_ihb_or_crash, TX_DEPOSIT,
         TX_WIN, TX_BONUS, TX_REFERRAL, TX_RISK_REJECT, TX_BET, TX_WITHDRAWAL, TX_TRANSFER,
         TX_IN_HOUSE_BET, TX_CRASH_SETTLE
    <3>2. add_full(in) = amount /\ sub_full(in) = 0
      BY <1>2, <3>1 DEF add_full, sub_full
    <3>3. /\ new_balance(in) = leaves[u].balance + amount
          /\ new_tl(in) = tl + amount
          /\ credit_post_deposit(in) \in
                 {leaves[u].deposit_credit, leaves[u].deposit_credit + amount}
      BY <1>2, <1>3, <1>4, <3>2, WordAssumption
         DEF new_balance, new_tl, credit_post_deposit, U64
    <3> QED BY <1>3, <1>4, <2>2, <3>1, <3>2, <3>3, WordAssumption DEF U64
  <2> QED BY <2>1, <2>2
<1>11. check_house_account(in) = Ok
  BY <1>2, <1>9, ChainOk DEF check_house_account, Require, Ok
<1>12. build_balance_changes(in) = Ok
  BY <1>2, <1>10, ChainOk DEF build_balance_changes, Require, Ok
<1>13. compute_new_allowance(in) = Ok
  <2>1. new_allowance(in) = leaves[u].provider_allowance
    BY <1>2, <1>9 DEF new_allowance
  <2> QED BY <1>2, <1>4, <2>1, ChainOk, WordAssumption
          DEF compute_new_allowance, Allowances, Require, Ok
<1>14. risk_reject_floor(in) = Ok
  BY <1>2, <1>10 DEF risk_reject_floor, Require, Ok
<1>15. build_address(in) = Ok
  BY <1>2 DEF build_address, is_addr_all_zero, IsDue, TX_DEPOSIT, TX_RISK_REJECT, Require, Ok
<1>16. check_recipient_binding(in) = Ok
  BY <1>2, <1>7, <1>9 DEF check_recipient_binding, recipient_addr_hash_for, Require, Ok
<1>17. check_auth(in) = Ok
  BY <1>2, <1>9 DEF check_auth, is_authenticated, Require, Ok
<1>18. check_new_nonce(in) = Ok
  <2>1. leaves[u].nonce < NONCE_LIMIT
    BY <1>4, LaneAssumption DEF Nonces, NONCE_LIMIT, ACCOUNT_LANE_UNIT
  <2> QED BY <1>2, <1>9, <2>1
          DEF check_new_nonce, is_account_signed, compute_new_nonce_check, Require, Ok
<1>19. check_new_seed(in) = Ok
  BY <1>9 DEF check_new_seed, Require, Ok
<1>20. compute_new_tl(in) = Ok
  BY <1>2, <1>10 DEF compute_new_tl, Require, Ok
<1>21. compute_effects(in) = Ok
  BY <1>2, <1>9, <1>11, <1>12, <1>13, <1>14, <1>15, <1>16, <1>17, <1>18, <1>19, <1>20, ChainOk
     DEF compute_effects
<1> QED BY <1>8, <1>21 DEF in

\* Nothing but a stale witness stands in the way of a request that is due, in
\* any state any number of workers can bring about.
THEOREM FreshCorrect == EngineSpec => []FreshIsAccepted
<1>1. ASSUME TypeOK, RootCommitsLeaves, LiabilityIsSum, CreditIsCovered, EngineTypeOK
      PROVE  FreshIsAccepted
  <2> SUFFICES ASSUME NEW w \in Workers, IsFresh(w), IsDue(witnesses[w].req)
               PROVE  validate_slot(Candidate(w)) = Ok
    BY DEF FreshIsAccepted
  <2>1. IsRequest(witnesses[w].req)
    BY <1>1, PoolAssumption DEF EngineTypeOK, Witness
  <2>2. Candidate(w) = SlotInput(witnesses[w].req, leaves, tl)
    BY DEF IsFresh, Candidate, SlotInput
  <2> QED BY <1>1, <2>1, <2>2, DueIsAccepted
<1>2. EngineSpec => [](TypeOK /\ RootCommitsLeaves /\ LiabilityIsSum /\ CreditIsCovered)
  BY EngineImplementsRollup, TypeCorrect, RootCorrect, LiabilityCorrect, CreditCorrect, PTL
     DEF ImplementsRollup
<1>3. EngineSpec => []EngineTypeOK
  BY EngineSafe, PTL DEF EngineInv
<1> QED BY <1>1, <1>2, <1>3, PTL

-----------------------------------------------------------------------------
(***************************************************************************)
(* The chain of seed commitments, for any number of users, seeds, keys and *)
(* slots of any type.                                                      *)
(***************************************************************************)
Round == [reveals : SUBSET Seeds, commits : SeedHashes]

ChainTypeOK == chain \in [Users -> Seq(Round)]

ChainInv == TypeOK /\ ChainTypeOK /\ CommitmentIsHeld /\ RevealsWhatWasCommitted

SeedTypes == {TX_IN_HOUSE_BET, TX_SET_INIT_SEED_HASH, TX_KEY_REGISTER_ONLY}

\* What an accepted slot does to the commitments: it gives one account one it was
\* handed, or none; and a bet has revealed the one it replaces.
LEMMA SeedOfSlot ==
    ASSUME TypeOK, NEW req, SoundRequest(req), Submit(req)
    PROVE  LET u == req.user_id
               t == req.tx_type
               old == leaves[u].seed_hash
           IN /\ TypeOK'
              /\ u \in Users
              /\ \A v \in Users : v # u => leaves'[v].seed_hash = leaves[v].seed_hash
              /\ \/ t \in {TX_IN_HOUSE_BET, TX_SET_INIT_SEED_HASH}
                 \/ t = TX_KEY_REGISTER_ONLY /\ old = Zero
                 => /\ leaves'[u].seed_hash = req.next_server_seed_hash
                    /\ leaves'[u].seed_hash \in SeedHashes
              /\ t = TX_KEY_REGISTER_ONLY /\ old # Zero => leaves'[u].seed_hash = old
              /\ t \notin SeedTypes => leaves'[u].seed_hash = old
              /\ t = TX_IN_HOUSE_BET => SeedHash[req.server_seed] = old
<1> DEFINE in == SlotInput(req, leaves, tl)
           u == req.user_id
           t == req.tx_type
<1>1. /\ in.req = req /\ in.old = leaves[u] /\ validate_slot(in) = Ok
      /\ leaves' = [leaves EXCEPT ![u] = new_account(in)]
      /\ u \in Users
  BY WitnessSound, SubmitEffects
<1>2. TypeOK'
  BY SubmitTypeOK
<1> HIDE DEF in
<1>3. /\ \A v \in Users : v # u => leaves'[v] = leaves[v]
      /\ leaves'[u].seed_hash = new_seed_hash(in)
  <2>1. leaves'[u] = new_account(in)
    BY <1>1 DEF TypeOK
  <2> QED BY <1>1, <2>1 DEF new_account, TypeOK
<1>4. ASSUME is_needs_new_seed(in)
      PROVE  /\ leaves'[u].seed_hash = req.next_server_seed_hash
             /\ leaves'[u].seed_hash \in SeedHashes
  <2>1. leaves'[u].seed_hash = req.next_server_seed_hash
    BY <1>1, <1>3, <1>4 DEF new_seed_hash
  <2>2. req.next_server_seed_hash # Zero
    BY <1>1, <1>4, AcceptedChecks DEF check_new_seed, all_zero, Require, Ok
  <2>3. leaves'[u] \in Account
    BY <1>1, <1>2 DEF TypeOK
  <2> QED BY <2>1, <2>2, <2>3 DEF Account
<1>5. ~is_needs_new_seed(in) => leaves'[u].seed_hash = leaves[u].seed_hash
  BY <1>1, <1>3 DEF new_seed_hash
<1>6. t = TX_IN_HOUSE_BET => SeedHash[req.server_seed] = leaves[u].seed_hash
  <2> SUFFICES ASSUME t = TX_IN_HOUSE_BET
               PROVE  SeedHash[req.server_seed] = leaves[u].seed_hash
    OBVIOUS
  <2>1. check_fairness(in) = Ok
    BY <1>1, AcceptedChecks DEF is_ihb_or_crash
  <2>2. check_seed_chain(in) = Ok
    BY <2>1, ChainOk DEF check_fairness
  <2> QED BY <1>1, <2>2 DEF check_seed_chain, seed_hash_truncated, Require, Ok
<1>7. is_needs_new_seed(in) <=>
         \/ t \in {TX_IN_HOUSE_BET, TX_SET_INIT_SEED_HASH}
         \/ t = TX_KEY_REGISTER_ONLY /\ leaves[u].seed_hash = Zero
  BY <1>1 DEF is_needs_new_seed, is_first_registration, all_zero
<1>8. t = TX_KEY_REGISTER_ONLY => t \notin {TX_IN_HOUSE_BET, TX_SET_INIT_SEED_HASH}
  BY DEF TX_KEY_REGISTER_ONLY, TX_IN_HOUSE_BET, TX_SET_INIT_SEED_HASH
<1> HIDE DEF u, t
<1>9. t \notin SeedTypes => ~is_needs_new_seed(in)
  BY <1>7 DEF SeedTypes
<1>10. t = TX_KEY_REGISTER_ONLY /\ leaves[u].seed_hash # Zero => ~is_needs_new_seed(in)
  BY <1>7, <1>8
<1> QED BY <1>1, <1>2, <1>3, <1>4, <1>5, <1>6, <1>7, <1>9, <1>10 DEF u, t

\* A chain that is not empty ends with what the leaf is committed to; an empty one
\* goes with a leaf that is committed to nothing.
LEMMA CommittedIsNonzero ==
    ASSUME ChainInv, NEW u \in Users
    PROVE  /\ chain[u] \in Seq(Round)
           /\ chain[u] = << >> <=> leaves[u].seed_hash = Zero
<1>1. chain[u] \in Seq(Round)
  BY DEF ChainInv, ChainTypeOK
<1>2. chain[u] # << >> => chain[u][Len(chain[u])] \in Round
  BY <1>1
<1>3. Zero \notin SeedHashes
  BY SeedHashAssumption
<1> QED BY <1>1, <1>2, <1>3 DEF ChainInv, CommitmentIsHeld, committed, Round

\* An entry for what the leaf now holds, which reveals nothing or what the leaf
\* held before, keeps the chain.
LEMMA RecordKeepsInv ==
    ASSUME ChainInv, NEW u \in Users, NEW revealed \in SUBSET Seeds, NEW next \in SeedHashes,
           Record(u, revealed, next), TypeOK',
           leaves'[u].seed_hash = next,
           \A v \in Users : v # u => leaves'[v].seed_hash = leaves[v].seed_hash,
           \A seed \in revealed : SeedHash[seed] = leaves[u].seed_hash,
           \A seed \in revealed : leaves[u].seed_hash # Zero
    PROVE  ChainInv'
<1> DEFINE round == [reveals |-> revealed, commits |-> next]
           old == chain[u]
           new == Append(old, round)
<1>1. round \in Round /\ old \in Seq(Round)
  BY CommittedIsNonzero DEF Round
<1>2. chain' = [chain EXCEPT ![u] = new]
  BY DEF Record
<1> HIDE DEF round
<1>3. /\ new \in Seq(Round) /\ new # << >> /\ Len(old) \in Nat
      /\ DOMAIN old = 1 .. Len(old)
      /\ Len(new) = Len(old) + 1
      /\ DOMAIN new = 1 .. Len(old) + 1
      /\ new[Len(old) + 1] = round
      /\ \A i \in 1 .. Len(old) : new[i] = old[i]
  BY <1>1
<1> HIDE DEF old, new
<1>4. chain'[u] = new /\ \A v \in Users : v # u => chain'[v] = chain[v]
  BY <1>2 DEF ChainInv, ChainTypeOK
<1>5. ChainTypeOK'
  BY <1>2, <1>3 DEF ChainInv, ChainTypeOK
<1>6. CommitmentIsHeld'
  <2> SUFFICES ASSUME NEW v \in Users PROVE leaves'[v].seed_hash = committed(v)'
    BY DEF CommitmentIsHeld
  <2>1. CASE v = u
    <3>1. committed(v)' = round.commits
      BY <1>3, <1>4, <2>1 DEF committed
    <3> QED BY <2>1, <3>1 DEF round
  <2>2. CASE v # u
    BY <1>4, <2>2 DEF committed, ChainInv, CommitmentIsHeld
  <2> QED BY <2>1, <2>2
<1>7. RevealsWhatWasCommitted'
  <2> SUFFICES ASSUME NEW v \in Users, NEW i \in DOMAIN chain'[v],
                      NEW seed \in chain'[v][i].reveals
               PROVE  i > 1 /\ SeedHash[seed] = chain'[v][i - 1].commits
    BY DEF RevealsWhatWasCommitted
  <2>1. CASE v # u
    BY <1>4, <2>1 DEF ChainInv, RevealsWhatWasCommitted
  <2>2. CASE v = u /\ i \in 1 .. Len(old)
    <3>1. i \in DOMAIN chain[u] /\ seed \in chain[u][i].reveals
      BY <1>3, <1>4, <2>2 DEF old
    <3>2. i > 1 /\ SeedHash[seed] = chain[u][i - 1].commits
      BY <3>1 DEF ChainInv, RevealsWhatWasCommitted
    <3>3. i - 1 \in 1 .. Len(old)
      BY <1>3, <2>2, <3>2
    <3>4. new[i - 1] = chain[u][i - 1]
      BY <1>3, <3>3 DEF old
    <3> QED BY <1>4, <2>2, <3>2, <3>4
  <2>3. CASE v = u /\ i = Len(old) + 1
    <3>1. seed \in revealed
      BY <1>3, <1>4, <2>3 DEF round
    <3>2. old # << >> /\ SeedHash[seed] = committed(u)
      BY <3>1, CommittedIsNonzero DEF old, ChainInv, CommitmentIsHeld
    <3>3. Len(old) >= 1 /\ SeedHash[seed] = old[Len(old)].commits
      BY <1>1, <3>2 DEF committed, old
    <3>4. new[Len(old)] = old[Len(old)]
      BY <1>3, <3>3
    <3> QED BY <1>3, <1>4, <2>3, <3>3, <3>4
  <2> QED BY <1>3, <1>4, <2>1, <2>2, <2>3
<1> QED BY <1>5, <1>6, <1>7 DEF ChainInv

\* Where nothing is recorded, nothing may move.
LEMMA HoldingKeepsInv ==
    ASSUME ChainInv, TypeOK', UNCHANGED chain,
           \A v \in Users : leaves'[v].seed_hash = leaves[v].seed_hash
    PROVE  ChainInv'
  BY DEF ChainInv, ChainTypeOK, CommitmentIsHeld, committed, RevealsWhatWasCommitted

\* A slot of one of the types that leave commitments alone.
LEMMA OtherKeepsInv ==
    ASSUME ChainInv, OtherSlot
    PROVE  ChainInv'
<1>1. ASSUME NEW req, SoundRequest(req), Submit(req), req.tx_type \notin SeedTypes
      PROVE  ChainInv'
  <2>1. \A v \in Users : leaves'[v].seed_hash = leaves[v].seed_hash
    BY <1>1, SeedOfSlot DEF ChainInv
  <2>2. TypeOK'
    BY <1>1, SeedOfSlot DEF ChainInv
  <2> QED BY <2>1, <2>2, HoldingKeepsInv DEF OtherSlot
<1> USE DEF SeedTypes, TX_IN_HOUSE_BET, TX_SET_INIT_SEED_HASH, TX_KEY_REGISTER_ONLY
<1>2. ASSUME NEW t \in Nat \ SeedTypes, SubmitAmount(t)
      PROVE  ChainInv'
  <2>1. PICK u \in Users, amount \in Amounts : Submit(AmountRequest(t, u, amount))
    BY <1>2 DEF SubmitAmount
  <2>2. AmountRequest(t, u, amount).tx_type = t
    BY DEF AmountRequest, Request
  <2> QED BY <1>1, <2>1, <2>2, AmountRequestSound
<1>3. CASE Noop \/ Bet \/ Win \/ Bonus \/ RiskReject \/ Transfer \/ Referral
              \/ SetProviderAllowance
  BY <1>2, <1>3
     DEF Noop, Bet, Win, Bonus, RiskReject, Transfer, Referral, SetProviderAllowance,
         TX_NOOP, TX_BET, TX_WIN, TX_BONUS, TX_RISK_REJECT, TX_TRANSFER,
         TX_REFERRAL, TX_SET_PROVIDER_ALLOWANCE
<1>4. CASE Deposit
  <2>1. PICK u \in Users, amount \in Amounts, address \in Addresses :
           Submit(DepositRequest(u, amount, address))
    BY <1>4 DEF Deposit
  <2>2. DepositRequest(u, amount, address).tx_type = TX_DEPOSIT
    BY DEF DepositRequest, Request
  <2> QED BY <1>1, <2>1, <2>2, DepositRequestSound DEF TX_DEPOSIT
<1>5. CASE Withdrawal
  <2>1. PICK u \in Users, amount \in Amounts, address \in Addresses, signed \in Addresses :
           Submit(WithdrawalRequest(u, amount, address, signed))
    BY <1>5 DEF Withdrawal
  <2>2. WithdrawalRequest(u, amount, address, signed).tx_type = TX_WITHDRAWAL
    BY DEF WithdrawalRequest, Request
  <2> QED BY <1>1, <2>1, <2>2, WithdrawalRequestSound, RequestAssumption DEF TX_WITHDRAWAL
<1>6. CASE CrashSettle
  <2>1. PICK u \in Users, amount \in Amounts, win \in WinAmounts, game \in Games,
             seed \in Seeds, secret \in Secrets, known \in SeedHashes \cup {NoCommitment} :
           Submit(RoundRequest(TX_CRASH_SETTLE, u, amount, win, game, seed, secret,
                               Zero, known))
    BY <1>6 DEF CrashSettle
  <2>2. PICK req : req = RoundRequest(TX_CRASH_SETTLE, u, amount, win, game, seed, secret,
                                      Zero, known)
    OBVIOUS
  <2>3. req.tx_type = TX_CRASH_SETTLE
    BY <2>2 DEF RoundRequest, Request
  <2>4. SoundRequest(req)
    BY <2>2, RoundRequestSound DEF TX_CRASH_SETTLE, NewCommitments
  <2> QED BY <1>1, <2>1, <2>2, <2>3, <2>4 DEF TX_CRASH_SETTLE
<1> QED BY <1>3, <1>4, <1>5, <1>6 DEF OtherSlot

\* The first registration hands an account its commitment, later ones do not.
LEMMA RegistrationKeepsInv ==
    ASSUME ChainInv, Register \/ Rotate
    PROVE  ChainInv'
<1>1. ASSUME NEW u \in Users, NEW key \in PkHashes \cup {ZeroHash}, NEW address \in Addresses,
             NEW next \in NewCommitments, Submit(KeyRequest(u, key, address, next))
      PROVE  /\ TypeOK'
             /\ \A v \in Users : v # u => leaves'[v].seed_hash = leaves[v].seed_hash
             /\ leaves[u].seed_hash = Zero =>
                    leaves'[u].seed_hash = next /\ next \in SeedHashes
             /\ leaves[u].seed_hash # Zero => leaves'[u].seed_hash = leaves[u].seed_hash
  <2>1. PICK req : req = KeyRequest(u, key, address, next)
    OBVIOUS
  <2>2. /\ req.tx_type = TX_KEY_REGISTER_ONLY /\ req.user_id = u
        /\ req.next_server_seed_hash = next
    BY <2>1 DEF KeyRequest, Request
  <2>3. SoundRequest(req) /\ Submit(req)
    BY <1>1, <2>1, KeyRequestSound
  <2> QED BY <2>2, <2>3, SeedOfSlot DEF ChainInv
<1>2. CASE Register
  <2>1. PICK u \in Users, key \in PkHashes \cup {ZeroHash}, address \in Addresses,
             next \in NewCommitments :
          /\ chain[u] = << >>
          /\ Submit(KeyRequest(u, key, address, next))
          /\ Record(u, {}, next)
    BY <1>2 DEF Register
  <2>2. leaves[u].seed_hash = Zero
    BY <2>1, CommittedIsNonzero
  <2>3. /\ TypeOK' /\ leaves'[u].seed_hash = next /\ next \in SeedHashes
        /\ \A v \in Users : v # u => leaves'[v].seed_hash = leaves[v].seed_hash
    BY <1>1, <2>1, <2>2
  <2>4. Record(u, {}, next) /\ {} \in SUBSET Seeds
    BY <2>1
  <2> QED BY <2>3, <2>4, RecordKeepsInv
<1>3. CASE Rotate
  <2>1. PICK u \in Users, key \in PkHashes \cup {ZeroHash}, address \in Addresses,
             next \in NewCommitments :
          /\ chain[u] # << >>
          /\ Submit(KeyRequest(u, key, address, next))
          /\ UNCHANGED chain
    BY <1>3 DEF Rotate
  <2>2. leaves[u].seed_hash # Zero
    BY <2>1, CommittedIsNonzero
  <2>3. TypeOK' /\ \A v \in Users : leaves'[v].seed_hash = leaves[v].seed_hash
    BY <1>1, <2>1, <2>2
  <2> QED BY <2>1, <2>3, HoldingKeepsInv
<1> QED BY <1>2, <1>3

\* A bet reveals what the leaf held and leaves it the next commitment.
LEMMA PlayKeepsInv ==
    ASSUME ChainInv, Play
    PROVE  ChainInv'
<1>1. PICK u \in Users, amount \in Amounts, win \in WinAmounts, game \in Games,
           seed \in Seeds, secret \in Secrets, next \in NewCommitments :
        /\ Submit(RoundRequest(TX_IN_HOUSE_BET, u, amount, win, game, seed, secret,
                               next, NoCommitment))
        /\ Record(u, {seed}, next)
  BY DEF Play
<1>2. PICK req : req = RoundRequest(TX_IN_HOUSE_BET, u, amount, win, game, seed, secret,
                                    next, NoCommitment)
  OBVIOUS
<1>3. /\ req.tx_type = TX_IN_HOUSE_BET /\ req.user_id = u
      /\ req.next_server_seed_hash = next /\ req.server_seed = seed
  BY <1>2 DEF RoundRequest, Request
<1>4. SoundRequest(req) /\ Submit(req)
  BY <1>1, <1>2, RoundRequestSound DEF TX_IN_HOUSE_BET
<1>5. /\ TypeOK' /\ leaves'[u].seed_hash = next /\ next \in SeedHashes
      /\ \A v \in Users : v # u => leaves'[v].seed_hash = leaves[v].seed_hash
      /\ SeedHash[seed] = leaves[u].seed_hash
  BY <1>3, <1>4, SeedOfSlot DEF ChainInv
<1>6. leaves[u].seed_hash # Zero
  BY <1>5, SeedHashAssumption DEF SeedHashes
<1> QED BY <1>1, <1>5, <1>6, RecordKeepsInv

\* The operator's commitment reveals nothing.
LEMMA CommitKeepsInv ==
    ASSUME ChainInv, Commit
    PROVE  ChainInv'
<1>1. PICK u \in Users, next \in NewCommitments :
        /\ Submit(CommitRequest(u, next))
        /\ Record(u, {}, next)
  BY DEF Commit
<1>2. PICK req : req = CommitRequest(u, next)
  OBVIOUS
<1>3. /\ req.tx_type = TX_SET_INIT_SEED_HASH /\ req.user_id = u
      /\ req.next_server_seed_hash = next
  BY <1>2 DEF CommitRequest, Request
<1>4. SoundRequest(req) /\ Submit(req)
  BY <1>1, <1>2, CommitRequestSound
<1>5. /\ TypeOK' /\ leaves'[u].seed_hash = next /\ next \in SeedHashes
      /\ \A v \in Users : v # u => leaves'[v].seed_hash = leaves[v].seed_hash
  BY <1>3, <1>4, SeedOfSlot DEF ChainInv
<1> QED BY <1>1, <1>5, RecordKeepsInv

\* Every leaf holds the last commitment of its chain, and every bet in it reveals
\* the one before.
LEMMA ChainSafe == ChainSpec => []ChainInv
<1>1. ChainInit => ChainInv
  <2> SUFFICES ASSUME ChainInit PROVE ChainInv
    OBVIOUS
  <2>1. TypeOK
    BY InitTypeOK DEF ChainInit
  <2>2. ChainTypeOK /\ RevealsWhatWasCommitted
    BY DEF ChainInit, ChainTypeOK, RevealsWhatWasCommitted
  <2>3. CommitmentIsHeld
    BY DEF ChainInit, Init, EmptyAccount, CommitmentIsHeld, committed
  <2> QED BY <2>1, <2>2, <2>3 DEF ChainInv
<1>2. ChainInv /\ [ChainNext]_chain_vars => ChainInv'
  <2> SUFFICES ASSUME ChainInv, [ChainNext]_chain_vars
               PROVE  ChainInv'
    OBVIOUS
  <2>1. CASE UNCHANGED chain_vars
    BY <2>1, HoldingKeepsInv DEF chain_vars, ChainInv, TypeOK
  <2> QED BY <2>1, RegistrationKeepsInv, PlayKeepsInv, CommitKeepsInv, OtherKeepsInv
          DEF ChainNext
<1> QED BY <1>1, <1>2, PTL DEF ChainSpec

\* A commitment is held until the bet that reveals it, on the house account until
\* the operator's next.
THEOREM HeldCorrect == ChainSpec => []CommitmentIsHeld
<1>1. ChainInv => CommitmentIsHeld
  BY DEF ChainInv
<1> QED BY <1>1, ChainSafe, PTL

\* Every bet reveals the seed committed to in the round before it.
THEOREM RevealsCorrect == ChainSpec => []RevealsWhatWasCommitted
<1>1. ChainInv => RevealsWhatWasCommitted
  BY DEF ChainInv
<1> QED BY <1>1, ChainSafe, PTL

\* The record stands beside the rollup and does not steer it: each recorded step
\* is one of the rollup's.
THEOREM ChainImplementsRollup == ChainSpec => Spec
<1>1. [ChainNext]_chain_vars => [Next]_vars
  BY DEF ChainNext, Register, Rotate, Play, Commit, OtherSlot, Next, KeyRegisterOnly,
         InHouseBet, SetInitSeedHash, chain_vars, vars
<1> QED BY <1>1, PTL DEF ChainSpec, ChainInit, Spec
=============================================================================
