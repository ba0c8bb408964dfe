--------------------------- MODULE RollupProofs ---------------------------
(***************************************************************************)
(* The safety of the rollup for every width, tree and set of requests.     *)
(*                                                                         *)
(* Each invariant is preserved by any accepted slot on a sound witness, so *)
(* the induction goes over Submit, and one lemma shows that every action   *)
(* of Next is a Submit of a sound request.                                 *)
(***************************************************************************)
EXTENDS Rollup, SlotProofs, SumProofs

\* A request of a type, with nothing filled in, is sound.
LEMMA DefaultRequest ==
    ASSUME NEW t \in Nat, NEW u \in Users
    PROVE  SoundRequest(Request(t, u))
<1>1. DefaultAddress \in Addresses
  BY SomeAddress DEF DefaultAddress
<1>2. 0 \in U64
  BY WordAssumption DEF U64
<1> QED BY <1>1, <1>2 DEF SoundRequest, Request, NewCommitments

\* A request that only names an amount is sound.
LEMMA AmountRequestSound ==
    ASSUME NEW t \in Nat, NEW u \in Users, NEW amount \in Amounts
    PROVE  SoundRequest(AmountRequest(t, u, amount))
<1>1. amount \in U64
  BY RequestAssumption
<1> QED BY <1>1, DefaultRequest DEF AmountRequest, SoundRequest, Request

\* A deposit request is sound.
LEMMA DepositRequestSound ==
    ASSUME NEW u \in Users, NEW amount \in Amounts, NEW address \in Addresses
    PROVE  SoundRequest(DepositRequest(u, amount, address))
<1>1. amount \in U64
  BY RequestAssumption
<1> QED BY <1>1, DefaultRequest DEF DepositRequest, SoundRequest, Request, TX_DEPOSIT

\* A withdrawal request is sound, whatever address the signature names.
LEMMA WithdrawalRequestSound ==
    ASSUME NEW u \in Users, NEW amount \in U64,
           NEW address \in Addresses, NEW signed \in Addresses
    PROVE  SoundRequest(WithdrawalRequest(u, amount, address, signed))
  BY DefaultRequest DEF WithdrawalRequest, SoundRequest, Request, TX_WITHDRAWAL

\* A seed commitment, canonical or not, makes a sound request.
LEMMA CommitRequestSound ==
    ASSUME NEW u \in Users, NEW next \in NewCommitments
    PROVE  SoundRequest(CommitRequest(u, next))
  BY DefaultRequest
     DEF CommitRequest, SoundRequest, Request, TX_SET_INIT_SEED_HASH, NewCommitments

\* A registration request is sound, with or without a key.
LEMMA KeyRequestSound ==
    ASSUME NEW u \in Users, NEW key \in PkHashes \cup {ZeroHash},
           NEW address \in Addresses, NEW next \in NewCommitments
    PROVE  SoundRequest(KeyRequest(u, key, address, next))
  BY DefaultRequest
     DEF KeyRequest, SoundRequest, Request, TX_KEY_REGISTER_ONLY, NewCommitments

\* A round of a game is a sound request, whatever game it names.
LEMMA RoundRequestSound ==
    ASSUME NEW t \in Nat, NEW u \in Users, NEW amount \in Amounts,
           NEW win \in WinAmounts, NEW game, NEW seed, NEW secret,
           NEW next \in NewCommitments, NEW known
    PROVE  SoundRequest(RoundRequest(t, u, amount, win, game, seed, secret, next, known))
<1>1. amount \in U64 /\ win \in U64
  BY RequestAssumption
<1> QED BY <1>1, DefaultRequest DEF RoundRequest, SoundRequest, Request, NewCommitments

\* Every step of the rollup is an accepted slot.
LEMMA NextIsSubmit ==
    ASSUME Next
    PROVE  \E req : SoundRequest(req) /\ Submit(req)
<1>1. ASSUME NEW t \in Nat, SubmitAmount(t)
      PROVE  \E req : SoundRequest(req) /\ Submit(req)
  BY <1>1, AmountRequestSound DEF SubmitAmount
<1>2. CASE Noop \/ Bet \/ Win \/ Bonus \/ RiskReject \/ Transfer \/ Referral
              \/ SetProviderAllowance
  BY <1>1, <1>2
     DEF Noop, Bet, Win, Bonus, RiskReject, Transfer, Referral, SetProviderAllowance,
         TX_NOOP, TX_BET, TX_WIN, TX_BONUS, TX_RISK_REJECT, TX_TRANSFER,
         TX_REFERRAL, TX_SET_PROVIDER_ALLOWANCE
<1>3. CASE Deposit
  BY <1>3, DepositRequestSound DEF Deposit
<1>4. CASE Withdrawal
  BY <1>4, WithdrawalRequestSound, RequestAssumption DEF Withdrawal
<1>5. CASE SetInitSeedHash
  BY <1>5, CommitRequestSound DEF SetInitSeedHash
<1>6. CASE KeyRegisterOnly
  BY <1>6, KeyRequestSound DEF KeyRegisterOnly
<1>7. CASE InHouseBet
  BY <1>7, RoundRequestSound DEF InHouseBet, TX_IN_HOUSE_BET
<1>8. CASE CrashSettle
  <2>1. Zero \in NewCommitments
    BY DEF NewCommitments
  <2> QED BY <1>8, <2>1, RoundRequestSound DEF CrashSettle, TX_CRASH_SETTLE
<1> QED BY <1>2, <1>3, <1>4, <1>5, <1>6, <1>7, <1>8 DEF Next

-----------------------------------------------------------------------------
\* The witness of a request on well-typed state is sound, and names the account
\* it is about.
LEMMA WitnessSound ==
    ASSUME TypeOK, NEW req, SoundRequest(req)
    PROVE  LET in == SlotInput(req, leaves, tl)
           IN /\ SoundInput(in)
              /\ in.req = req
              /\ in.old = leaves[req.user_id]
              /\ in.old_total_liability = tl
              /\ in.main_siblings = SiblingsOf(leaves)
  BY DEF TypeOK, SoundRequest, SoundInput, SlotInput, NewCommitments

\* An accepted slot rewrites one account with its effects.
LEMMA SubmitEffects ==
    ASSUME TypeOK, NEW req, SoundRequest(req), Submit(req)
    PROVE  LET in == SlotInput(req, leaves, tl)
           IN /\ validate_slot(in) = Ok
              /\ leaves' = [leaves EXCEPT ![req.user_id] = new_account(in)]
              /\ req.user_id \in Users
              /\ root' = compute_new_root(in)
              /\ tl' = new_tl(in)
  BY WitnessSound DEF Submit, Apply, SoundRequest

\* The empty rollup is well typed.
LEMMA InitTypeOK ==
    ASSUME Init
    PROVE  TypeOK
<1>1. EmptyAccount \in Account
  <2>1. 0 \in U64 /\ 0 \in Allowances
    BY WordAssumption DEF U64, Allowances
  <2>2. 0 \in Nonces
    <3>1. NONCE_LIMIT \in Nat /\ NONCE_LIMIT > 0
      BY LaneAssumption DEF NONCE_LIMIT, ACCOUNT_LANE_UNIT
    <3> QED BY <3>1 DEF Nonces
  <2> QED BY <2>1, <2>2 DEF EmptyAccount, Account
<1>2. 0 \in U64
  BY WordAssumption DEF U64
<1> QED BY <1>1, <1>2 DEF Init, TypeOK

\* An accepted slot keeps the store and the total within their widths.
LEMMA SubmitTypeOK ==
    ASSUME TypeOK, NEW req, SoundRequest(req), Submit(req)
    PROVE  TypeOK'
<1> DEFINE in == SlotInput(req, leaves, tl)
<1>1. SoundInput(in) /\ validate_slot(in) = Ok
  BY WitnessSound, SubmitEffects
<1>2. new_account(in) \in Account /\ new_tl(in) \in U64
  BY <1>1, AcceptedAccount, AcceptedMoney
<1>3. /\ leaves' = [leaves EXCEPT ![req.user_id] = new_account(in)]
      /\ tl' = new_tl(in)
  BY SubmitEffects
<1> QED BY <1>2, <1>3 DEF TypeOK

\* Every reachable account fits its leaf and the total fits a u64: no sequence
\* of slots overflows a word or a lane.
THEOREM TypeCorrect == Spec => []TypeOK
<1>1. Init => TypeOK
  BY InitTypeOK
<1>2. TypeOK /\ [Next]_vars => TypeOK'
  <2>1. CASE Next
    BY <2>1, NextIsSubmit, SubmitTypeOK
  <2>2. CASE UNCHANGED vars
    BY <2>2 DEF vars, TypeOK
  <2> QED BY <2>1, <2>2
<1> QED BY <1>1, <1>2, PTL DEF Spec

-----------------------------------------------------------------------------
\* What holds of each account on its own, and of the root over all of them.
AccountsSafe ==
    /\ CreditIsCovered
    /\ KeylessIsInert
    /\ RegisteredIsComplete

\* The unused account is covered, inert and not registered.
LEMMA InitSafe ==
    ASSUME Init
    PROVE  AccountsSafe /\ RootCommitsLeaves
  BY DEF Init, AccountsSafe, CreditIsCovered, KeylessIsInert, RegisteredIsComplete,
         RootCommitsLeaves, EmptyAccount

\* An accepted slot keeps every account covered, inert without a key and
\* complete with one.
LEMMA SubmitSafe ==
    ASSUME TypeOK, AccountsSafe, NEW req, SoundRequest(req), Submit(req)
    PROVE  AccountsSafe'
<1> DEFINE in == SlotInput(req, leaves, tl)
           u == req.user_id
<1>1. /\ SoundInput(in) /\ validate_slot(in) = Ok
      /\ in.old = leaves[u]
      /\ leaves' = [leaves EXCEPT ![u] = new_account(in)]
      /\ u \in Users
  BY WitnessSound, SubmitEffects
<1>2. leaves'[u] = new_account(in) /\ \A v \in Users \ {u} : leaves'[v] = leaves[v]
  BY <1>1 DEF TypeOK
<1>3. CreditIsCovered'
  <2>1. new_credit(in) <= new_balance(in)
    BY <1>1, AcceptedCredit DEF AccountsSafe, CreditIsCovered
  <2> QED BY <1>2, <2>1 DEF CreditIsCovered, AccountsSafe, new_account
<1>4. KeylessIsInert'
  <2>1. in.old.pk_hash = ZeroHash => Inert(in.old)
    BY <1>1 DEF AccountsSafe, KeylessIsInert, Inert
  <2>2. new_pk_hash(in) = ZeroHash => Inert(new_account(in))
    BY <1>1, <2>1, AcceptedInert
  <2>3. new_account(in).pk_hash = new_pk_hash(in)
    BY DEF new_account
  <2> QED BY <1>2, <2>2, <2>3 DEF KeylessIsInert, AccountsSafe, Inert
<1>5. RegisteredIsComplete'
  <2>1. in.old.pk_hash # ZeroHash => Complete(in.old)
    BY <1>1 DEF AccountsSafe, RegisteredIsComplete, Complete
  <2>2. new_pk_hash(in) # ZeroHash => Complete(new_account(in))
    BY <1>1, <2>1, AcceptedComplete
  <2>3. new_account(in).pk_hash = new_pk_hash(in)
    BY DEF new_account
  <2> QED BY <1>2, <2>2, <2>3 DEF RegisteredIsComplete, AccountsSafe, Complete
<1> QED BY <1>3, <1>4, <1>5 DEF AccountsSafe

\* Lifting the new leaf along the old proof commits to the new accounts.
LEMMA SubmitRoot ==
    ASSUME TypeOK, NEW req, SoundRequest(req), Submit(req)
    PROVE  RootCommitsLeaves'
<1> DEFINE in == SlotInput(req, leaves, tl)
           u == req.user_id
<1>1. /\ in.req = req /\ in.main_siblings = SiblingsOf(leaves)
      /\ leaves' = [leaves EXCEPT ![u] = new_account(in)]
      /\ u \in Users
      /\ root' = compute_new_root(in)
  BY WitnessSound, SubmitEffects
<1>2. root' = [SiblingsOf(leaves) EXCEPT ![u] = main_leaf(new_account(in))]
  BY <1>1 DEF compute_new_root, compute_root, root_from_leaf
<1>3. \A v \in Users : leaves'[v] = IF v = u THEN new_account(in) ELSE leaves[v]
  BY <1>1 DEF TypeOK
<1>4. SiblingsOf(leaves') = [SiblingsOf(leaves) EXCEPT ![u] = main_leaf(new_account(in))]
  BY <1>1, <1>3 DEF SiblingsOf
<1> QED BY <1>2, <1>4 DEF RootCommitsLeaves, RootOf

\* No effect of a slot is lost and none is applied to another leaf: the root of
\* the next slot always commits to the accounts in the store.
THEOREM RootCorrect == Spec => []RootCommitsLeaves
<1>1. Init => RootCommitsLeaves
  BY InitSafe
<1>2. TypeOK /\ RootCommitsLeaves /\ [Next]_vars => RootCommitsLeaves'
  <2>1. CASE Next
    BY <2>1, NextIsSubmit, SubmitRoot
  <2>2. CASE UNCHANGED vars
    BY <2>2 DEF vars, RootCommitsLeaves
  <2> QED BY <2>1, <2>2
<1> QED BY <1>1, <1>2, TypeCorrect, PTL DEF Spec

\* Every stored leaf has canonical packed words, and they give back its balance
\* and its allowance.
THEOREM UnpackCorrect == Spec => []LeavesUnpack
<1>1. TypeOK => LeavesUnpack
  <2>1. SUFFICES ASSUME TypeOK, NEW u \in Users
                 PROVE  LET fields == balance_leaf(leaves[u]).packed
                        IN /\ is_canonical(fields[1]) /\ is_canonical(fields[2])
                           /\ unpack_balance_fields(fields) =
                                <<leaves[u].balance, leaves[u].provider_allowance>>
    BY DEF LeavesUnpack
  <2>2. leaves[u].balance \in U64 /\ leaves[u].provider_allowance \in Allowances
    BY <2>1 DEF TypeOK, Account
  <2>3. balance_leaf(leaves[u]).packed =
           pack_balance_fields(leaves[u].balance, leaves[u].provider_allowance)
    BY DEF balance_leaf
  <2> QED BY <2>2, <2>3, UnpackOfPack, PackedIsCanonical
<1> QED BY <1>1, TypeCorrect, PTL

\* The three account invariants hold together.
LEMMA SafeAccounts == Spec => []AccountsSafe
<1>1. Init => AccountsSafe
  BY InitSafe
<1>2. TypeOK /\ AccountsSafe /\ [Next]_vars => AccountsSafe'
  <2>1. CASE Next
    BY <2>1, NextIsSubmit, SubmitSafe
  <2>2. CASE UNCHANGED vars
    BY <2>2 DEF vars, AccountsSafe, CreditIsCovered, KeylessIsInert, RegisteredIsComplete
  <2> QED BY <2>1, <2>2
<1> QED BY <1>1, <1>2, TypeCorrect, PTL DEF Spec

\* Deposited credit is always covered by the balance.
THEOREM CreditCorrect == Spec => []CreditIsCovered
<1>1. AccountsSafe => CreditIsCovered
  BY DEF AccountsSafe
<1> QED BY <1>1, SafeAccounts, PTL

\* An account without a key has no allowance and no used nonce: a provider can
\* never debit it.
THEOREM KeylessCorrect == Spec => []KeylessIsInert
<1>1. AccountsSafe => KeylessIsInert
  BY DEF AccountsSafe
<1> QED BY <1>1, SafeAccounts, PTL

\* A registered account has a seed commitment and an address.
THEOREM RegisteredCorrect == Spec => []RegisteredIsComplete
<1>1. AccountsSafe => RegisteredIsComplete
  BY DEF AccountsSafe
<1> QED BY <1>1, SafeAccounts, PTL

-----------------------------------------------------------------------------
\* A seed that is set moves only together with the game lane, or on the house
\* account: how a bet signed for an older seed goes stale.
RotatesSeed(u, old, new) ==
    ~all_zero(old.seed_hash) /\ new.seed_hash # old.seed_hash =>
        \/ u = 0
        \/ game_lane(new.nonce) = game_lane(old.nonce) + 1

\* Every step rule of the module: kept by an account that does not change, and
\* by the one an accepted slot rewrites.
StepIsSafe(u, old, new) ==
    /\ KeepsAddress(old, new)
    /\ RotatesSeed(u, old, new)
    /\ UnsignedIsCapped(old, new)
    /\ AdvancesOneLane(old, new)

\* An account that does not change breaks no step rule.
LEMMA StandingStillIsSafe ==
    ASSUME NEW u, NEW account \in Account
    PROVE  StepIsSafe(u, account, account)
<1>1. account.balance \in Nat /\ account.provider_allowance \in Nat
      /\ account.deposit_credit \in Nat /\ account.nonce \in Nonces
  BY WordAssumption DEF Account, U64, Allowances
<1>2. account_lane(account.nonce) \in Nat /\ game_lane(account.nonce) \in Nat
  BY <1>1, JoinOfSplit, LaneAssumption
<1> QED BY <1>1, <1>2 DEF StepIsSafe, KeepsAddress, RotatesSeed, UnsignedIsCapped,
                          AdvancesOneLane

\* An accepted slot breaks no step rule: addresses, seeds, debits and lanes.
LEMMA AcceptedStep ==
    ASSUME NEW in, SoundInput(in), validate_slot(in) = Ok
    PROVE  StepIsSafe(in.req.user_id, in.old, new_account(in))
<1> DEFINE t == in.req.tx_type
           new == new_account(in)
<1>1. /\ in.old.balance \in Nat /\ in.old.deposit_credit \in Nat
      /\ in.old.provider_allowance \in Nat /\ in.old.nonce \in Nonces
      /\ in.req.amount \in Nat
  BY WordAssumption DEF SoundInput, Account, U64, Allowances
<1>2. /\ new.balance = new_balance(in) /\ new.deposit_credit = new_credit(in)
      /\ new.nonce = new_nonce(in) /\ new.provider_allowance = new_allowance(in)
      /\ new.seed_hash = new_seed_hash(in) /\ new.pk_hash = new_pk_hash(in)
      /\ new.address_hash = new_address_hash(in)
  BY DEF new_account
<1>3. /\ game_lane(new.nonce) = game_lane(in.old.nonce) + Bump(is_game_lane(t))
      /\ account_lane(new.nonce) = account_lane(in.old.nonce)
            + Bump(is_account_bump(t, is_key_setter(in)))
  BY <1>2, AcceptedNonce
<1>4. account_lane(in.old.nonce) \in Nat /\ game_lane(in.old.nonce) \in Nat
  BY <1>1, JoinOfSplit, LaneAssumption
<1>5. KeepsAddress(in.old, new)
  BY <1>2 DEF KeepsAddress, new_address_hash, is_address_setter, is_addr_all_zero
<1>6. RotatesSeed(in.req.user_id, in.old, new)
  <2>1. SUFFICES ASSUME ~all_zero(in.old.seed_hash), new_seed_hash(in) # in.old.seed_hash
                 PROVE  \/ in.req.user_id = 0
                        \/ game_lane(new.nonce) = game_lane(in.old.nonce) + 1
    BY <1>2 DEF RotatesSeed
  <2>2. t \in {TX_IN_HOUSE_BET, TX_SET_INIT_SEED_HASH}
    BY <2>1 DEF new_seed_hash, is_needs_new_seed, is_first_registration
  <2>3. CASE t = TX_SET_INIT_SEED_HASH
    BY <2>3, AcceptedChecks, ChainOk DEF check_house_account, Require, Ok
  <2>4. CASE t = TX_IN_HOUSE_BET
    BY <1>3, <2>4 DEF is_game_lane, is_ihb_or_crash, Bump
  <2> QED BY <2>2, <2>3, <2>4
<1>7. AdvancesOneLane(in.old, new)
  <2>1. ~(is_game_lane(t) /\ is_account_bump(t, is_key_setter(in)))
    BY DEF is_game_lane, is_ihb_or_crash, is_account_bump,
           is_key_setter, TX_IN_HOUSE_BET, TX_CRASH_SETTLE, TX_SET_PROVIDER_ALLOWANCE,
           TX_WITHDRAWAL, TX_TRANSFER, TX_KEY_REGISTER_ONLY
  <2>2. new.pk_hash # in.old.pk_hash => is_account_bump(t, is_key_setter(in))
    BY <1>2 DEF new_pk_hash, is_account_bump
  <2>3. new.provider_allowance > in.old.provider_allowance => is_game_lane(t)
    BY <1>1, <1>2 DEF new_allowance, is_game_lane
  <2> QED BY <1>3, <1>4, <2>1, <2>2, <2>3 DEF AdvancesOneLane, Bump
<1>8. UnsignedIsCapped(in.old, new)
  <2>1. SUFFICES ASSUME new.nonce = in.old.nonce
                 PROVE  /\ new_allowance(in) <= in.old.provider_allowance
                        /\ \/ new_balance(in) >= in.old.balance
                           \/ in.old.balance - new_balance(in) =
                                in.old.provider_allowance - new_allowance(in)
                           \/ /\ new_balance(in) >= in.old.deposit_credit
                              /\ new_credit(in) = in.old.deposit_credit
    BY <1>2 DEF UnsignedIsCapped
  <2>2. ~is_game_lane(t) /\ ~is_account_lane(t)
    BY <1>3, <1>4, <2>1 DEF Bump, is_account_bump, is_account_lane
  <2>3. t # TX_SET_PROVIDER_ALLOWANCE /\ ~is_ihb_or_crash(t)
    BY <2>2 DEF is_game_lane
  <2>4. new_allowance(in) <= in.old.provider_allowance
    BY <1>1, <2>3 DEF new_allowance
  <2>5. add_full(in) \in Nat
    BY AcceptedMoney
  <2>6. CASE t = TX_BET
    <3>1. add_full(in) = 0 /\ sub_full(in) = in.req.amount
      BY <2>3, <2>6 DEF add_full, sub_full, is_user_add, is_user_sub, TX_BET,
                        TX_DEPOSIT, TX_WIN, TX_BONUS, TX_REFERRAL
    <3>2. new_allowance(in) = in.old.provider_allowance - in.req.amount
      BY <2>3, <2>6 DEF new_allowance
    <3> QED BY <1>1, <2>4, <3>1, <3>2 DEF new_balance
  <2>7. CASE t = TX_RISK_REJECT
    <3>1. new_balance(in) >= in.old.deposit_credit
      BY <2>7, AcceptedChecks DEF risk_reject_floor, Require, Ok
    <3>2. new_credit(in) = in.old.deposit_credit
      BY <1>1, <2>3, <2>7 DEF new_credit, credit_post_deposit, is_balance_loss,
         TX_RISK_REJECT, TX_DEPOSIT, TX_BET, TX_WITHDRAWAL, TX_TRANSFER
    <3> QED BY <2>4, <3>1, <3>2
  <2>8. CASE t # TX_BET /\ t # TX_RISK_REJECT
    <3>1. sub_full(in) = 0
      BY <2>2, <2>3, <2>8 DEF sub_full, is_user_sub, is_account_lane
    <3> QED BY <1>1, <2>4, <2>5, <3>1 DEF new_balance
  <2> QED BY <2>6, <2>7, <2>8
<1> QED BY <1>5, <1>6, <1>7, <1>8 DEF StepIsSafe

\* An accepted slot breaks no step rule for any account.
LEMMA SubmitIsSafe ==
    ASSUME TypeOK, NEW req, SoundRequest(req), Submit(req)
    PROVE  \A u \in Users : StepIsSafe(u, leaves[u], leaves'[u])
<1> DEFINE in == SlotInput(req, leaves, tl)
<1>1. /\ SoundInput(in) /\ validate_slot(in) = Ok
      /\ in.old = leaves[req.user_id] /\ in.req = req
      /\ leaves' = [leaves EXCEPT ![req.user_id] = new_account(in)]
  BY WitnessSound, SubmitEffects
<1>2. TAKE u \in Users
<1>3. CASE u = req.user_id
  BY <1>1, <1>3, AcceptedStep DEF TypeOK
<1>4. CASE u # req.user_id
  BY <1>1, <1>4, StandingStillIsSafe DEF TypeOK
<1> QED BY <1>3, <1>4

\* A step of the rollup breaks no step rule for any account.
LEMMA NextIsSafe ==
    ASSUME TypeOK, [Next]_vars
    PROVE  \A u \in Users : StepIsSafe(u, leaves[u], leaves'[u])
<1>1. CASE Next
  BY <1>1, NextIsSubmit, SubmitIsSafe
<1>2. CASE UNCHANGED vars
  BY <1>2, StandingStillIsSafe DEF vars, TypeOK
<1> QED BY <1>1, <1>2

\* A stamped address is never replaced.
THEOREM AddressCorrect == Spec => AddressIsImmutable
<1>1. TypeOK /\ [Next]_vars => \A u \in Users : KeepsAddress(leaves[u], leaves'[u])
  BY NextIsSafe DEF StepIsSafe
<1> QED BY <1>1, TypeCorrect, PTL DEF Spec, AddressIsImmutable

\* Without a signature a deposit falls only by what the allowance pays.
THEOREM UnsignedDebitsCorrect == Spec => UnsignedDebitsAreCapped
<1>1. TypeOK /\ [Next]_vars => \A u \in Users : UnsignedIsCapped(leaves[u], leaves'[u])
  BY NextIsSafe DEF StepIsSafe
<1> QED BY <1>1, TypeCorrect, PTL DEF Spec, UnsignedDebitsAreCapped

\* An unsigned slot takes nothing from the credit but what the allowance pays: a
\* provider bet lowers a covered credit by its amount at most, and the allowance by
\* exactly that.
LEMMA AcceptedFloor ==
    ASSUME NEW in, SoundInput(in), validate_slot(in) = Ok,
           in.old.deposit_credit <= in.old.balance
    PROVE  KeepsOutOfReach(in.old, new_account(in))
<1> DEFINE t == in.req.tx_type
           new == new_account(in)
<1>1. /\ in.old.balance \in Nat /\ in.old.deposit_credit \in Nat
      /\ in.old.provider_allowance \in Nat /\ in.old.nonce \in Nonces
      /\ in.req.amount \in Nat
  BY WordAssumption DEF SoundInput, Account, U64, Allowances
<1>2. /\ new.deposit_credit = new_credit(in) /\ new.nonce = new_nonce(in)
      /\ new.provider_allowance = new_allowance(in)
  BY DEF new_account
<1>3. SUFFICES ASSUME new.nonce = in.old.nonce
               PROVE  new_credit(in) - new_allowance(in) >=
                          in.old.deposit_credit - in.old.provider_allowance
  BY <1>2 DEF KeepsOutOfReach, out_of_reach
<1>4. ~is_game_lane(t) /\ ~is_account_lane(t)
  <2>1. account_lane(in.old.nonce) \in Nat /\ game_lane(in.old.nonce) \in Nat
    BY <1>1, JoinOfSplit, LaneAssumption
  <2>2. /\ game_lane(in.old.nonce) = game_lane(in.old.nonce) + Bump(is_game_lane(t))
        /\ account_lane(in.old.nonce) = account_lane(in.old.nonce)
              + Bump(is_account_bump(t, is_key_setter(in)))
    BY <1>2, <1>3, AcceptedNonce
  <2> QED BY <2>1, <2>2 DEF Bump, is_account_bump, is_account_lane
<1>5. t # TX_SET_PROVIDER_ALLOWANCE /\ ~is_ihb_or_crash(t)
  BY <1>4 DEF is_game_lane
<1>6. credit_post_deposit(in) \in Nat /\ credit_post_deposit(in) >= in.old.deposit_credit
  BY <1>1 DEF credit_post_deposit
<1>7. CASE t = TX_BET
  <2>1. new_balance(in) = in.old.balance - in.req.amount
    BY <1>1, <1>5, <1>7 DEF new_balance, add_full, sub_full, is_user_add, is_user_sub,
       TX_BET, TX_DEPOSIT, TX_WIN, TX_BONUS, TX_REFERRAL
  <2>2. new_allowance(in) = in.old.provider_allowance - in.req.amount
    BY <1>5, <1>7 DEF new_allowance
  <2>3. new_credit(in) >= in.old.deposit_credit - in.req.amount
    BY <1>1, <1>6, <2>1 DEF new_credit
  <2>4. new_credit(in) \in Int
    BY <1>1, <1>6, <2>1 DEF new_credit
  <2> QED BY <1>1, <2>2, <2>3, <2>4
<1>8. CASE t # TX_BET
  <2>1. ~is_balance_loss(t)
    BY <1>4, <1>5, <1>8 DEF is_balance_loss, is_account_lane
  <2> QED BY <1>1, <1>5, <1>6, <1>8, <2>1 DEF new_credit, new_allowance
<1> QED BY <1>7, <1>8

\* What an account has out of reach stays there through any accepted slot.
LEMMA SubmitKeepsFloor ==
    ASSUME TypeOK, CreditIsCovered, NEW req, SoundRequest(req), Submit(req)
    PROVE  \A u \in Users : KeepsOutOfReach(leaves[u], leaves'[u])
<1> DEFINE in == SlotInput(req, leaves, tl)
<1>1. /\ SoundInput(in) /\ validate_slot(in) = Ok
      /\ in.old = leaves[req.user_id] /\ req.user_id \in Users
      /\ leaves' = [leaves EXCEPT ![req.user_id] = new_account(in)]
  BY WitnessSound, SubmitEffects
<1>2. KeepsOutOfReach(leaves[req.user_id], new_account(in))
  BY <1>1, AcceptedFloor DEF CreditIsCovered
<1>3. \A u \in Users : leaves[u].deposit_credit \in Nat /\ leaves[u].provider_allowance \in Nat
  BY WordAssumption DEF TypeOK, Account, U64, Allowances
<1>4. \A u \in Users : leaves'[u] = IF u = req.user_id THEN new_account(in) ELSE leaves[u]
  BY <1>1 DEF TypeOK
<1> QED BY <1>2, <1>3, <1>4 DEF KeepsOutOfReach, out_of_reach

\* And through any step of the rollup.
LEMMA NextKeepsFloor ==
    ASSUME TypeOK, CreditIsCovered, [Next]_vars
    PROVE  \A u \in Users : KeepsOutOfReach(leaves[u], leaves'[u])
<1>1. CASE Next
  BY <1>1, NextIsSubmit, SubmitKeepsFloor
<1>2. CASE UNCHANGED vars
  <2>1. \A u \in Users : leaves[u].deposit_credit \in Nat /\ leaves[u].provider_allowance \in Nat
    BY WordAssumption DEF TypeOK, Account, U64, Allowances
  <2> QED BY <1>2, <2>1 DEF vars, KeepsOutOfReach, out_of_reach
<1> QED BY <1>1, <1>2

\* Without a signature, the part of a deposit its owner has not opened to
\* providers never shrinks.
THEOREM DepositCorrect == Spec => DepositIsOutOfReach
<1>1. /\ TypeOK /\ CreditIsCovered /\ [Next]_vars
      => \A u \in Users : KeepsOutOfReach(leaves[u], leaves'[u])
  BY NextKeepsFloor
<1> QED BY <1>1, TypeCorrect, CreditCorrect, PTL DEF Spec, DepositIsOutOfReach

\* A step bumps at most one lane of a nonce, by one, without a carry.
THEOREM LanesCorrect == Spec => LanesAdvanceByOne
<1>1. TypeOK /\ [Next]_vars => \A u \in Users : AdvancesOneLane(leaves[u], leaves'[u])
  BY NextIsSafe DEF StepIsSafe
<1> QED BY <1>1, TypeCorrect, PTL DEF Spec, LanesAdvanceByOne

\* A step never turns a nonce back.
LEMMA NonceIsMonotone ==
    ASSUME TypeOK, TypeOK', NEW u \in Users, AdvancesOneLane(leaves[u], leaves'[u])
    PROVE  leaves'[u].nonce >= leaves[u].nonce
<1>1. leaves[u].nonce \in Nonces /\ leaves'[u].nonce \in Nonces
  BY DEF TypeOK, Account
<1>2. PICK unit \in Nat, old \in Nat, new \in Nat, games \in Nat, gamesAfter \in Nat :
          /\ leaves[u].nonce = old * unit + games
          /\ leaves'[u].nonce = new * unit + gamesAfter
          /\ new >= old /\ gamesAfter >= games
  <2>1. ACCOUNT_LANE_UNIT \in Nat
    BY LaneAssumption DEF ACCOUNT_LANE_UNIT
  <2>2. /\ account_lane(leaves[u].nonce) \in Nat /\ game_lane(leaves[u].nonce) \in Nat
        /\ account_lane(leaves'[u].nonce) \in Nat /\ game_lane(leaves'[u].nonce) \in Nat
    BY <1>1, JoinOfSplit, LaneAssumption
  <2>3. /\ leaves[u].nonce =
             account_lane(leaves[u].nonce) * ACCOUNT_LANE_UNIT + game_lane(leaves[u].nonce)
        /\ leaves'[u].nonce =
             account_lane(leaves'[u].nonce) * ACCOUNT_LANE_UNIT + game_lane(leaves'[u].nonce)
    BY <1>1, JoinOfSplit DEF join_nonce
  <2>4. /\ account_lane(leaves'[u].nonce) >= account_lane(leaves[u].nonce)
        /\ game_lane(leaves'[u].nonce) >= game_lane(leaves[u].nonce)
    BY <2>2 DEF AdvancesOneLane
  <2> QED BY <2>1, <2>2, <2>3, <2>4
<1>3. new * unit >= old * unit
  <2>1. PICK more \in Nat : new = old + more
    BY <1>2
  <2>2. new * unit = old * unit + more * unit /\ more * unit \in Nat
    BY <1>2, <2>1
  <2> QED BY <1>2, <2>2
<1>4. old * unit \in Int /\ new * unit \in Int
  BY <1>2
<1> QED BY <1>2, <1>3, <1>4

-----------------------------------------------------------------------------
\* An accepted slot moves the total by as much as the balance it rewrites.
LEMMA SubmitLiability ==
    ASSUME TypeOK, LiabilityIsSum, NEW req, SoundRequest(req), Submit(req)
    PROVE  LiabilityIsSum'
<1> DEFINE in == SlotInput(req, leaves, tl)
           u == req.user_id
           f == Balances(leaves)
<1>1. /\ SoundInput(in) /\ validate_slot(in) = Ok
      /\ in.old = leaves[u] /\ in.old_total_liability = tl
      /\ leaves' = [leaves EXCEPT ![u] = new_account(in)]
      /\ tl' = new_tl(in)
      /\ u \in Users
  BY WitnessSound, SubmitEffects
<1>2. /\ NumUsers \in Nat /\ u \in 0 .. NumUsers - 1
      /\ f \in [0 .. NumUsers - 1 -> Int] /\ f[u] = in.old.balance
  BY <1>1, TreeAssumption, WordAssumption DEF Users, Balances, TypeOK, Account, U64
<1>3. new_balance(in) \in Int /\ add_full(in) \in Nat /\ sub_full(in) \in Nat
  BY <1>1, AcceptedMoney, WordAssumption DEF U64
<1>4. Balances(leaves') = [f EXCEPT ![u] = new_balance(in)]
  <2>1. new_account(in).balance = new_balance(in)
    BY DEF new_account
  <2> QED BY <1>1, <2>1 DEF Balances, TypeOK
<1>5. SumBelow(Balances(leaves'), NumUsers) =
        SumBelow(f, NumUsers) + new_balance(in) - in.old.balance
  <2> DEFINE g == [f EXCEPT ![u] = new_balance(in)]
  <2> HIDE DEF f, in, u
  <2>1. SumBelow(g, NumUsers) = SumBelow(f, NumUsers) + new_balance(in) - f[u]
    BY <1>2, <1>3, SumOfUpdate
  <2> QED BY <1>2, <1>4, <2>1
<1>6. in.old.balance \in Int /\ tl \in Int
  BY <1>1, WordAssumption DEF TypeOK, SoundInput, Account, U64
<1> QED BY <1>1, <1>3, <1>5, <1>6 DEF LiabilityIsSum, new_tl, new_balance

\* The empty rollup owes nothing.
LEMMA InitLiability ==
    ASSUME Init
    PROVE  LiabilityIsSum
<1>1. /\ NumUsers \in Nat
      /\ Balances(leaves) \in [0 .. NumUsers - 1 -> Int]
      /\ \A i \in 0 .. NumUsers - 1 : Balances(leaves)[i] = 0
  BY TreeAssumption DEF Init, Balances, Users, EmptyAccount
<1> QED BY <1>1, SumOfZeros DEF Init, LiabilityIsSum

\* The operator owes exactly the sum of the balances, for any number of users.
THEOREM LiabilityCorrect == Spec => []LiabilityIsSum
<1>1. Init => LiabilityIsSum
  BY InitLiability
<1>2. TypeOK /\ LiabilityIsSum /\ [Next]_vars => LiabilityIsSum'
  <2>1. CASE Next
    BY <2>1, NextIsSubmit, SubmitLiability
  <2>2. CASE UNCHANGED vars
    BY <2>2 DEF vars, LiabilityIsSum
  <2> QED BY <2>1, <2>2
<1> QED BY <1>1, <1>2, TypeCorrect, PTL DEF Spec

-----------------------------------------------------------------------------
\* The amounts and the opaque groups of a request are field elements.
CanonicalRequest(req) ==
    /\ is_canonical(req.amount) /\ is_canonical(req.win_amount)
    /\ \A group \in {req.server_seed, req.user_seed, req.next_server_seed_hash,
                     req.new_pk_hash, req.prediction_hash, req.user_secret_random} :
          all_canonical(group)

\* The checks before compute_effects are about the witness: one that is read at
\* once passes them all, so its request is judged by its effects alone.
LEMMA HonestWitnessPasses ==
    ASSUME TypeOK, RootCommitsLeaves,
           NEW req, SoundRequest(req), CanonicalRequest(req), req.tx_type <= MAX_TX_TYPE
    PROVE  LET in == SlotInput(req, leaves, tl)
           IN compute_effects(in) = Ok => validate_slot(in) = Ok
<1> DEFINE in == SlotInput(req, leaves, tl)
           u == req.user_id
<1>1. /\ SoundInput(in) /\ in.req = req /\ in.old = leaves[u]
      /\ in.old_total_liability = tl /\ in.main_siblings = SiblingsOf(leaves)
      /\ in.current_root = root /\ in.current_tl = tl
  BY WitnessSound DEF SlotInput
<1>2. u \in Users
  BY DEF SoundRequest
<1>3. in.old.provider_allowance \in Allowances /\ in.old.nonce \in Nonces
  BY <1>1 DEF SoundInput, Account
<1> HIDE DEF in
<1>6. check_tx_type(in) = Ok
  BY <1>1 DEF check_tx_type, Require, Ok
<1>7. check_field_canonicity(in) = Ok
  <2>1. is_canonical(in.old.nonce)
    BY <1>3, LaneAssumption, WordAssumption
       DEF is_canonical, Nonces, NONCE_LIMIT, ACCOUNT_LANE_UNIT
  <2>2. /\ all_canonical(in.old.seed_hash) /\ all_canonical(in.old.pk_hash)
        /\ all_canonical(in.old.address_hash)
    BY <1>1, ZeroIsCanonical, SeedHashAssumption, IdentityHashAssumption
       DEF all_canonical, SoundInput, Account
  <2>3. \A x \in DOMAIN in.main_siblings : all_canonical(in.main_siblings[x])
    BY <1>1, LeafHashAssumption DEF SiblingsOf, TypeOK, all_canonical
  <2> QED BY <1>1, <2>1, <2>2, <2>3 DEF check_field_canonicity, CanonicalRequest, Require, Ok
<1>8. check_amount_canonicity(in) = Ok
  BY <1>1 DEF check_amount_canonicity, CanonicalRequest, Require, Ok
<1>9. check_stored_allowance_range(in) = Ok
  BY <1>3, WordAssumption DEF check_stored_allowance_range, Allowances, Require, Ok
<1>10. check_user_id_range(in) = Ok
  BY <1>1, <1>2, TreeAssumption DEF check_user_id_range, Users, Require, Ok
<1>11. verify_current_root(in) = Ok
  <2>1. SiblingsOf(leaves) = [SiblingsOf(leaves) EXCEPT ![u] = main_leaf(leaves[u])]
    BY DEF SiblingsOf
  <2> QED BY <1>1, <1>2, <2>1
          DEF verify_current_root, compute_root, root_from_leaf, RootCommitsLeaves,
              RootOf, Require, Ok
<1>12. check_tl_chain(in) = Ok
  BY <1>1 DEF check_tl_chain, Require, Ok
<1> QED BY <1>6, <1>7, <1>8, <1>9, <1>10, <1>11, <1>12, ChainOk DEF validate_slot, in

\* No account holds more than the total.
LEMMA BalanceBelowTotal ==
    ASSUME TypeOK, LiabilityIsSum, NEW u \in Users
    PROVE  leaves[u].balance <= tl
<1>1. /\ NumUsers \in Nat /\ u \in 0 .. NumUsers - 1
      /\ Balances(leaves) \in [0 .. NumUsers - 1 -> Nat]
  BY TreeAssumption, WordAssumption DEF Users, Balances, TypeOK, Account, U64
<1>2. Balances(leaves)[u] = leaves[u].balance
  BY DEF Balances
<1> QED BY <1>1, <1>2, TermBelowSum DEF LiabilityIsSum

-----------------------------------------------------------------------------
\* A withdrawal of what an account holds passes every check, in the order of
\* the code, in every state with the invariants.
LEMMA ExitAccepted ==
    ASSUME TypeOK, RootCommitsLeaves, LiabilityIsSum,
           NEW u \in Users, NEW amount \in U64, NEW address \in Addresses,
           leaves[u].pk_hash # ZeroHash,
           amount <= leaves[u].balance, is_canonical(amount),
           account_lane(leaves[u].nonce) # ACCOUNT_LANE_MAX
    PROVE  validate_slot(SlotInput(WithdrawalRequest(u, amount, address, address),
                                   leaves, tl)) = Ok
<1> DEFINE req == WithdrawalRequest(u, amount, address, address)
           in == SlotInput(req, leaves, tl)
<1>1. /\ req.tx_type = TX_WITHDRAWAL /\ req.user_id = u
      /\ req.amount = amount /\ req.win_amount = 0
      /\ req.server_seed = Zero /\ req.user_seed = Zero
      /\ req.next_server_seed_hash = Zero /\ req.new_pk_hash = ZeroHash
      /\ req.user_address = address /\ req.prediction_hash = Zero
      /\ req.user_secret_random = Zero
      /\ req.recipient_addr_hash = recipient_addr_hash_for(TX_WITHDRAWAL, address)
  BY DEF WithdrawalRequest, Request
<1>2. /\ SoundInput(in) /\ in.req = req /\ in.old = leaves[u]
      /\ in.old_total_liability = tl /\ in.main_siblings = SiblingsOf(leaves)
      /\ in.current_root = root /\ in.current_tl = tl
  BY <1>1, WitnessSound, WithdrawalRequestSound DEF SlotInput
<1>3. /\ in.old.balance \in U64 /\ in.old.deposit_credit \in U64
      /\ in.old.provider_allowance \in Allowances /\ in.old.nonce \in Nonces
      /\ tl \in U64
  BY <1>2 DEF SoundInput, Account
<1> DEFINE t == in.req.tx_type
<1>4. /\ t = 6 /\ ~is_ihb_or_crash(t) /\ ~is_user_add(t) /\ is_user_sub(t)
      /\ t # TX_DEPOSIT /\ t # TX_RISK_REJECT /\ t # TX_SET_PROVIDER_ALLOWANCE
      /\ t # TX_BET /\ t # TX_IN_HOUSE_BET /\ t # TX_SET_INIT_SEED_HASH
      /\ ~is_key_setter(in) /\ ~is_needs_new_seed(in)
  BY <1>1, <1>2 DEF is_ihb_or_crash, is_user_add, is_user_sub, is_key_setter,
     is_needs_new_seed, is_first_registration, TX_WITHDRAWAL, TX_DEPOSIT, TX_WIN,
     TX_BONUS, TX_REFERRAL, TX_RISK_REJECT, TX_SET_PROVIDER_ALLOWANCE, TX_BET,
     TX_IN_HOUSE_BET, TX_CRASH_SETTLE, TX_SET_INIT_SEED_HASH, TX_KEY_REGISTER_ONLY
<1>5. add_full(in) = 0 /\ sub_full(in) = amount
  BY <1>1, <1>2, <1>4 DEF add_full, sub_full
<1>6. compute_effects(in) = Ok => validate_slot(in) = Ok
  <2>1. all_canonical(Zero) /\ all_canonical(ZeroHash)
    BY ZeroIsCanonical, IdentityHashAssumption DEF all_canonical
  <2>2. CanonicalRequest(req)
    BY <1>1, <2>1, WordAssumption DEF CanonicalRequest, is_canonical
  <2>3. SoundRequest(req) /\ req.tx_type <= MAX_TX_TYPE
    BY <1>2, <1>4, WithdrawalRequestSound DEF MAX_TX_TYPE
  <2> HIDE DEF req
  <2> QED BY <2>2, <2>3, HonestWitnessPasses
<1>7. check_house_account(in) = Ok
  BY <1>4, ChainOk DEF check_house_account, Require, Ok
<1>8. new_balance(in) = in.old.balance - amount /\ new_balance(in) \in Nat
  BY <1>2, <1>3, <1>5, WordAssumption DEF new_balance, U64
<1>9. build_balance_changes(in) = Ok
  <2>1. in.old.balance + add_full(in) <= U64_MAX
    BY <1>3, <1>5, WordAssumption DEF U64
  <2>2. credit_post_deposit(in) <= U64_MAX
    BY <1>3, <1>4, WordAssumption DEF credit_post_deposit, U64
  <2> QED BY <1>8, <2>1, <2>2, ChainOk DEF build_balance_changes, Require, Ok
<1>10. compute_new_allowance(in) = Ok
  <2>1. new_allowance(in) = in.old.provider_allowance
    BY <1>4 DEF new_allowance
  <2> QED BY <1>3, <2>1, ChainOk, WordAssumption
          DEF compute_new_allowance, Allowances, Require, Ok
<1>11. risk_reject_floor(in) = Ok
  BY <1>4 DEF risk_reject_floor, Require, Ok
<1>12. build_address(in) = Ok
  BY <1>4 DEF build_address, Require, Ok
<1>13. check_recipient_binding(in) = Ok
  BY <1>1, <1>2 DEF check_recipient_binding, Require, Ok
<1>14. check_auth(in) = Ok
  BY <1>2 DEF check_auth, Require, Ok
<1>15. check_new_nonce(in) = Ok
  <2>1. in.old.nonce < NONCE_LIMIT
    BY <1>3, LaneAssumption DEF Nonces, NONCE_LIMIT, ACCOUNT_LANE_UNIT
  <2>2. ~is_game_lane(t)
    BY <1>4 DEF is_game_lane
  <2> QED BY <1>2, <2>1, <2>2
          DEF check_new_nonce, compute_new_nonce_check, Require, Ok
<1>16. check_new_seed(in) = Ok
  BY <1>4 DEF check_new_seed, Require, Ok
<1>17. compute_new_tl(in) = Ok
  <2>1. leaves[u].balance <= tl
    BY BalanceBelowTotal
  <2>2. new_tl(in) = tl - amount
    BY <1>2, <1>3, <1>5, WordAssumption DEF new_tl, U64
  <2> QED BY <1>2, <1>3, <1>5, <2>1, <2>2, WordAssumption
          DEF compute_new_tl, Require, Ok, U64
<1>18. compute_effects(in) = Ok
  BY <1>4, <1>7, <1>9, <1>10, <1>11, <1>12, <1>13, <1>14, <1>15, <1>16, <1>17, ChainOk
     DEF compute_effects
<1> QED BY <1>6, <1>18

\* So does a new allowance, of any width a leaf can store, zero included.
LEMMA AllowanceAccepted ==
    ASSUME TypeOK, RootCommitsLeaves, LiabilityIsSum,
           NEW u \in Users, NEW amount \in Allowances,
           leaves[u].pk_hash # ZeroHash,
           game_lane(leaves[u].nonce) # GAME_LANE_MAX
    PROVE  validate_slot(SlotInput(AmountRequest(TX_SET_PROVIDER_ALLOWANCE, u, amount),
                                   leaves, tl)) = Ok
<1> DEFINE req == AmountRequest(TX_SET_PROVIDER_ALLOWANCE, u, amount)
           in == SlotInput(req, leaves, tl)
<1>1. /\ req.tx_type = 13 /\ req.user_id = u
      /\ req.amount = amount /\ req.win_amount = 0
      /\ req.server_seed = Zero /\ req.user_seed = Zero
      /\ req.next_server_seed_hash = Zero /\ req.new_pk_hash = ZeroHash
      /\ req.prediction_hash = Zero /\ req.user_secret_random = Zero
      /\ req.recipient_addr_hash = Zero
  BY DEF AmountRequest, Request, TX_SET_PROVIDER_ALLOWANCE
<1>2. SoundRequest(req)
  <2>1. amount \in U64
    BY WordAssumption DEF U64, Allowances
  <2> QED BY <2>1, DefaultRequest
          DEF AmountRequest, SoundRequest, Request, TX_SET_PROVIDER_ALLOWANCE
<1>3. /\ in.req = req /\ in.old = leaves[u] /\ in.old_total_liability = tl
  BY <1>1 DEF SlotInput
<1>4. /\ leaves[u].balance \in U64 /\ leaves[u].deposit_credit \in U64
      /\ leaves[u].provider_allowance \in Allowances /\ leaves[u].nonce \in Nonces
      /\ tl \in U64
  BY DEF TypeOK, Account
<1>5. compute_effects(in) = Ok => validate_slot(in) = Ok
  <2>1. all_canonical(Zero) /\ all_canonical(ZeroHash)
    BY ZeroIsCanonical, IdentityHashAssumption DEF all_canonical
  <2>2. CanonicalRequest(req)
    BY <1>1, <2>1, WordAssumption DEF CanonicalRequest, is_canonical, Allowances
  <2>3. req.tx_type <= MAX_TX_TYPE
    BY <1>1 DEF MAX_TX_TYPE
  <2> HIDE DEF req
  <2> QED BY <1>2, <2>2, <2>3, HonestWitnessPasses
<1> HIDE DEF in, req
<1> DEFINE t == in.req.tx_type
<1>6. /\ t = TX_SET_PROVIDER_ALLOWANCE /\ ~is_ihb_or_crash(t)
      /\ ~is_user_add(t) /\ ~is_user_sub(t)
      /\ t # TX_DEPOSIT /\ t # TX_RISK_REJECT /\ t # TX_WITHDRAWAL
      /\ t # TX_IN_HOUSE_BET /\ t # TX_SET_INIT_SEED_HASH
      /\ ~is_key_setter(in) /\ ~is_needs_new_seed(in) /\ ~is_account_lane(t)
  BY <1>1, <1>3 DEF is_ihb_or_crash, is_user_add, is_user_sub, is_key_setter,
     is_needs_new_seed, is_first_registration, is_account_lane, TX_WITHDRAWAL, TX_DEPOSIT,
     TX_WIN, TX_BONUS, TX_REFERRAL, TX_RISK_REJECT, TX_SET_PROVIDER_ALLOWANCE, TX_BET,
     TX_IN_HOUSE_BET, TX_CRASH_SETTLE, TX_SET_INIT_SEED_HASH, TX_KEY_REGISTER_ONLY,
     TX_TRANSFER
<1>7. add_full(in) = 0 /\ sub_full(in) = 0
  BY <1>6 DEF add_full, sub_full
<1>8. check_house_account(in) = Ok
  BY <1>6, ChainOk DEF check_house_account, Require, Ok
<1>9. build_balance_changes(in) = Ok
  <2>1. /\ in.old.balance + add_full(in) <= U64_MAX
        /\ new_balance(in) >= 0
        /\ credit_post_deposit(in) <= U64_MAX
    BY <1>3, <1>4, <1>6, <1>7, WordAssumption DEF new_balance, credit_post_deposit, U64
  <2> QED BY <2>1, ChainOk DEF build_balance_changes, Require, Ok
<1>10. compute_new_allowance(in) = Ok
  <2>1. new_allowance(in) = amount
    BY <1>1, <1>3, <1>6 DEF new_allowance, TX_SET_PROVIDER_ALLOWANCE, TX_BET
  <2> QED BY <1>3, <1>4, <2>1, ChainOk, WordAssumption
          DEF compute_new_allowance, Allowances, Require, Ok
<1>11. risk_reject_floor(in) = Ok
  BY <1>6 DEF risk_reject_floor, Require, Ok
<1>12. build_address(in) = Ok
  BY <1>6 DEF build_address, Require, Ok
<1>13. check_recipient_binding(in) = Ok
  BY <1>1, <1>3, <1>6 DEF check_recipient_binding, recipient_addr_hash_for, Require, Ok
<1>14. check_auth(in) = Ok
  BY <1>3 DEF check_auth, Require, Ok
<1>15. check_new_nonce(in) = Ok
  <2>1. in.old.nonce < NONCE_LIMIT
    BY <1>3, <1>4, LaneAssumption DEF Nonces, NONCE_LIMIT, ACCOUNT_LANE_UNIT
  <2> QED BY <1>3, <1>6, <2>1
          DEF check_new_nonce, is_account_signed, compute_new_nonce_check, Require, Ok
<1>16. check_new_seed(in) = Ok
  BY <1>6 DEF check_new_seed, Require, Ok
<1>17. compute_new_tl(in) = Ok
  BY <1>3, <1>4, <1>7, WordAssumption DEF compute_new_tl, new_tl, Require, Ok, U64
<1>18. compute_effects(in) = Ok
  BY <1>6, <1>8, <1>9, <1>10, <1>11, <1>12, <1>13, <1>14, <1>15, <1>16, <1>17, ChainOk
     DEF compute_effects
<1> QED BY <1>5, <1>18 DEF in, req

\* An owner is never locked in by the state of the accounts alone.
LEMMA OpenExit ==
    ASSUME TypeOK, RootCommitsLeaves, LiabilityIsSum
    PROVE  ExitIsOpen
  BY ExitAccepted, AllowanceAccepted DEF ExitIsOpen, IsAccepted

\* Whatever slots came before, the owner of a registered account can take out
\* any part of its balance, until its account lane is used up, and set or revoke
\* its allowance, until its game lane is.
THEOREM ExitCorrect == Spec => []ExitIsOpen
  BY OpenExit, TypeCorrect, RootCorrect, LiabilityCorrect, PTL

(***************************************************************************)
(* The rollup implements the ledger: every accepted slot, whatever its     *)
(* type, is one of the ledger's moves or leaves the money alone.           *)
(***************************************************************************)
Accounts(store) == [u \in Users |-> AccountOf(store[u])]

\* What a type does to the money, as one of the moves of the ledger.
IsFunding(t) == t \in {TX_DEPOSIT, TX_WIN, TX_BONUS, TX_REFERRAL}
IsSpending(t) == is_ihb_or_crash(t) \/ t \in {TX_WITHDRAWAL, TX_TRANSFER}
IsIdle(t) == t \in {TX_NOOP, TX_SET_INIT_SEED_HASH, TX_KEY_REGISTER_ONLY}

\* Every type has its move: no code is left over.
LEMMA EveryTypeMoves ==
    ASSUME NEW in, SoundInput(in), validate_slot(in) = Ok
    PROVE  LET t == in.req.tx_type
           IN \/ IsFunding(t) \/ IsSpending(t) \/ IsIdle(t)
              \/ t \in {TX_BET, TX_RISK_REJECT, TX_SET_PROVIDER_ALLOWANCE}
<1>1. in.req.tx_type \in 0 .. MAX_TX_TYPE
  BY AcceptedChecks DEF check_tx_type, Require, Ok, SoundInput, MAX_TX_TYPE
<1> QED BY <1>1
        DEF IsFunding, IsSpending, IsIdle, is_ihb_or_crash, MAX_TX_TYPE, TX_NOOP,
            TX_DEPOSIT, TX_BET, TX_WIN, TX_BONUS, TX_IN_HOUSE_BET, TX_WITHDRAWAL,
            TX_RISK_REJECT, TX_SET_INIT_SEED_HASH, TX_KEY_REGISTER_ONLY, TX_TRANSFER,
            TX_REFERRAL, TX_CRASH_SETTLE, TX_SET_PROVIDER_ALLOWANCE

\* The account an accepted slot leaves, in terms of the old one and the move.
LEMMA MovedAccount ==
    ASSUME NEW in, SoundInput(in), validate_slot(in) = Ok
    PROVE  LET t == in.req.tx_type
               amount == in.req.amount
               old == in.old
           IN /\ IsFunding(t) =>
                   /\ new_balance(in) = old.balance + amount
                   /\ new_credit(in) =
                        old.deposit_credit + (IF t = TX_DEPOSIT THEN amount ELSE 0)
                   /\ new_allowance(in) = old.provider_allowance
              /\ IsSpending(t) =>
                   /\ new_credit(in) = Money!Smaller(old.deposit_credit, new_balance(in))
                   /\ new_allowance(in) = old.provider_allowance
              /\ t = TX_BET =>
                   /\ new_balance(in) = old.balance - amount
                   /\ new_credit(in) = Money!Smaller(old.deposit_credit, new_balance(in))
                   /\ new_allowance(in) = old.provider_allowance - amount
              /\ t = TX_RISK_REJECT =>
                   /\ new_balance(in) = old.balance - amount
                   /\ new_credit(in) = old.deposit_credit
                   /\ new_allowance(in) = old.provider_allowance
              /\ t = TX_SET_PROVIDER_ALLOWANCE =>
                   /\ new_balance(in) = old.balance
                   /\ new_credit(in) = old.deposit_credit
                   /\ new_allowance(in) = amount
              /\ IsIdle(t) =>
                   /\ new_balance(in) = old.balance
                   /\ new_credit(in) = old.deposit_credit
                   /\ new_allowance(in) = old.provider_allowance
<1> DEFINE t == in.req.tx_type
<1>1. /\ in.old.balance \in Nat /\ in.old.deposit_credit \in Nat
      /\ in.req.amount \in Nat /\ in.req.win_amount \in Nat
  BY WordAssumption DEF SoundInput, Account, U64
<1>2. new_balance(in) \in Nat
  BY AcceptedMoney, WordAssumption DEF U64
<1>3. IsFunding(t) \/ IsSpending(t) \/ IsIdle(t)
         \/ t \in {TX_BET, TX_RISK_REJECT, TX_SET_PROVIDER_ALLOWANCE}
  BY EveryTypeMoves
<1> USE DEF TX_NOOP, TX_DEPOSIT, TX_BET, TX_WIN, TX_BONUS, TX_IN_HOUSE_BET,
            TX_WITHDRAWAL, TX_RISK_REJECT, TX_SET_INIT_SEED_HASH,
            TX_KEY_REGISTER_ONLY, TX_TRANSFER, TX_REFERRAL, TX_CRASH_SETTLE,
            TX_SET_PROVIDER_ALLOWANCE, is_ihb_or_crash
<1>4. CASE IsFunding(t)
  BY <1>1, <1>4 DEF IsFunding, IsSpending, IsIdle, new_balance, add_full, sub_full,
     is_user_add, is_user_sub, new_credit, credit_post_deposit, is_balance_loss,
     new_allowance
<1>5. CASE IsSpending(t)
  <2>1. ~IsFunding(t) /\ ~IsIdle(t) /\ is_balance_loss(t) /\ t # TX_DEPOSIT
        /\ t \notin {TX_BET, TX_RISK_REJECT, TX_SET_PROVIDER_ALLOWANCE}
    BY <1>5 DEF IsFunding, IsSpending, IsIdle, is_balance_loss
  <2> QED BY <1>1, <1>2, <2>1
          DEF new_credit, credit_post_deposit, new_allowance, Money!Smaller
<1>6. CASE t = TX_BET
  BY <1>1, <1>2, <1>6 DEF IsFunding, IsSpending, IsIdle, new_balance, add_full,
     sub_full, is_user_add, is_user_sub, new_credit, credit_post_deposit,
     is_balance_loss, new_allowance, Money!Smaller
<1>7. CASE IsIdle(t) \/ t \in {TX_RISK_REJECT, TX_SET_PROVIDER_ALLOWANCE}
  BY <1>1, <1>7 DEF IsFunding, IsSpending, IsIdle, new_balance, add_full,
     sub_full, is_user_add, is_user_sub, new_credit, credit_post_deposit,
     is_balance_loss, new_allowance
<1> QED BY <1>3, <1>4, <1>5, <1>6, <1>7

\* An accepted slot replaces one account, moves the total with its balance and
\* leaves both within a u64.
LEMMA SubmitMoves ==
    ASSUME TypeOK, NEW req, SoundRequest(req), Submit(req)
    PROVE  LET in == SlotInput(req, leaves, tl)
           IN Money!Move(req.user_id, AccountOf(new_account(in)))
<1> DEFINE in == SlotInput(req, leaves, tl)
           u == req.user_id
           b == AccountOf(new_account(in))
<1>1. /\ SoundInput(in) /\ validate_slot(in) = Ok
      /\ in.old = leaves[u] /\ in.old_total_liability = tl
      /\ leaves' = [leaves EXCEPT ![u] = new_account(in)]
      /\ tl' = new_tl(in)
      /\ u \in Users
  BY WitnessSound, SubmitEffects
<1>2. b.balance = new_balance(in)
  BY DEF AccountOf, new_account
<1>3. Accounts(leaves)[u].balance = in.old.balance
  BY <1>1 DEF Accounts, AccountOf
<1>4. /\ new_balance(in) \in U64 /\ new_tl(in) \in U64
      /\ add_full(in) \in Nat /\ sub_full(in) \in Nat
      /\ in.old.balance \in Nat /\ tl \in Nat
  BY <1>1, AcceptedMoney, WordAssumption DEF SoundInput, Account, U64
<1>5. tl' = tl + b.balance - Accounts(leaves)[u].balance
  BY <1>1, <1>2, <1>3, <1>4 DEF new_tl, new_balance
<1>6. Accounts(leaves') = [Accounts(leaves) EXCEPT ![u] = b]
  BY <1>1 DEF Accounts, TypeOK
<1> QED BY <1>1, <1>2, <1>4, <1>5, <1>6 DEF Money!Move, Money!Amount, Accounts, U64

\* By type, an accepted slot is the ledger's move of that name.
LEMMA SubmitImplements ==
    ASSUME TypeOK, NEW req, SoundRequest(req), Submit(req)
    PROVE  Money!Next \/ UNCHANGED Money!vars
<1> DEFINE in == SlotInput(req, leaves, tl)
           u == req.user_id
           t == req.tx_type
           amount == req.amount
           b == AccountOf(new_account(in))
           a == Accounts(leaves)[u]
<1>1. /\ SoundInput(in) /\ validate_slot(in) = Ok /\ in.req = req
      /\ in.old = leaves[u] /\ u \in Users
      /\ leaves' = [leaves EXCEPT ![u] = new_account(in)]
      /\ tl' = new_tl(in)
  BY WitnessSound, SubmitEffects
<1>2. Money!Move(u, b)
  BY SubmitMoves
<1>3. /\ a = [balance |-> in.old.balance, credit |-> in.old.deposit_credit,
              allowance |-> in.old.provider_allowance]
      /\ b = [balance |-> new_balance(in), credit |-> new_credit(in),
              allowance |-> new_allowance(in)]
  BY <1>1 DEF Accounts, AccountOf, new_account
<1>4. /\ amount \in Money!Amount /\ new_balance(in) \in Money!Amount
      /\ in.old.balance \in Nat /\ in.old.deposit_credit \in Nat
      /\ in.old.provider_allowance \in Nat /\ new_allowance(in) \in Nat
      /\ amount \in Nat
  BY <1>1, AcceptedMoney, WordAssumption
     DEF SoundInput, Account, Allowances, U64, Money!Amount
<1> HIDE DEF in, a, b
<1>5. CASE IsFunding(t)
  <2>1. CASE t = TX_DEPOSIT
    <3>1. b = [balance |-> a.balance + amount, credit |-> a.credit + amount,
               allowance |-> a.allowance]
      BY <1>1, <1>3, <1>5, <2>1, MovedAccount
    <3>2. Money!Fund(u, amount, amount)
      BY <1>2, <3>1 DEF Money!Fund, Accounts, a, b
    <3> QED BY <1>1, <1>4, <3>2 DEF Money!Next
  <2>2. CASE t # TX_DEPOSIT
    <3>1. b = [balance |-> a.balance + amount, credit |-> a.credit + 0,
               allowance |-> a.allowance]
      BY <1>1, <1>3, <1>4, <1>5, <2>2, MovedAccount
    <3>2. Money!Fund(u, amount, 0)
      BY <1>2, <3>1 DEF Money!Fund, Accounts, a, b
    <3> QED BY <1>1, <1>4, <3>2 DEF Money!Next
  <2> QED BY <2>1, <2>2
<1>6. CASE IsSpending(t)
  <2>1. b = [balance |-> new_balance(in),
             credit |-> Money!Smaller(a.credit, new_balance(in)),
             allowance |-> a.allowance]
    BY <1>1, <1>3, <1>6, MovedAccount
  <2>2. Money!Spend(u, new_balance(in))
    BY <1>2, <2>1 DEF Money!Spend, Accounts, a, b
  <2> QED BY <1>1, <1>4, <2>2 DEF Money!Next
<1>7. CASE t = TX_BET
  <2>1. b = [balance |-> a.balance - amount,
             credit |-> Money!Smaller(a.credit, a.balance - amount),
             allowance |-> a.allowance - amount]
    BY <1>1, <1>3, <1>7, MovedAccount
  <2>2. amount <= a.allowance
    BY <1>1, <1>3, <1>4, <1>7, MovedAccount
  <2>3. Money!ProviderDebit(u, amount)
    BY <1>2, <2>1, <2>2 DEF Money!ProviderDebit, Accounts, a, b
  <2> QED BY <1>1, <1>4, <2>3 DEF Money!Next
<1>8. CASE t = TX_RISK_REJECT
  <2>1. b = [a EXCEPT !.balance = @ - amount]
    BY <1>1, <1>3, <1>8, MovedAccount
  <2>2. a.balance - amount >= a.credit
    <3>1. new_balance(in) >= in.old.deposit_credit
      BY <1>1, <1>8, AcceptedChecks DEF risk_reject_floor, Require, Ok
    <3> QED BY <1>1, <1>3, <1>8, <3>1, MovedAccount
  <2>3. Money!Revert(u, amount)
    BY <1>2, <2>1, <2>2 DEF Money!Revert, Accounts, a, b
  <2> QED BY <1>1, <1>4, <2>3 DEF Money!Next
<1>9. CASE t = TX_SET_PROVIDER_ALLOWANCE
  <2>1. b = [a EXCEPT !.allowance = amount]
    BY <1>1, <1>3, <1>9, MovedAccount
  <2>2. Money!Grant(u, amount)
    BY <1>2, <2>1 DEF Money!Grant, Accounts, a, b
  <2> QED BY <1>1, <1>4, <2>2 DEF Money!Next
<1>10. CASE IsIdle(t)
  <2>1. b = a
    BY <1>1, <1>3, <1>10, MovedAccount
  <2>2. Accounts(leaves') = Accounts(leaves) /\ tl' = tl
    <3>1. tl \in Nat
      BY WordAssumption DEF TypeOK, U64
    <3> QED BY <1>1, <1>2, <1>3, <1>4, <2>1, <3>1 DEF Money!Move, Accounts, a, b
  <2> QED BY <2>2 DEF Money!vars, Accounts
<1> QED BY <1>1, <1>5, <1>6, <1>7, <1>8, <1>9, <1>10, EveryTypeMoves

(***************************************************************************)
(* None of this depends on the requests an instance submits.  A stream of  *)
(* slots accepts any sound request in any order; the modules that put a    *)
(* queue, signatures or proofs in front of the rollup are such streams,    *)
(* and what holds of a stream holds of each of them.                       *)
(***************************************************************************)
AnySlot == \E req : SoundRequest(req) /\ Submit(req)

SlotStream == Init /\ [][AnySlot]_vars

StreamInv ==
    /\ TypeOK /\ RootCommitsLeaves /\ LiabilityIsSum
    /\ CreditIsCovered /\ KeylessIsInert /\ RegisteredIsComplete

\* The rollup of every instance is a stream of slots.
THEOREM RollupIsStream == Spec => SlotStream
<1>1. [Next]_vars => [AnySlot]_vars
  BY NextIsSubmit DEF AnySlot
<1> QED BY <1>1, PTL DEF Spec, SlotStream

\* The invariants of the rollup hold of any stream of slots.
THEOREM StreamSafe == SlotStream => []StreamInv
<1>1. Init => StreamInv
  BY InitTypeOK, InitSafe, InitLiability DEF StreamInv, AccountsSafe
<1>2. StreamInv /\ [AnySlot]_vars => StreamInv'
  <2>1. CASE AnySlot
    BY <2>1, SubmitTypeOK, SubmitRoot, SubmitSafe, SubmitLiability
       DEF AnySlot, StreamInv, AccountsSafe
  <2>2. CASE UNCHANGED vars
    BY <2>2 DEF vars, StreamInv, TypeOK, RootCommitsLeaves, LiabilityIsSum,
                CreditIsCovered, KeylessIsInert, RegisteredIsComplete
  <2> QED BY <2>1, <2>2
<1> QED BY <1>1, <1>2, PTL DEF SlotStream

\* In any stream of slots the owner of a registered account can leave.
THEOREM StreamExit == SlotStream => []ExitIsOpen
<1>1. StreamInv => ExitIsOpen
  BY OpenExit DEF StreamInv
<1> QED BY <1>1, StreamSafe, PTL

\* Any stream of slots moves money only as the ledger allows.
THEOREM StreamImplementsLedger == SlotStream => ImplementsLedger
<1>1. Init => Money!Init
  BY DEF Init, Money!Init, Money!Empty, AccountOf, EmptyAccount
<1>2. StreamInv /\ [AnySlot]_vars => [Money!Next]_(Money!vars)
  <2>1. CASE AnySlot
    BY <2>1, SubmitImplements DEF AnySlot, StreamInv
  <2>2. CASE UNCHANGED vars
    BY <2>2 DEF vars, Money!vars
  <2> QED BY <2>1, <2>2
<1> QED BY <1>1, <1>2, StreamSafe, PTL DEF SlotStream, Money!Spec, ImplementsLedger

\* Whatever the number of users, the widths and the requests, the money of the
\* rollup moves only as the ledger allows.
THEOREM RollupImplementsLedger == Spec => ImplementsLedger
  BY RollupIsStream, StreamImplementsLedger, PTL

\* As long as its nonce stays n, account u keeps a floor of k under its balance
\* from any moment at which k of its credit is out of reach.
StandsOnFloor(u, n, k) ==
    [](leaves[u].nonce = n /\ out_of_reach(leaves[u]) >= k
           => [](leaves[u].nonce = n => leaves[u].balance >= k))

\* However many bets, wins, reverts and deposits follow, and in whatever order, an
\* owner who signs nothing keeps every unit of his deposit but those he allowed
\* providers to debit.
THEOREM DepositFloor ==
    ASSUME NEW u \in Users, NEW n \in Nonces, NEW k \in Int
    PROVE  SlotStream => StandsOnFloor(u, n, k)
<1> DEFINE Reached == leaves[u].nonce = n /\ out_of_reach(leaves[u]) >= k
           Stands == leaves[u].nonce = n => leaves[u].balance >= k
           Kept == leaves[u].nonce >= n /\ (leaves[u].nonce = n => out_of_reach(leaves[u]) >= k)
<1>1. StreamInv /\ Reached => Kept
  BY LaneAssumption DEF Nonces, NONCE_LIMIT, ACCOUNT_LANE_UNIT
<1>2. StreamInv /\ Kept => Stands
  BY WordAssumption
     DEF StreamInv, TypeOK, Account, U64, Allowances, CreditIsCovered, out_of_reach
<1>3. StreamInv /\ StreamInv' /\ Kept /\ [AnySlot]_vars => Kept'
  <2>1. CASE UNCHANGED vars
    BY <2>1 DEF vars
  <2>2. SUFFICES ASSUME StreamInv, StreamInv', Kept, AnySlot
                 PROVE  Kept'
    BY <2>1
  <2>3. PICK req : SoundRequest(req) /\ Submit(req)
    BY <2>2 DEF AnySlot
  <2>4. leaves'[u].nonce >= leaves[u].nonce
    BY <2>2, <2>3, SubmitIsSafe, NonceIsMonotone DEF StepIsSafe, StreamInv
  <2>5. KeepsOutOfReach(leaves[u], leaves'[u])
    BY <2>2, <2>3, SubmitKeepsFloor DEF StreamInv
  <2>6. /\ n \in Int /\ leaves[u].nonce \in Int /\ leaves'[u].nonce \in Int
        /\ leaves[u].deposit_credit \in Int /\ leaves[u].provider_allowance \in Int
        /\ leaves'[u].deposit_credit \in Int /\ leaves'[u].provider_allowance \in Int
    BY <2>2, WordAssumption, LaneAssumption
       DEF StreamInv, TypeOK, Account, U64, Allowances, Nonces, NONCE_LIMIT, ACCOUNT_LANE_UNIT
  <2> QED BY <2>2, <2>4, <2>5, <2>6 DEF KeepsOutOfReach, out_of_reach
<1> HIDE DEF Reached, Stands, Kept
<1>4. SlotStream => [](Reached => []Stands)
  BY <1>1, <1>2, <1>3, StreamSafe, PTL DEF SlotStream
<1> QED BY <1>4 DEF StandsOnFloor, Reached, Stands
=============================================================================
