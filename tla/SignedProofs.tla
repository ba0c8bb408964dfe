---------------------------- MODULE SignedProofs ----------------------------
(***************************************************************************)
(* What a signature authorises happens at most once and as signed, for any *)
(* number of accounts, messages and slots in between.                      *)
(*                                                                         *)
(* The argument goes over the lanes: a message is for the value its lane   *)
(* has or had; a settled one for a value the lane has left behind; and the *)
(* seed of an account stands still while its game lane does.               *)
(***************************************************************************)
EXTENDS SignedSlots, RollupProofs

-----------------------------------------------------------------------------
\* Lanes only grow, and the lane of a signed slot grows by one.
LEMMA SubmitAdvancesLane ==
    ASSUME TypeOK, NEW req, SoundRequest(req), Submit(req), NEW t
    PROVE  /\ \A u \in Users :
                 /\ signed_nonce(t, leaves[u].nonce) \in Nat
                 /\ signed_nonce(t, leaves'[u].nonce) >= signed_nonce(t, leaves[u].nonce)
           /\ NeedsSignature(req) /\ is_game_lane(t) = is_game_lane(req.tx_type) =>
                 signed_nonce(t, leaves'[req.user_id].nonce) =
                    signed_nonce(t, leaves[req.user_id].nonce) + 1
<1> DEFINE in == SlotInput(req, leaves, tl)
           type == req.tx_type
<1>1. /\ SoundInput(in) /\ validate_slot(in) = Ok /\ in.req = req
      /\ in.old = leaves[req.user_id]
      /\ leaves' = [leaves EXCEPT ![req.user_id] = new_account(in)]
      /\ req.user_id \in Users
  BY WitnessSound, SubmitEffects
<1>2. \A u \in Users : /\ game_lane(leaves[u].nonce) \in Nat
                       /\ account_lane(leaves[u].nonce) \in Nat
  <2>1. \A u \in Users : leaves[u].nonce \in Nonces
    BY DEF TypeOK, Account
  <2> QED BY <2>1, JoinOfSplit, LaneAssumption
<1>3. \A u \in Users : AdvancesOneLane(leaves[u], leaves'[u])
  BY SubmitIsSafe DEF StepIsSafe
<1>4. \A u \in Users :
         /\ game_lane(leaves'[u].nonce) - game_lane(leaves[u].nonce) \in {0, 1}
         /\ account_lane(leaves'[u].nonce) - account_lane(leaves[u].nonce) \in {0, 1}
         /\ game_lane(leaves'[u].nonce) \in Int /\ account_lane(leaves'[u].nonce) \in Int
  <2>1. \A u \in Users : leaves'[u].nonce \in Nonces
    BY SubmitTypeOK DEF TypeOK, Account
  <2>2. \A u \in Users : /\ game_lane(leaves'[u].nonce) \in Nat
                         /\ account_lane(leaves'[u].nonce) \in Nat
    BY <2>1, JoinOfSplit, LaneAssumption
  <2> QED BY <1>3, <2>2 DEF AdvancesOneLane
<1>5. leaves'[req.user_id].nonce = new_nonce(in)
  BY <1>1 DEF TypeOK, new_account
<1>6. /\ game_lane(new_nonce(in)) =
            game_lane(leaves[req.user_id].nonce) + Bump(is_game_lane(type))
      /\ account_lane(new_nonce(in)) = account_lane(leaves[req.user_id].nonce)
            + Bump(is_account_bump(type, is_key_setter(in)))
  BY <1>1, AcceptedNonce
<1>7. ASSUME NeedsSignature(req), ~is_game_lane(type)
      PROVE  is_account_bump(type, is_key_setter(in))
  <2>1. is_key_setter([req |-> req]) => is_key_setter(in)
    BY <1>1 DEF is_key_setter
  <2> QED BY <1>7, <2>1 DEF NeedsSignature, is_authenticated,
                 is_account_bump, is_account_lane
<1> QED BY <1>1, <1>2, <1>4, <1>5, <1>6, <1>7 DEF signed_nonce, Bump

\* The seed of an account that has one stands still while its game lane does.
LEMMA SubmitKeepsSeed ==
    ASSUME TypeOK, NEW req, SoundRequest(req), Submit(req),
           NEW u \in Users, u # 0, ~all_zero(leaves[u].seed_hash),
           game_lane(leaves'[u].nonce) = game_lane(leaves[u].nonce)
    PROVE  leaves'[u].seed_hash = leaves[u].seed_hash
<1>1. RotatesSeed(u, leaves[u], leaves'[u])
  BY SubmitIsSafe DEF StepIsSafe
<1>2. game_lane(leaves[u].nonce) \in Nat
  BY JoinOfSplit, LaneAssumption DEF TypeOK, Account
<1> QED BY <1>1, <1>2 DEF RotatesSeed

-----------------------------------------------------------------------------
\* What a message holds.
MessageOK(m) ==
    /\ m.signed.user_id \in Users
    /\ m.nonce \in Nat
    /\ m.signed.tx_type = TX_IN_HOUSE_BET =>
          m.signed.user_seed.prediction_hash = m.prediction_hash

Lane(m) == signed_nonce(m.signed.tx_type, AccountOfMessage(m).nonce)

\* A message is waiting, or went into one slot and its lane moved on.
Unused(m) == settled[m] = << >>
Used(m) == m.nonce < Lane(m) /\ \E receipt : settled[m] = <<receipt>>

\* A bet that may still be settled was signed for the seed of its account.
SeedIsCurrent(m) ==
    m.signed.tx_type = TX_IN_HOUSE_BET /\ m.signed.user_id # 0 /\ m.nonce = Lane(m) =>
        /\ ~all_zero(m.seed_hash)
        /\ AccountOfMessage(m).seed_hash = m.seed_hash

MessageInv(m) ==
    /\ MessageOK(m)
    /\ m.nonce <= Lane(m)
    /\ Unused(m) \/ Used(m)
    /\ SeedIsCurrent(m)

OnePerNonce ==
    \A m, n \in Messages :
        settled[m] # << >> /\ settled[n] # << >> /\ Compete(m, n) => m = n

MessagesInv == \A m \in Messages : MessageInv(m)

SignedInv == TypeOK /\ AccountsSafe /\ MessagesInv /\ OnePerNonce /\ SettledAsSigned

\* An account that an accepted slot rewrites leaves every other message and its
\* history alone.
LEMMA SubmitKeepsMessage ==
    ASSUME TypeOK, NEW req, SoundRequest(req), Submit(req),
           NEW m, MessageInv(m), settled'[m] = settled[m]
    PROVE  MessageInv(m)'
<1> DEFINE t == m.signed.tx_type
           u == m.signed.user_id
<1>1. u \in Users /\ MessageOK(m)' /\ m.nonce \in Nat
  BY DEF MessageInv, MessageOK
<1>2. Lane(m) \in Nat /\ Lane(m)' >= Lane(m) /\ Lane(m)' \in Nat
  <2>1. Lane(m) \in Nat /\ Lane(m)' >= Lane(m)
    BY <1>1, SubmitAdvancesLane DEF Lane, AccountOfMessage
  <2>2. Lane(m)' \in Nat
    <3>1. leaves'[u].nonce \in Nonces
      BY <1>1, SubmitTypeOK DEF TypeOK, Account
    <3>2. game_lane(leaves'[u].nonce) \in Nat /\ account_lane(leaves'[u].nonce) \in Nat
      BY <3>1, JoinOfSplit, LaneAssumption
    <3> QED BY <3>2 DEF Lane, AccountOfMessage, signed_nonce
  <2> QED BY <2>1, <2>2
<1>3. (m.nonce <= Lane(m))'
  BY <1>1, <1>2 DEF MessageInv
<1>4. (Unused(m) \/ Used(m))'
  BY <1>1, <1>2 DEF MessageInv, Unused, Used
<1>5. SeedIsCurrent(m)'
  <2>1. SUFFICES ASSUME t = TX_IN_HOUSE_BET, u # 0, m.nonce = Lane(m)'
                 PROVE  ~all_zero(m.seed_hash) /\ leaves'[u].seed_hash = m.seed_hash
    BY DEF SeedIsCurrent, AccountOfMessage
  <2>2. m.nonce = Lane(m) /\ Lane(m)' = Lane(m)
    BY <1>1, <1>2, <2>1 DEF MessageInv
  <2>3. ~all_zero(m.seed_hash) /\ leaves[u].seed_hash = m.seed_hash
    BY <2>1, <2>2 DEF MessageInv, SeedIsCurrent, AccountOfMessage
  <2>4. game_lane(leaves'[u].nonce) = game_lane(leaves[u].nonce)
    BY <2>1, <2>2 DEF Lane, AccountOfMessage, signed_nonce, is_game_lane, is_ihb_or_crash
  <2> QED BY <1>1, <2>1, <2>3, <2>4, SubmitKeepsSeed
<1> QED BY <1>1, <1>3, <1>4, <1>5 DEF MessageInv

-----------------------------------------------------------------------------
\* Signing adds a message for the present value of its lane and nothing else.
LEMMA SignKeepsInv ==
    ASSUME SignedInv, NEW req \in Requests, Sign(req)
    PROVE  SignedInv'
<1>a. PICK account : account = leaves[req.user_id]
  OBVIOUS
<1>b. PICK m : m = Message(req, account)
  OBVIOUS
<1>1. SoundRequest(req) /\ req.user_id \in Users
  BY SignedAssumption DEF SoundRequest
<1>2. /\ NeedsSignature(req) /\ IsHonest(req)
      /\ is_authenticated(req.tx_type) => account.pk_hash # ZeroHash
      /\ m \notin Messages
      /\ settled' = [n \in Messages \cup {m} |-> IF n = m THEN << >> ELSE settled[n]]
      /\ leaves' = leaves /\ tl' = tl
  BY <1>a, <1>b DEF Sign, vars
<1>3. /\ Messages' = Messages \cup {m}
      /\ settled'[m] = << >>
      /\ \A n \in Messages : settled'[n] = settled[n]
  BY <1>2 DEF Messages
<1>4. /\ m.signed.user_id = req.user_id /\ m.signed.tx_type = req.tx_type
      /\ m.signed.user_seed = req.user_seed
      /\ m.nonce = signed_nonce(req.tx_type, account.nonce)
      /\ m.seed_hash = account.seed_hash /\ m.prediction_hash = req.prediction_hash
  BY <1>b DEF Message, SignedPart
<1>5. MessageInv(m)'
  <2>1. AccountOfMessage(m)' = account
    BY <1>a, <1>2, <1>4 DEF AccountOfMessage
  <2>2. m.nonce = Lane(m)'
    BY <1>4, <2>1 DEF Lane
  <2>3. m.nonce \in Nat
    <3>1. account.nonce \in Nonces
      BY <1>a, <1>1 DEF SignedInv, TypeOK, Account
    <3> QED BY <1>4, <3>1, JoinOfSplit, LaneAssumption DEF signed_nonce
  <2>4. MessageOK(m)'
    BY <1>1, <1>2, <1>4, <2>3 DEF MessageOK, IsHonest, user_seed_binding
  <2>5. SeedIsCurrent(m)'
    <3>1. SUFFICES ASSUME req.tx_type = TX_IN_HOUSE_BET
                   PROVE  ~all_zero(account.seed_hash)
      BY <1>4, <2>1 DEF SeedIsCurrent
    <3>2. account.pk_hash # ZeroHash
      BY <1>2, <3>1 DEF is_authenticated, is_game_lane, is_ihb_or_crash
    <3> QED BY <1>a, <1>1, <3>2 DEF SignedInv, AccountsSafe, RegisteredIsComplete
  <2> QED BY <1>3, <2>2, <2>3, <2>4, <2>5 DEF MessageInv, Unused
<1>6. \A n \in Messages : MessageInv(n)'
  BY <1>2, <1>3
     DEF SignedInv, MessagesInv, MessageInv, MessageOK, Unused, Used, SeedIsCurrent,
         Lane, AccountOfMessage
<1>7. MessagesInv'
  BY <1>3, <1>5, <1>6 DEF MessagesInv
<1>8. OnePerNonce'
  BY <1>3 DEF SignedInv, OnePerNonce, Compete
<1>9. SettledAsSigned'
  BY <1>3 DEF SignedInv, SettledAsSigned
<1>10. (TypeOK /\ AccountsSafe)'
  BY <1>2 DEF SignedInv, TypeOK, AccountsSafe, CreditIsCovered, KeylessIsInert,
              RegisteredIsComplete
<1> QED BY <1>7, <1>8, <1>9, <1>10 DEF SignedInv

\* An unsigned slot changes no message.
LEMMA UnsignedKeepsInv ==
    ASSUME SignedInv, NEW req \in Requests, SubmitUnsigned(req)
    PROVE  SignedInv'
<1>1. SoundRequest(req) /\ Submit(req) /\ settled' = settled
  BY SignedAssumption DEF SubmitUnsigned
<1>2. (TypeOK /\ AccountsSafe)'
  BY <1>1, SubmitTypeOK, SubmitSafe DEF SignedInv
<1>3. MessagesInv'
  BY <1>1, SubmitKeepsMessage DEF SignedInv, MessagesInv, Messages
<1>4. OnePerNonce' /\ SettledAsSigned'
  BY <1>1 DEF SignedInv, OnePerNonce, SettledAsSigned, Messages
<1> QED BY <1>2, <1>3, <1>4 DEF SignedInv

-----------------------------------------------------------------------------
\* A message that is settled was waiting until now, and its lane moves on.
LEMMA SettleUses ==
    ASSUME SignedInv, NEW req \in Requests, NEW m \in Messages, Settle(m, req)
    PROVE  /\ Unused(m)
           /\ m.nonce = Lane(m)
           /\ Messages' = Messages
           /\ settled'[m] = <<Receipt(req)>>
           /\ \A n \in Messages \ {m} : settled'[n] = settled[n]
           /\ m.signed.tx_type = req.tx_type /\ m.signed.user_id = req.user_id
           /\ m.signed.user_seed = req.user_seed
           /\ m.signed.recipient_addr_hash = req.recipient_addr_hash
<1>1. /\ m.signed = SignedPart(req) /\ Authorised(m)
      /\ settled' = [settled EXCEPT ![m] = Append(@, Receipt(req))]
  BY DEF Settle
<1>2. m.nonce = Lane(m)
  BY <1>1 DEF Authorised, Lane
<1>3. Unused(m)
  BY <1>2 DEF SignedInv, MessagesInv, MessageInv, MessageOK, Used
<1>4. Append(<< >>, Receipt(req)) = <<Receipt(req)>>
  OBVIOUS
<1> QED BY <1>1, <1>2, <1>3, <1>4 DEF Messages, Unused, SignedPart

\* A settled bet revealed the seed its owner saw and played the game he saw, and
\* a settled withdrawal went to the address it names.
LEMMA SettleAsSigned ==
    ASSUME SignedInv, NEW req \in Requests, NEW m \in Messages, Settle(m, req)
    PROVE  /\ m.signed.tx_type = TX_IN_HOUSE_BET =>
                 /\ seed_hash_truncated(req.server_seed) = m.seed_hash
                 /\ req.prediction_hash = m.prediction_hash
           /\ m.signed.tx_type = TX_WITHDRAWAL =>
                 address_hash(req.user_address).lo = m.signed.recipient_addr_hash
<1> DEFINE in == SlotInput(req, leaves, tl)
<1>1. /\ SoundInput(in) /\ validate_slot(in) = Ok /\ in.req = req
      /\ in.old = leaves[req.user_id]
  BY SignedAssumption, WitnessSound, SubmitEffects DEF Settle, SignedInv
<1>2. /\ m.nonce = Lane(m)
      /\ m.signed.tx_type = req.tx_type /\ m.signed.user_id = req.user_id
      /\ m.signed.user_seed = req.user_seed
      /\ m.signed.recipient_addr_hash = req.recipient_addr_hash
  BY SettleUses
<1> HIDE DEF in
<1>3. ASSUME req.tx_type = TX_IN_HOUSE_BET
      PROVE  /\ seed_hash_truncated(req.server_seed) = m.seed_hash
             /\ req.prediction_hash = m.prediction_hash
  <2>1. req.user_id # 0
    BY <1>1, <1>3, AcceptedChecks, ChainOk DEF check_house_account, Require, Ok
  <2>2. leaves[req.user_id].seed_hash = m.seed_hash
    BY <1>2, <1>3, <2>1
       DEF SignedInv, MessagesInv, MessageInv, SeedIsCurrent, AccountOfMessage
  <2>3. check_fairness(in) = Ok
    BY <1>1, <1>3, AcceptedChecks DEF is_ihb_or_crash
  <2>4. check_seed_chain(in) = Ok /\ check_user_seed(in) = Ok
    BY <2>3, ChainOk DEF check_fairness
  <2>5. seed_hash_truncated(req.server_seed) = leaves[req.user_id].seed_hash
    BY <1>1, <1>3, <2>4 DEF check_seed_chain, Require, Ok
  <2>6. req.user_seed.prediction_hash = req.prediction_hash
    BY <1>1, <1>3, <2>4 DEF check_user_seed, user_seed_binding, Require, Ok
  <2>7. m.signed.user_seed.prediction_hash = m.prediction_hash
    BY <1>2, <1>3 DEF SignedInv, MessagesInv, MessageInv, MessageOK
  <2> QED BY <1>2, <2>2, <2>5, <2>6, <2>7
<1>4. ASSUME req.tx_type = TX_WITHDRAWAL
      PROVE  address_hash(req.user_address).lo = m.signed.recipient_addr_hash
  BY <1>1, <1>2, <1>4, AcceptedChecks
     DEF check_recipient_binding, recipient_addr_hash_for, Require, Ok
<1> QED BY <1>2, <1>3, <1>4

\* Settling uses up the message and the value of the lane it was signed for.
LEMMA SettleKeepsInv ==
    ASSUME SignedInv, NEW req \in Requests, NEW m \in Messages, Settle(m, req)
    PROVE  SignedInv'
<1>1. SoundRequest(req) /\ Submit(req) /\ NeedsSignature(req)
  BY SignedAssumption DEF Settle
<1>2. /\ Unused(m) /\ m.nonce = Lane(m)
      /\ Messages' = Messages
      /\ settled'[m] = <<Receipt(req)>>
      /\ \A n \in Messages \ {m} : settled'[n] = settled[n]
      /\ m.signed.tx_type = req.tx_type /\ m.signed.user_id = req.user_id
  BY SettleUses
<1>3. (TypeOK /\ AccountsSafe)'
  BY <1>1, SubmitTypeOK, SubmitSafe DEF SignedInv
<1>4. Lane(m)' = m.nonce + 1 /\ m.nonce \in Nat
  BY <1>1, <1>2, SubmitAdvancesLane
     DEF Lane, AccountOfMessage, SignedInv, MessagesInv, MessageInv, MessageOK
<1>5. MessageInv(m)'
  <2>1. MessageOK(m)'
    BY DEF SignedInv, MessagesInv, MessageInv, MessageOK
  <2>2. Used(m)'
    BY <1>2, <1>4 DEF Used
  <2>3. SeedIsCurrent(m)'
    BY <1>4 DEF SeedIsCurrent
  <2> QED BY <1>4, <2>1, <2>2, <2>3 DEF MessageInv
<1>6. MessagesInv'
  BY <1>1, <1>2, <1>5, SubmitKeepsMessage DEF SignedInv, MessagesInv
<1>7. OnePerNonce'
  <2>1. \A n \in Messages : settled[n] # << >> => n.nonce < Lane(n)
    BY DEF SignedInv, MessagesInv, MessageInv, Unused, Used
  <2>2. \A n \in Messages : Compete(m, n) => Lane(n) = Lane(m) /\ n.nonce = m.nonce
    BY DEF Compete, Lane, AccountOfMessage, signed_nonce
  <2>3. \A n \in Messages : settled[n] # << >> => ~Compete(m, n) /\ ~Compete(n, m)
    BY <1>2, <1>4, <2>1, <2>2 DEF Compete
  <2> QED BY <1>2, <2>3 DEF SignedInv, OnePerNonce, Compete
<1>8. SettledAsSigned'
  <2>1. \A i \in DOMAIN settled'[m] : settled'[m][i] = Receipt(req)
    BY <1>2
  <2>2. \A n \in Messages : \A i \in DOMAIN settled'[n] :
           LET slot == settled'[n][i] IN
           /\ n.signed.tx_type = TX_IN_HOUSE_BET =>
                 /\ seed_hash_truncated(slot.server_seed) = n.seed_hash
                 /\ slot.prediction_hash = n.prediction_hash
           /\ n.signed.tx_type = TX_WITHDRAWAL =>
                 address_hash(slot.user_address).lo = n.signed.recipient_addr_hash
    BY <1>2, <2>1, SettleAsSigned DEF SignedInv, SettledAsSigned, Receipt
  <2> QED BY <1>2, <2>2 DEF SettledAsSigned
<1> QED BY <1>3, <1>6, <1>7, <1>8 DEF SignedInv

-----------------------------------------------------------------------------
\* Nothing is signed at first.
LEMMA SignedInitInv ==
    ASSUME SignedInit
    PROVE  SignedInv
<1>1. Messages = {}
  BY DEF SignedInit, Messages
<1> QED BY <1>1, InitTypeOK, InitSafe
        DEF SignedInit, SignedInv, MessagesInv, OnePerNonce, SettledAsSigned

\* The invariant holds of every behaviour.
LEMMA SignedSafe == SignedSpec => []SignedInv
<1>1. SignedInit => SignedInv
  BY SignedInitInv
<1>2. SignedInv /\ [SignedNext]_signed_vars => SignedInv'
  <2> SUFFICES ASSUME SignedInv, [SignedNext]_signed_vars PROVE SignedInv'
    OBVIOUS
  <2>1. ASSUME NEW req \in Requests, Sign(req) PROVE SignedInv'
    BY <2>1, SignKeepsInv
  <2>2. ASSUME NEW req \in Requests, NEW m \in Messages, Settle(m, req) PROVE SignedInv'
    BY <2>2, SettleKeepsInv
  <2>3. ASSUME NEW req \in Requests, SubmitUnsigned(req) PROVE SignedInv'
    BY <2>3, UnsignedKeepsInv
  <2>4. CASE UNCHANGED signed_vars
    BY <2>4 DEF signed_vars, SignedInv, TypeOK, AccountsSafe, CreditIsCovered,
                KeylessIsInert, RegisteredIsComplete, MessagesInv, MessageInv, MessageOK,
                Lane, AccountOfMessage, Unused, Used, SeedIsCurrent, OnePerNonce, Compete,
                SettledAsSigned, Messages
  <2> QED BY <2>1, <2>2, <2>3, <2>4 DEF SignedNext
<1> QED BY <1>1, <1>2, PTL DEF SignedSpec

\* A signature is good once, and of all the signatures for one value of a lane
\* one is good.
THEOREM NoReplayCorrect == SignedSpec => []NoReplay
<1>1. SignedInv => NoReplay
  <2> SUFFICES ASSUME SignedInv PROVE NoReplay
    OBVIOUS
  <2>1. ASSUME NEW m \in Messages PROVE Len(settled[m]) <= 1
    <3>1. CASE Unused(m)
      BY <3>1 DEF Unused
    <3>2. CASE Used(m)
      BY <3>2 DEF Used
    <3> QED BY <3>1, <3>2 DEF SignedInv, MessagesInv, MessageInv
  <2> QED BY <2>1 DEF NoReplay, SignedInv, OnePerNonce
<1> QED BY <1>1, SignedSafe, PTL

\* Bets reveal the seed and play the game that was signed for; withdrawals pay
\* the address that was signed.
THEOREM SettledCorrect == SignedSpec => []SettledAsSigned
<1>1. SignedInv => SettledAsSigned
  BY DEF SignedInv
<1> QED BY <1>1, SignedSafe, PTL

\* A slot without an account-lane signature moves neither that lane nor the key.
LEMMA OtherSlotsKeepAccountLane ==
    ASSUME TypeOK, NEW req, SoundRequest(req), Submit(req),
           ~NeedsSignature(req) \/ is_game_lane(req.tx_type), NEW u \in Users
    PROVE  /\ account_lane(leaves'[u].nonce) = account_lane(leaves[u].nonce)
           /\ leaves'[u].pk_hash = leaves[u].pk_hash
<1> DEFINE in == SlotInput(req, leaves, tl)
<1>1. /\ SoundInput(in) /\ validate_slot(in) = Ok /\ in.req = req
      /\ in.old = leaves[req.user_id]
      /\ leaves' = [leaves EXCEPT ![req.user_id] = new_account(in)]
  BY WitnessSound, SubmitEffects
<1>2. CASE u # req.user_id
  BY <1>1, <1>2 DEF TypeOK
<1>3. CASE u = req.user_id
  <2>1. ~is_key_setter(in) /\ ~is_account_bump(req.tx_type, is_key_setter(in))
    BY <1>1 DEF NeedsSignature, is_authenticated, is_game_lane, is_ihb_or_crash,
                is_account_bump, is_account_lane, is_key_setter, TX_IN_HOUSE_BET,
                TX_CRASH_SETTLE, TX_SET_PROVIDER_ALLOWANCE, TX_WITHDRAWAL, TX_TRANSFER,
                TX_KEY_REGISTER_ONLY
  <2>2. /\ leaves'[u].nonce = new_nonce(in)
        /\ leaves'[u].pk_hash = new_pk_hash(in)
    BY <1>1, <1>3 DEF TypeOK, new_account
  <2>3. account_lane(new_nonce(in)) = account_lane(leaves[u].nonce) + 0
    BY <1>1, <1>3, <2>1, AcceptedNonce DEF Bump
  <2>4. account_lane(leaves[u].nonce) \in Nat
    BY JoinOfSplit, LaneAssumption DEF TypeOK, Account
  <2> QED BY <1>1, <1>3, <2>1, <2>2, <2>3, <2>4 DEF new_pk_hash
<1> QED BY <1>2, <1>3

\* A waiting withdrawal, transfer or registration survives every bet and every
\* unsigned slot.
THEOREM WaitingCorrect == SignedSpec => WaitingSurvivesBets
<1> DEFINE Survives ==
      \A m \in Messages :
          /\ ~is_game_lane(m.signed.tx_type) /\ Authorised(m)
          /\ \A n \in Messages : settled'[n] # settled[n] => is_game_lane(n.signed.tx_type)
          => Authorised(m)'
<1>1. SignedInv /\ [SignedNext]_signed_vars => Survives
  <2> SUFFICES ASSUME SignedInv, [SignedNext]_signed_vars,
                      NEW m \in Messages, ~is_game_lane(m.signed.tx_type), Authorised(m),
                      \A n \in Messages :
                          settled'[n] # settled[n] => is_game_lane(n.signed.tx_type)
               PROVE  Authorised(m)'
    OBVIOUS
  <2>1. m.signed.user_id \in Users
    BY DEF SignedInv, MessagesInv, MessageInv, MessageOK
  <2>2. ASSUME NEW req \in Requests, Submit(req),
               ~NeedsSignature(req) \/ is_game_lane(req.tx_type)
        PROVE  Authorised(m)'
    BY <2>1, <2>2, SignedAssumption, OtherSlotsKeepAccountLane
       DEF SignedInv, Authorised, AccountOfMessage, signed_nonce
  <2>3. ASSUME NEW req \in Requests, NEW n \in Messages, Settle(n, req)
        PROVE  Authorised(m)'
    <3>1. settled[n] = << >> /\ settled'[n] = <<Receipt(req)>>
          /\ n.signed.tx_type = req.tx_type
      BY <2>3, SettleUses DEF Unused
    <3>2. is_game_lane(req.tx_type)
      BY <3>1
    <3> QED BY <2>2, <2>3, <3>2 DEF Settle
  <2>4. ASSUME NEW req \in Requests, SubmitUnsigned(req) PROVE Authorised(m)'
    BY <2>2, <2>4 DEF SubmitUnsigned
  <2>5. ASSUME NEW req \in Requests, Sign(req) PROVE Authorised(m)'
    BY <2>5 DEF Sign, vars, Authorised, AccountOfMessage
  <2>6. CASE UNCHANGED signed_vars
    BY <2>6 DEF signed_vars, Authorised, AccountOfMessage
  <2> QED BY <2>3, <2>4, <2>5, <2>6 DEF SignedNext
<1> QED BY <1>1, SignedSafe, PTL DEF SignedSpec, WaitingSurvivesBets

\* What an owner must consent to: another key, a used nonce, a larger allowance, or
\* less of the deposit out of reach.
Consented(old, new) ==
    /\ new.pk_hash = old.pk_hash
    /\ new.nonce = old.nonce
    /\ new.provider_allowance <= old.provider_allowance
    /\ KeepsOutOfReach(old, new)

\* An account that stands still asks for no consent.
LEMMA StandingStillNeedsNoConsent ==
    ASSUME NEW account \in Account
    PROVE  Consented(account, account)
<1>1. account.provider_allowance \in Nat /\ account.deposit_credit \in Nat
  BY WordAssumption DEF Account, U64, Allowances
<1> QED BY <1>1 DEF Consented, KeepsOutOfReach, out_of_reach

\* Nor does a slot that needs no signature: the types outside check_auth bump no
\* lane, install no key and set no allowance.
LEMMA UnsignedNeedsNoConsent ==
    ASSUME TypeOK, CreditIsCovered, NEW req, SoundRequest(req), Submit(req),
           ~NeedsSignature(req), NEW u \in Users
    PROVE  Consented(leaves[u], leaves'[u])
<1> DEFINE in == SlotInput(req, leaves, tl)
           t == req.tx_type
<1>1. /\ SoundInput(in) /\ validate_slot(in) = Ok /\ in.req = req
      /\ in.old = leaves[req.user_id]
      /\ leaves' = [leaves EXCEPT ![req.user_id] = new_account(in)]
  BY WitnessSound, SubmitEffects
<1>2. CASE u # req.user_id
  BY <1>1, <1>2, StandingStillNeedsNoConsent DEF TypeOK
<1>3. CASE u = req.user_id
  <2>1. ~is_key_setter(in) /\ ~is_game_lane(t) /\ ~is_account_lane(t)
    BY <1>1 DEF NeedsSignature, is_authenticated, is_key_setter
  <2>2. /\ leaves'[u].nonce = new_nonce(in) /\ leaves'[u].pk_hash = new_pk_hash(in)
        /\ leaves'[u].provider_allowance = new_allowance(in)
    BY <1>1, <1>3 DEF TypeOK, new_account
  <2>3. leaves'[u].nonce = leaves[u].nonce
    <3>1. leaves[u].nonce \in Int /\ ACCOUNT_LANE_UNIT \in Int
      BY LaneAssumption DEF TypeOK, Account, Nonces, NONCE_LIMIT, ACCOUNT_LANE_UNIT
    <3>2. new_nonce(in) = leaves[u].nonce + 0 + 0 * ACCOUNT_LANE_UNIT
      BY <1>1, <1>3, <2>1 DEF new_nonce, is_account_signed, compute_new_nonce, Bump
    <3> QED BY <2>2, <3>1, <3>2
  <2>4. leaves'[u].provider_allowance <= leaves[u].provider_allowance
    <3>1. UnsignedIsCapped(leaves[u], leaves'[u])
      BY SubmitIsSafe DEF StepIsSafe
    <3> QED BY <2>3, <3>1 DEF UnsignedIsCapped
  <2>5. KeepsOutOfReach(leaves[u], leaves'[u])
    BY SubmitKeepsFloor
  <2> QED BY <1>1, <1>3, <2>1, <2>2, <2>3, <2>4, <2>5 DEF Consented, new_pk_hash
<1> QED BY <1>2, <1>3

\* A slot that settles a message is about the account of its owner alone.
LEMMA SettleIsAboutItsOwner ==
    ASSUME SignedInv, NEW req \in Requests, NEW m \in Messages, Settle(m, req),
           NEW u \in Users, u # m.signed.user_id
    PROVE  Consented(leaves[u], leaves'[u])
<1>1. /\ req.user_id = m.signed.user_id
      /\ leaves' = [leaves EXCEPT ![req.user_id] =
                        new_account(SlotInput(req, leaves, tl))]
      /\ leaves \in [Users -> Account]
  BY SignedAssumption, SubmitEffects DEF SignedInv, Settle, SignedPart, TypeOK
<1>2. leaves'[u] = leaves[u]
  BY <1>1
<1> QED BY <1>1, <1>2, StandingStillNeedsNoConsent

\* Nothing is done to an account that needs its owner's consent unless a message he
\* signed goes into the slot, for any number of owners, keys and messages.
THEOREM ConsentCorrect == SignedSpec => OwnersConsent
<1> DEFINE Silent(u) == \A m \in Messages : settled'[m] # settled[m] => m.signed.user_id # u
<1>1. SignedInv /\ [SignedNext]_signed_vars
      => \A u \in Users : Silent(u) => Consented(leaves[u], leaves'[u])
  <2> SUFFICES ASSUME SignedInv, [SignedNext]_signed_vars, NEW u \in Users, Silent(u)
               PROVE  Consented(leaves[u], leaves'[u])
    OBVIOUS
  <2>1. TypeOK /\ CreditIsCovered
    BY DEF SignedInv, AccountsSafe
  <2>2. ASSUME NEW req \in Requests, NEW n \in Messages, Settle(n, req)
        PROVE  Consented(leaves[u], leaves'[u])
    <3>1. settled[n] = << >> /\ settled'[n] = <<Receipt(req)>>
      BY <2>2, SettleUses DEF Unused
    <3> QED BY <2>2, <3>1, SettleIsAboutItsOwner
  <2>3. ASSUME NEW req \in Requests, SubmitUnsigned(req)
        PROVE  Consented(leaves[u], leaves'[u])
    BY <2>1, <2>3, SignedAssumption, UnsignedNeedsNoConsent DEF SubmitUnsigned
  <2>4. CASE UNCHANGED leaves
    BY <2>1, <2>4, StandingStillNeedsNoConsent DEF TypeOK
  <2> QED BY <2>2, <2>3, <2>4 DEF SignedNext, Sign, signed_vars, vars
<1> QED BY <1>1, SignedSafe, PTL DEF SignedSpec, OwnersConsent, Consented

\* The slots that come of signed messages and of unsigned requests are a stream of
\* slots: a message adds a guard to a slot and nothing to its effects.
THEOREM SignedIsStream == SignedSpec => SlotStream
<1>1. SignedInit => Init
  BY DEF SignedInit
<1>2. [SignedNext]_signed_vars => [AnySlot]_vars
  <2>1. ASSUME NEW req \in Requests, Submit(req) PROVE AnySlot
    BY <2>1, SignedAssumption DEF AnySlot
  <2> QED BY <2>1 DEF SignedNext, signed_vars, vars, Sign, Settle, SubmitUnsigned
<1> QED BY <1>1, <1>2, PTL DEF SignedSpec, SlotStream

\* However often a message is submitted and whatever the operator completes it
\* with, money moves only as the ledger allows.
THEOREM SignedImplementsLedger == SignedSpec => ImplementsLedger
  BY SignedIsStream, StreamImplementsLedger, PTL

\* No message, waiting or settled, keeps an owner from leaving.
THEOREM SignedExit == SignedSpec => []ExitIsOpen
  BY SignedIsStream, StreamExit, PTL
=============================================================================
