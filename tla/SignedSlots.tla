----------------------------- MODULE SignedSlots -----------------------------
(***************************************************************************)
(* Signed slots in front of the rollup.                                    *)
(*                                                                         *)
(* An owner signs what a slot must not change: its type, amount, payee, new *)
(* key and user seed, together with the value of the nonce lane the type   *)
(* is signed under.  The message then waits, for an approval or a batch;   *)
(* meanwhile other slots land.  Messages are never lost to the operator,   *)
(* who may submit each of them at any time and any number of times, in any *)
(* order, completed as it likes: the win, the revealed seed, the next      *)
(* commitment, the game parameters and the address paid are not signed.    *)
(*                                                                         *)
(* The signatures are verified by two other circuits; Authorised is what   *)
(* the lanes and the key hash of the leaf let them check (auth.rs,         *)
(* SlotEffects).                                                           *)
(***************************************************************************)
EXTENDS Rollup, FiniteSets, Sequences

CONSTANTS
    Requests,   \* the requests of this instance
    MaxMessages \* bounds the messages signed in a behaviour

ASSUME SignedAssumption == \A req \in Requests : SoundRequest(req)

VARIABLE
    settled     \* [signed messages -> the slots they went into, in order]

signed_vars == <<leaves, root, tl, settled>>

-----------------------------------------------------------------------------
\* A registration that installs a key is signed too, by the wallet (EIP-712).
NeedsSignature(req) == is_authenticated(req.tx_type) \/ is_key_setter([req |-> req])

SignedPart(req) ==
    [tx_type |-> req.tx_type, user_id |-> req.user_id, amount |-> req.amount,
     recipient_addr_hash |-> req.recipient_addr_hash,
     new_pk_hash |-> req.new_pk_hash, user_seed |-> req.user_seed]

\* The lane a type commits to, as the last slot of the account left it.
signed_nonce(tx_type, nonce) ==
    IF is_game_lane(tx_type) THEN game_lane(nonce) ELSE account_lane(nonce)

\* The owner sees the seed commitment and the parameters of the game; only what
\* `signed` holds, the key and the nonce are checked later.
Message(req, account) ==
    [signed |-> SignedPart(req),
     key |-> IF is_authenticated(req.tx_type) THEN account.pk_hash ELSE ZeroHash,
     nonce |-> signed_nonce(req.tx_type, account.nonce),
     seed_hash |-> account.seed_hash,
     prediction_hash |-> req.prediction_hash]

\* What a settled slot did with the message.
Receipt(req) ==
    [server_seed |-> req.server_seed, prediction_hash |-> req.prediction_hash,
     user_address |-> req.user_address]

Messages == DOMAIN settled
AccountOfMessage(m) == leaves[m.signed.user_id]

\* Would the circuits verify m against the present leaf?
Authorised(m) ==
    LET account == AccountOfMessage(m) IN
    /\ m.nonce = signed_nonce(m.signed.tx_type, account.nonce)
    /\ is_authenticated(m.signed.tx_type) => m.key = account.pk_hash

-----------------------------------------------------------------------------
SignedInit == Init /\ settled = << >>

\* An owner binds the user seed to the bet he means to make.
IsHonest(req) ==
    req.tx_type = TX_IN_HOUSE_BET =>
        req.user_seed = user_seed_binding(req.game.game_id, req.amount,
                                          req.prediction_hash, req.user_secret_random)

\* Only an owner with a session key can sign a slot.
Sign(req) ==
    LET account == leaves[req.user_id]
        m == Message(req, account)
    IN /\ NeedsSignature(req) /\ IsHonest(req)
       /\ is_authenticated(req.tx_type) => account.pk_hash # ZeroHash
       /\ m \notin Messages /\ Cardinality(Messages) < MaxMessages
       /\ settled' = [n \in Messages \cup {m} |-> IF n = m THEN << >> ELSE settled[n]]
       /\ UNCHANGED vars

\* The operator completes a message, settled before or not, to a slot.
Settle(m, req) ==
    /\ NeedsSignature(req) /\ m.signed = SignedPart(req)
    /\ Authorised(m)
    /\ Submit(req)
    /\ settled' = [settled EXCEPT ![m] = Append(@, Receipt(req))]

\* A slot nobody signs: a deposit, a provider's bet, a win, a revert, ...
SubmitUnsigned(req) ==
    /\ ~NeedsSignature(req)
    /\ Submit(req)
    /\ UNCHANGED settled

SignedNext ==
    \E req \in Requests :
        \/ Sign(req)
        \/ \E m \in Messages : Settle(m, req)
        \/ SubmitUnsigned(req)

SignedSpec == SignedInit /\ [][SignedNext]_signed_vars

-----------------------------------------------------------------------------
\* Two messages of one account that need the same value of the same lane.
Compete(m, n) ==
    /\ m.signed.user_id = n.signed.user_id
    /\ is_game_lane(m.signed.tx_type) = is_game_lane(n.signed.tx_type)
    /\ m.nonce = n.nonce

\* A signature is good once: however often the operator submits a message, at
\* most one slot comes of it, and of all messages for one value of a lane (an
\* allowance and its revocation, say) at most one is ever settled.
NoReplay ==
    /\ \A m \in Messages : Len(settled[m]) <= 1
    /\ \A m, n \in Messages :
          settled[m] # << >> /\ settled[n] # << >> /\ Compete(m, n) => m = n

\* A bet reveals the seed that was committed when its owner signed it, and plays
\* the game he saw (hash.rs: "so the operator cannot swap them after the user
\* signs"), whatever landed in between; a withdrawal pays the address it names.
SettledAsSigned ==
    \A m \in Messages : \A i \in DOMAIN settled[m] :
        LET slot == settled[m][i] IN
        /\ m.signed.tx_type = TX_IN_HOUSE_BET =>
              /\ seed_hash_truncated(slot.server_seed) = m.seed_hash
              /\ slot.prediction_hash = m.prediction_hash
        /\ m.signed.tx_type = TX_WITHDRAWAL =>
              address_hash(slot.user_address).lo = m.signed.recipient_addr_hash

\* "A bet landing while a withdrawal awaits approval cannot stale the
\* withdrawal's signature" (lib.rs:74): no slot on the game lane and no unsigned
\* slot, to the ceilings of both lanes, takes the authority of a waiting message
\* on the account lane away.
WaitingSurvivesBets ==
    [][\A m \in Messages :
          /\ ~is_game_lane(m.signed.tx_type) /\ Authorised(m)
          /\ \A n \in Messages : settled'[n] # settled[n] => is_game_lane(n.signed.tx_type)
          => Authorised(m)']_signed_vars

\* Unless a message of its owner goes into the slot, an account keeps its key and
\* its nonce, its allowance does not grow and its deposit is out of reach: every
\* type that could do so is one of those check_auth and the circuits take to be
\* signed (auth.rs, flags.rs), in whatever order the others land.
OwnersConsent ==
    [][\A u \in Users :
          (\A m \in Messages : settled'[m] # settled[m] => m.signed.user_id # u) =>
              /\ leaves'[u].pk_hash = leaves[u].pk_hash
              /\ leaves'[u].nonce = leaves[u].nonce
              /\ leaves'[u].provider_allowance <= leaves[u].provider_allowance
              /\ KeepsOutOfReach(leaves[u], leaves'[u])]_signed_vars
=============================================================================
