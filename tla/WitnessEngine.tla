---------------------------- MODULE WitnessEngine ----------------------------
(***************************************************************************)
(* Concurrent builders of witnesses in front of one rollup.                *)
(*                                                                         *)
(* A worker takes a request, reads the account, the Merkle proof and the   *)
(* total liability from three stores, in any order and with slots of other *)
(* workers landing in between, and submits what it has read.  The block    *)
(* state (current_root, current_tl) is what holds at the submission, and   *)
(* the effects are stored with it.  A worker may drop its witness at any   *)
(* point (a crash, a timeout) and may submit a request again.              *)
(*                                                                         *)
(* The engine is not in the repository; the module models what SlotInput   *)
(* asks of it.  What the validator owes it is that a witness read from a   *)
(* mixture of old states is never accepted as anything but what it would   *)
(* be on the present one: the engine implements Rollup.                    *)
(***************************************************************************)
EXTENDS Rollup

CONSTANTS
    Workers,
    Pool        \* the requests of this instance, each to be taken any number of times

VARIABLES
    witnesses,  \* [Workers -> the witness the worker is building]
    fetched     \* [Workers -> the stores it has been read from]

engine_vars == <<leaves, root, tl, witnesses, fetched>>

-----------------------------------------------------------------------------
AmountTypes ==
    {TX_NOOP, TX_BET, TX_WIN, TX_BONUS, TX_RISK_REJECT, TX_TRANSFER, TX_REFERRAL,
     TX_SET_PROVIDER_ALLOWANCE}

\* A request of one of the types, with the parameters the rollup allows.
IsRequest(req) ==
    \/ \E t \in AmountTypes, u \in Users, amount \in Amounts :
          req = AmountRequest(t, u, amount)
    \/ \E u \in Users, amount \in Amounts, address \in Addresses :
          req = DepositRequest(u, amount, address)
    \/ \E u \in Users, amount \in Amounts, address, signed \in Addresses :
          req = WithdrawalRequest(u, amount, address, signed)
    \/ \E u \in Users, next \in NewCommitments : req = CommitRequest(u, next)
    \/ \E u \in Users, key \in PkHashes \cup {ZeroHash}, address \in Addresses,
          next \in NewCommitments :
          req = KeyRequest(u, key, address, next)
    \/ \E u \in Users, amount \in Amounts, win \in WinAmounts, game \in Games,
          seed \in Seeds, secret \in Secrets, next \in NewCommitments :
          req = RoundRequest(TX_IN_HOUSE_BET, u, amount, win, game, seed, secret,
                             next, NoCommitment)
    \/ \E u \in Users, amount \in Amounts, win \in WinAmounts, game \in Games,
          seed \in Seeds, secret \in Secrets, known \in SeedHashes \cup {NoCommitment} :
          req = RoundRequest(TX_CRASH_SETTLE, u, amount, win, game, seed, secret,
                             Zero, known)

ASSUME PoolAssumption == \A req \in Pool : IsRequest(req)

-----------------------------------------------------------------------------
Stores == {"account", "proof", "total"}

\* A witness of which nothing has been read yet.
Blank(req) ==
    [req |-> req, old |-> EmptyAccount,
     main_siblings |-> SiblingsOf([u \in Users |-> EmptyAccount]),
     old_total_liability |-> 0]

\* What a worker hands to the validator, with the block state of the moment.
Candidate(w) ==
    [req |-> witnesses[w].req, old |-> witnesses[w].old,
     main_siblings |-> witnesses[w].main_siblings,
     old_total_liability |-> witnesses[w].old_total_liability,
     current_root |-> root, current_tl |-> tl]

EngineInit ==
    /\ Init
    /\ witnesses \in [Workers -> {Blank(req) : req \in Pool}]
    /\ fetched = [w \in Workers |-> {}]

\* Forget what was read, and go on with this request or another.
StartOver(w, req) ==
    /\ witnesses' = [witnesses EXCEPT ![w] = Blank(req)]
    /\ fetched' = [fetched EXCEPT ![w] = {}]

Take(w) == (\E req \in Pool : StartOver(w, req)) /\ UNCHANGED vars

Fetch(w, store) ==
    /\ store \notin fetched[w]
    /\ fetched' = [fetched EXCEPT ![w] = @ \cup {store}]
    /\ UNCHANGED vars

ReadAccount(w) ==
    /\ Fetch(w, "account")
    /\ witnesses' = [witnesses EXCEPT ![w].old = leaves[witnesses[w].req.user_id]]

ReadProof(w) ==
    /\ Fetch(w, "proof")
    /\ witnesses' = [witnesses EXCEPT ![w].main_siblings = SiblingsOf(leaves)]

ReadTotal(w) ==
    /\ Fetch(w, "total")
    /\ witnesses' = [witnesses EXCEPT ![w].old_total_liability = tl]

\* Ok: the effects are stored; the request may be submitted again.
Accept(w) ==
    /\ fetched[w] = Stores
    /\ witnesses[w].req.tx_type \in TxTypes
    /\ validate_slot(Candidate(w)) = Ok
    /\ Apply(Candidate(w))
    /\ StartOver(w, witnesses[w].req)

\* Err: the slot is dropped; nothing but the witness is lost.
Reject(w) ==
    /\ fetched[w] = Stores
    /\ validate_slot(Candidate(w)) # Ok
    /\ StartOver(w, witnesses[w].req)
    /\ UNCHANGED vars

EngineNext ==
    \E w \in Workers :
        \/ Take(w) \/ ReadAccount(w) \/ ReadProof(w) \/ ReadTotal(w)
        \/ Accept(w) \/ Reject(w)

EngineSpec == EngineInit /\ [][EngineNext]_engine_vars

-----------------------------------------------------------------------------
\* However the reads of a witness interleave with the slots of other workers,
\* every accepted slot is one the rollup allows in the state it lands on, with
\* the same effects: C16 and C18 catch every mixture of snapshots.
ImplementsRollup == Spec

\* In the rules of the ledger, without witnesses and their checks: a request of
\* the operator that has room in the total, or takes back no deposited credit.
IsDue(req) ==
    LET account == leaves[req.user_id]
    IN /\ is_canonical(req.amount)
       /\ \/ /\ req.tx_type \in {TX_DEPOSIT, TX_WIN, TX_BONUS, TX_REFERRAL}
             /\ req.tx_type = TX_DEPOSIT =>
                    account.address_hash \in {ZeroHash, address_hash(req.user_address)}
             /\ tl + req.amount <= U64_MAX
          \/ /\ req.tx_type = TX_RISK_REJECT
             /\ account.balance - req.amount >= account.deposit_credit

\* Read at once, or in pieces of which none has changed since.
IsFresh(w) ==
    /\ fetched[w] = Stores
    /\ witnesses[w].old = leaves[witnesses[w].req.user_id]
    /\ witnesses[w].main_siblings = SiblingsOf(leaves)
    /\ witnesses[w].old_total_liability = tl

\* A request that is due is only ever rejected because its witness is stale: no
\* history of other slots leaves the account, the total or the tree in a state in
\* which one of the checks, of the witness or of the effects, stands in its way.
FreshIsAccepted ==
    \A w \in Workers :
        IsFresh(w) /\ IsDue(witnesses[w].req) => validate_slot(Candidate(w)) = Ok
=============================================================================
