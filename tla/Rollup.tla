------------------------------- MODULE Rollup -------------------------------
(***************************************************************************)
(* The rollup state that validated slots drive, one slot at a time.        *)
(*                                                                         *)
(* The engine around the validator keeps the accounts, the root of their   *)
(* tree and the total liability.  It builds a witness of the account a     *)
(* slot names from that state, validates, and on Ok stores the effects; a  *)
(* rejected slot is dropped and changes nothing.  Each action is one type  *)
(* of transaction, over every request of that type the constants allow.    *)
(***************************************************************************)
EXTENDS Requests, Sums

CONSTANTS
    TxTypes,    \* the types submitted in this instance (bounds a run)
    Amounts,    \* amounts submitted
    WinAmounts, \* wins claimed
    Games,      \* game parameters: a set of records like DefaultGame
    Secrets     \* user secrets

ASSUME RequestAssumption ==
    Amounts \subseteq U64 /\ WinAmounts \subseteq U64

VARIABLES
    leaves,     \* [Users -> account]: what the tree store holds
    root,       \* current_root
    tl          \* current_tl

vars == <<leaves, root, tl>>

-----------------------------------------------------------------------------
\* The witness of a request, built on the accounts and the total given.
SlotInput(req, accounts, total) ==
    [req |-> req, old |-> accounts[req.user_id],
     main_siblings |-> SiblingsOf(accounts), old_total_liability |-> total,
     current_root |-> root, current_tl |-> tl]

\* What the engine stores when a slot is accepted.
Apply(in) ==
    /\ leaves' = [leaves EXCEPT ![in.req.user_id] = new_account(in)]
    /\ root' = compute_new_root(in)
    /\ tl' = new_tl(in)

Submit(req) ==
    LET in == SlotInput(req, leaves, tl) IN
    /\ req.tx_type \in TxTypes
    /\ validate_slot(in) = Ok
    /\ Apply(in)

-----------------------------------------------------------------------------
Init ==
    /\ leaves = [u \in Users |-> EmptyAccount]
    /\ root = RootOf(leaves)
    /\ tl = 0

SubmitAmount(t) ==
    \E u \in Users, amount \in Amounts : Submit(AmountRequest(t, u, amount))

Noop == SubmitAmount(TX_NOOP)
Bet == SubmitAmount(TX_BET)
Win == SubmitAmount(TX_WIN)
Bonus == SubmitAmount(TX_BONUS)
RiskReject == SubmitAmount(TX_RISK_REJECT)
Transfer == SubmitAmount(TX_TRANSFER)
Referral == SubmitAmount(TX_REFERRAL)
SetProviderAllowance == SubmitAmount(TX_SET_PROVIDER_ALLOWANCE)

Deposit ==
    \E u \in Users, amount \in Amounts, address \in Addresses :
        Submit(DepositRequest(u, amount, address))

Withdrawal ==
    \E u \in Users, amount \in Amounts, address \in Addresses, signed \in Addresses :
        Submit(WithdrawalRequest(u, amount, address, signed))

SetInitSeedHash ==
    \E u \in Users, next \in NewCommitments : Submit(CommitRequest(u, next))

KeyRegisterOnly ==
    \E u \in Users, key \in PkHashes \cup {ZeroHash}, address \in Addresses,
       next \in NewCommitments :
        Submit(KeyRequest(u, key, address, next))

InHouseBet ==
    \E u \in Users, amount \in Amounts, win \in WinAmounts, game \in Games,
       seed \in Seeds, secret \in Secrets, next \in NewCommitments :
        Submit(RoundRequest(TX_IN_HOUSE_BET, u, amount, win, game, seed, secret,
                            next, NoCommitment))

\* The engine may or may not know what leaf 0 committed to.
CrashSettle ==
    \E u \in Users, amount \in Amounts, win \in WinAmounts, game \in Games,
       seed \in Seeds, secret \in Secrets, known \in SeedHashes \cup {NoCommitment} :
        Submit(RoundRequest(TX_CRASH_SETTLE, u, amount, win, game, seed, secret,
                            Zero, known))

Next ==
    \/ Noop \/ Deposit \/ Bet \/ Win \/ Bonus \/ InHouseBet \/ Withdrawal
    \/ RiskReject \/ SetInitSeedHash \/ KeyRegisterOnly \/ Transfer \/ Referral
    \/ CrashSettle \/ SetProviderAllowance

Spec == Init /\ [][Next]_vars

-----------------------------------------------------------------------------
\* Every leaf holds an account of the code's widths and the total fits a u64
\* (the type invariant).
TypeOK == leaves \in [Users -> Account] /\ tl \in U64

\* The root the next slot is authenticated against commits to exactly the
\* accounts in the store: no effect is lost and none is applied twice
\* (verify_current_root and compute_new_root share one leaf layout).
RootCommitsLeaves == root = RootOf(leaves)

\* The two packed words of a stored leaf are field elements and give back the
\* balance and the allowance, to the last bit of either: neither hides a part of
\* the other (field.rs, pack_balance_fields).
LeavesUnpack ==
    \A u \in Users :
        LET fields == balance_leaf(leaves[u]).packed
        IN /\ is_canonical(fields[1]) /\ is_canonical(fields[2])
           /\ unpack_balance_fields(fields) =
                  <<leaves[u].balance, leaves[u].provider_allowance>>

\* Deposited credit never exceeds the balance, though a deposit raises it
\* uncapped, five debits cap it and a revert only checks it (balance.rs).
CreditIsCovered == \A u \in Users : leaves[u].deposit_credit <= leaves[u].balance

Balances(accounts) == [u \in Users |-> accounts[u].balance]

\* The operator owes exactly the sum of the balances: the two add-then-sub
\* chains, on the balance and on the total, never drift apart.
LiabilityIsSum == tl = SumBelow(Balances(leaves), NumUsers)

\* "An account without a registered Schnorr key can never hold a non-zero
\* allowance" (auth.rs:37), nor has it used either nonce lane.
KeylessIsInert ==
    \A u \in Users : leaves[u].pk_hash = ZeroHash =>
        leaves[u].provider_allowance = 0 /\ leaves[u].nonce = 0

\* A registered account can play and be paid: it has a seed commitment and an
\* address, whatever came first, the deposit or the registration.
RegisteredIsComplete ==
    \A u \in Users : leaves[u].pk_hash # ZeroHash =>
        ~all_zero(leaves[u].seed_hash) /\ leaves[u].address_hash # ZeroHash

\* The engine's witness of a request, built now, is accepted.
IsAccepted(req) == validate_slot(SlotInput(req, leaves, tl)) = Ok

\* The owner of a registered account can always leave: take out any part of the
\* balance, to any address, until the account lane is used up, and change or
\* revoke the allowance, until the game lane is.  No sequence of other slots leads
\* to a state in which a correct withdrawal or revocation is rejected.
ExitIsOpen ==
    \A u \in Users : leaves[u].pk_hash # ZeroHash =>
        /\ account_lane(leaves[u].nonce) # ACCOUNT_LANE_MAX =>
              \A amount \in U64, address \in Addresses :
                  amount <= leaves[u].balance /\ is_canonical(amount) =>
                      IsAccepted(WithdrawalRequest(u, amount, address, address))
        /\ game_lane(leaves[u].nonce) # GAME_LANE_MAX =>
              \A amount \in Allowances :
                  IsAccepted(AmountRequest(TX_SET_PROVIDER_ALLOWANCE, u, amount))

-----------------------------------------------------------------------------
\* What a step may do to an account, from old to new.

\* Once stamped, an address is never replaced: neither by a deposit for another
\* address nor by a key rotation (address.rs).
KeepsAddress(old, new) ==
    old.address_hash # ZeroHash => new.address_hash = old.address_hash

AddressIsImmutable == [][\A u \in Users : KeepsAddress(leaves[u], leaves'[u])]_vars

\* Without a signature (the nonce stands still) an allowance never grows, and
\* a balance falls only by what the allowance pays or above the deposited
\* credit: no interleaving of bets, wins and reverts drains a deposit.
UnsignedIsCapped(old, new) ==
    new.nonce = old.nonce =>
        /\ new.provider_allowance <= old.provider_allowance
        /\ \/ new.balance >= old.balance
           \/ old.balance - new.balance = old.provider_allowance - new.provider_allowance
           \/ /\ new.balance >= old.deposit_credit
              /\ new.deposit_credit = old.deposit_credit

UnsignedDebitsAreCapped ==
    [][\A u \in Users : UnsignedIsCapped(leaves[u], leaves'[u])]_vars

\* What nobody but its owner can take from an account: the deposited credit, but
\* for the part of it he allows providers to debit.
out_of_reach(account) == account.deposit_credit - account.provider_allowance

KeepsOutOfReach(old, new) == new.nonce = old.nonce => out_of_reach(new) >= out_of_reach(old)

\* Without a signature that part never shrinks, so what bets, wins, reverts and
\* deposits can take adds up to the allowance: a bet lowers the credit by no more
\* than the allowance it uses up, and nothing else lowers it (balance.rs,
\* allowance.rs; CreditIsCovered turns it into a floor of the balance).
DepositIsOutOfReach ==
    [][\A u \in Users : KeepsOutOfReach(leaves[u], leaves'[u])]_vars

\* A step bumps at most one lane, by one, and never carries from the game lane
\* into the account lane.  Installing a key uses up an account nonce, so what
\* the old key signed there is stale; raising an allowance uses up a game nonce.
AdvancesOneLane(old, new) ==
    LET account == account_lane(new.nonce) - account_lane(old.nonce)
        game == game_lane(new.nonce) - game_lane(old.nonce)
    IN /\ account \in {0, 1} /\ game \in {0, 1} /\ account + game <= 1
       /\ new.pk_hash # old.pk_hash => account = 1
       /\ new.provider_allowance > old.provider_allowance => game = 1

LanesAdvanceByOne == [][\A u \in Users : AdvancesOneLane(leaves[u], leaves'[u])]_vars

-----------------------------------------------------------------------------
\* The money of the rollup, seen as the abstract ledger.
AccountOf(leaf) ==
    [balance |-> leaf.balance, credit |-> leaf.deposit_credit,
     allowance |-> leaf.provider_allowance]

Money == INSTANCE Ledger
    WITH Holders <- Users, MaxAmount <- U64_MAX,
         accounts <- [u \in Users |-> AccountOf(leaves[u])], total <- tl

\* Every slot is a move of the ledger or leaves the money alone.
ImplementsLedger == Money!Spec
=============================================================================
