------------------------------ MODULE SeedChain ------------------------------
(***************************************************************************)
(* The seed commitments of the accounts, as a history beside the rollup.   *)
(*                                                                         *)
(* An account is given a commitment when it is registered; from then on    *)
(* each in-house bet reveals the seed it is committed to and commits to    *)
(* the next one.  The house account (leaf 0) never bets and takes new      *)
(* commitments from the operator.  `chain` records these three kinds of    *)
(* slot as they are meant; whether the leaf follows it through rotations,  *)
(* crash settlements, allowances and all other slots is up to the code.    *)
(***************************************************************************)
EXTENDS Rollup, Sequences

CONSTANT MaxCommitments     \* bounds the operator's commitments

VARIABLE chain  \* [Users -> what was revealed and committed to, in order]

chain_vars == <<leaves, root, tl, chain>>

-----------------------------------------------------------------------------
Record(u, revealed, next) ==
    chain' = [chain EXCEPT ![u] = Append(@, [reveals |-> revealed, commits |-> next])]

ChainInit == Init /\ chain = [u \in Users |-> << >>]

\* The first key of an account that is committed to nothing brings a commitment.
Register ==
    \E u \in Users, key \in PkHashes \cup {ZeroHash}, address \in Addresses,
       next \in NewCommitments :
        /\ chain[u] = << >>
        /\ Submit(KeyRequest(u, key, address, next))
        /\ Record(u, {}, next)

\* Any later one may bring one too, which is not for the chain.
Rotate ==
    \E u \in Users, key \in PkHashes \cup {ZeroHash}, address \in Addresses,
       next \in NewCommitments :
        /\ chain[u] # << >>
        /\ Submit(KeyRequest(u, key, address, next))
        /\ UNCHANGED chain

Play ==
    \E u \in Users, amount \in Amounts, win \in WinAmounts, game \in Games,
       seed \in Seeds, secret \in Secrets, next \in NewCommitments :
        /\ Submit(RoundRequest(TX_IN_HOUSE_BET, u, amount, win, game, seed, secret,
                               next, NoCommitment))
        /\ Record(u, {seed}, next)

\* For whatever account; check_house_account lets it through on leaf 0 only.
Commit ==
    \E u \in Users, next \in NewCommitments :
        /\ Len(chain[u]) < MaxCommitments
        /\ Submit(CommitRequest(u, next))
        /\ Record(u, {}, next)

OtherSlot ==
    /\ \/ Noop \/ Deposit \/ Bet \/ Win \/ Bonus \/ Withdrawal \/ RiskReject
       \/ Transfer \/ Referral \/ CrashSettle \/ SetProviderAllowance
    /\ UNCHANGED chain

ChainNext == Register \/ Rotate \/ Play \/ Commit \/ OtherSlot

ChainSpec == ChainInit /\ [][ChainNext]_chain_vars

-----------------------------------------------------------------------------
\* The commitment an account was last given, by whichever slot may give one.
committed(u) == IF chain[u] = << >> THEN Zero ELSE chain[u][Len(chain[u])].commits

\* A leaf holds that commitment until the bet that reveals it: no rotation that
\* brings a fresh one, no crash settlement, change of allowance or other slot
\* replaces it, nor does a key for the house account replace the operator's
\* (lib.rs and fairness.rs, seed advance; the first registration is told by a
\* zero seed).
CommitmentIsHeld == \A u \in Users : leaves[u].seed_hash = committed(u)

\* Every bet that was ever settled revealed the seed its account had been
\* committed to in the round before, or at its registration, whatever landed in
\* between: the server's side of a round is fixed before the bet (C9).
RevealsWhatWasCommitted ==
    \A u \in Users : \A i \in DOMAIN chain[u] : \A seed \in chain[u][i].reveals :
        /\ i > 1
        /\ SeedHash[seed] = chain[u][i - 1].commits
=============================================================================
