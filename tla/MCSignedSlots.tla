--------------------------- MODULE MCSignedSlots ---------------------------
(***************************************************************************)
(* One player, account 1, with two keys and two seeds, and every way the   *)
(* operator can complete his messages: the other address, the other seed,  *)
(* the other side of the coin, a fresh commitment with a rotation.         *)
(***************************************************************************)
EXTENDS SignedSlots

MCSeeds == {[lo |-> 0, hi |-> 1], [lo |-> 2, hi |-> 1]}
MCSeedHash == [s \in Seeds |-> <<"commitment", s>>]
MCPkHashes == {[lo |-> "k1", hi |-> "k1hi"], [lo |-> "k2", hi |-> "k2hi"]}
MCAddressHash == [a \in Addresses |-> [lo |-> "lo of " \o a, hi |-> "hi of " \o a]]

Side(prediction) ==
    [DefaultGame EXCEPT !.game_id = COINFLIP, !.prediction_lo = prediction]

\* Every seed comes up 0: heads.
MCGameCore(game, random, bet, args) ==
    [win |-> IF args[1] = 0 THEN 2 * bet ELSE 0, staked |-> bet]

Bets ==
    {RoundRequest(TX_IN_HOUSE_BET, 1, 1, 2 * win, Side(1 - win), seed, "secret", next,
                  NoCommitment) : win \in {0, 1}, seed \in Seeds, next \in SeedHashes}

\* The bet as signed for one side, completed for the other.
Swapped ==
    {[bet EXCEPT !.user_seed = other.user_seed] : bet \in Bets, other \in Bets}

MCRequests ==
    {DepositRequest(1, 2, "a1"), AmountRequest(TX_TRANSFER, 1, 1),
     AmountRequest(TX_SET_PROVIDER_ALLOWANCE, 1, 1), AmountRequest(TX_BET, 1, 1)}
    \cup {WithdrawalRequest(1, 1, paid, "a1") : paid \in Addresses}
    \cup {KeyRequest(1, key, "a1", next) :
              key \in PkHashes \cup {ZeroHash}, next \in SeedHashes}
    \cup Swapped

MCUnpackActions(lo, hi) == <<lo, hi>>
=============================================================================
