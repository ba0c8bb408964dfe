--------------------------- MODULE MCWitnessEngine ---------------------------
(***************************************************************************)
(* Two workers on two accounts.  Wins, reverts and deposits need no key,   *)
(* so every mixture of snapshots can be met in a few steps, and a win that *)
(* is reverted brings the tree back to a state an old witness was read in. *)
(***************************************************************************)
EXTENDS WitnessEngine

MCNoSeeds == {}
MCSeedHash == [s \in Seeds |-> s]
MCNoKeys == {}
MCAddressHash == [a \in Addresses |-> [lo |-> "lo of " \o a, hi |-> "hi of " \o a]]
MCNoGameCore(game, random, bet, args) == NoPayout

MCPool ==
    {AmountRequest(TX_WIN, 0, 1), AmountRequest(TX_RISK_REJECT, 0, 1),
     DepositRequest(1, 1, DefaultAddress)}

MCUnpackActions(lo, hi) == <<lo, hi>>
=============================================================================
