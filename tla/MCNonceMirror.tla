--------------------------- MODULE MCNonceMirror ---------------------------
(***************************************************************************)
(* One player, account 1, with one key.  A debit is rejected while the     *)
(* account is empty, every signed slot before the registration, and a slot *)
(* at the ceiling of its lane.                                             *)
(***************************************************************************)
EXTENDS NonceMirror

MCSeeds == {[lo |-> 1, hi |-> 1]}
MCSeedHash == [s \in Seeds |-> <<"commitment", s>>]
MCPkHashes == {[lo |-> "k1", hi |-> "k1hi"]}
MCAddressHash == [a \in Addresses |-> [lo |-> "lo of " \o a, hi |-> "hi of " \o a]]
MCNoGameCore(game, random, bet, args) == NoPayout
MCUnpackActions(lo, hi) == <<lo, hi>>

MCRequests ==
    {DepositRequest(1, 1, "a1"), AmountRequest(TX_TRANSFER, 1, 1),
     AmountRequest(TX_RISK_REJECT, 1, 1),
     AmountRequest(TX_SET_PROVIDER_ALLOWANCE, 1, 1), AmountRequest(TX_BET, 1, 1),
     WithdrawalRequest(1, 1, "a1", "a1")}
    \cup {KeyRequest(1, key, "a1", next) :
              key \in PkHashes \cup {ZeroHash}, next \in SeedHashes}
=============================================================================
