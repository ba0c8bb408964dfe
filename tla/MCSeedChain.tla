---------------------------- MODULE MCSeedChain ----------------------------
(***************************************************************************)
(* One player and the house, two seeds, a coin that always comes up 0 and  *)
(* a crash round that pays twice the stake.                                *)
(***************************************************************************)
EXTENDS SeedChain

MCSeeds == {[lo |-> 1, hi |-> 1], [lo |-> 2, hi |-> 1]}
MCSeedHash == [s \in Seeds |-> <<"commitment", s>>]
MCPkHashes == {[lo |-> "k1", hi |-> "k1hi"]}
MCAddressHash == [a \in Addresses |-> [lo |-> "lo of " \o a, hi |-> "hi of " \o a]]
MCGames ==
    {[DefaultGame EXCEPT !.game_id = COINFLIP],
     [DefaultGame EXCEPT !.game_id = CRASH, !.prediction_lo = 2]}
MCGameCore(game, random, bet, args) == [win |-> 2 * bet, staked |-> bet]
MCUnpackActions(lo, hi) == <<lo, hi>>
=============================================================================
