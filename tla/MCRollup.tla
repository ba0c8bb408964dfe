------------------------------ MODULE MCRollup ------------------------------
(***************************************************************************)
(* Rollup on small instances.  The house account is leaf 0.  The game is a *)
(* coin flip whose toss is the parity of the seed's first half; a correct  *)
(* call pays the stake twice, a crash round its cashout.                   *)
(***************************************************************************)
EXTENDS Rollup

MCSeeds1 == {[lo |-> 1, hi |-> 1]}
MCSeeds2 == MCSeeds1 \cup {[lo |-> 2, hi |-> 1]}
MCSeedHash == [s \in Seeds |-> <<"commitment", s>>]
MCPkHashes1 == {[lo |-> "k1", hi |-> "k1hi"]}
MCPkHashes2 == MCPkHashes1 \cup {[lo |-> "k2", hi |-> "k2hi"]}
MCAddressHash == [a \in Addresses |-> [lo |-> "lo of " \o a, hi |-> "hi of " \o a]]

Heads == [DefaultGame EXCEPT !.game_id = COINFLIP]
CrashGame == [DefaultGame EXCEPT !.game_id = CRASH, !.prediction_lo = 2]
MCGames == {Heads, CrashGame}
MCFlips == {Heads, [Heads EXCEPT !.prediction_lo = 1]}

Toss(random) ==
    IF "raw" \in DOMAIN random THEN random.raw % 2 ELSE random.server_seed.lo % 2

MCGameCore(game, random, bet, args) ==
    CASE game = COINFLIP ->
            [win |-> IF Toss(random) = args[1] THEN 2 * bet ELSE 0, staked |-> bet]
      [] game = CRASH ->
            [win |-> IF Toss(random) = 0 THEN args[1] * bet ELSE 0, staked |-> bet]
      [] OTHER -> NoPayout

MCUnpackActions(lo, hi) == <<lo, hi>>
=============================================================================
