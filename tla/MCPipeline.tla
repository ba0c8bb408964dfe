----------------------------- MODULE MCPipeline -----------------------------
(***************************************************************************)
(* Pipeline on the inputs of the tests.  What a game pays depends on all   *)
(* it is called with; the picks of the keno round are not in order, and    *)
(* one coin is called with a prediction that is 0 only as a u8.            *)
(***************************************************************************)
EXTENDS Pipeline, Candidates

MCPlayed == [lo |-> 1, hi |-> 1]
MCNext == [lo |-> 2, hi |-> 1]
MCSeeds == {MCPlayed, MCNext}
MCSeedHash == [s \in Seeds |-> <<"commitment", s>>]
MCOldKey == [lo |-> "k1", hi |-> "k1hi"]
MCNewKey == [lo |-> "k2", hi |-> "k2hi"]
MCPkHashes == {MCOldKey, MCNewKey}
MCAddressHash == [a \in Addresses |-> [lo |-> "lo of " \o a, hi |-> "hi of " \o a]]

MCKenoTables == (0 .. 2) \X (1 .. KENO_MAX_PICKS)

Game(id, mode, lo, hi) ==
    [DefaultGame EXCEPT !.game_id = id, !.game_mode = mode,
                        !.prediction_lo = lo, !.prediction_hi = hi]

MCGames ==
    {Game(COINFLIP, 0, 0, 0), Game(COINFLIP, 0, 1, 0), Game(COINFLIP, 0, U8_SIZE, 0),
     Game(DICE, 0, 5, 0), Game(LIMBO, 2, 2, 0), Game(PLINKO, 0, 2, 1),
     [Game(KENO, 1, 0, 0) EXCEPT !.keno_selected = <<2, 0>>],
     [Game(BLACKJACK, 0, 2, 1) EXCEPT !.base_bet = 1]}

\* A number that depends on the random value, the bet and every argument.
Spread(random, args) ==
    IF "raw" \in DOMAIN random THEN random.raw
    ELSE random.server_seed.lo + args[1]

Secrets == [s |-> 1, t |-> 3]

MCGameCore(game, random, bet, args) ==
    CASE game \in {COINFLIP, DICE, KENO, PLINKO, LIMBO, CRASH} ->
            [win |-> IF Spread(random, args) % 2 = 1 THEN 2 * bet ELSE 0, staked |-> bet]
      [] game = BLACKJACK ->
            \* doubled once; the shoe decides
            [win |-> Secrets[args[1].user_secret_random] * args[3], staked |-> 2 * args[3]]
      [] OTHER -> NoPayout

MCUnpackActions(lo, hi) == <<lo, hi>>
=============================================================================
