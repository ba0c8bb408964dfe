------------------------------ MODULE Requests ------------------------------
(***************************************************************************)
(* What can be submitted: SlotInput without the witness (lib.rs), by type  *)
(* of transaction.                                                         *)
(***************************************************************************)
EXTENDS Slot

ASSUME SomeAddress == Addresses # {}

\* Id 0, whichever game of the crate that is: no type that leaves it there reads it.
DefaultGame ==
    [game_id |-> "game 0", game_mode |-> 0, prediction_lo |-> 0,
     prediction_hi |-> 0, base_bet |-> 0, keno_selected |-> <<>>]

DefaultAddress == CHOOSE a \in Addresses : TRUE

\* SlotInput::default() with a type and a user.
Request(t, u) ==
    [tx_type |-> t, user_id |-> u, amount |-> 0, win_amount |-> 0,
     server_seed |-> Zero, user_seed |-> Zero, next_server_seed_hash |-> Zero,
     new_pk_hash |-> ZeroHash, user_address |-> DefaultAddress,
     recipient_addr_hash |-> Zero, game |-> DefaultGame,
     prediction_hash |-> Zero, user_secret_random |-> Zero,
     crash_seed_hash |-> NoCommitment]

-----------------------------------------------------------------------------
\* The requests, by type.  Fields a type does not read keep their defaults.
AmountRequest(t, u, amount) == [Request(t, u) EXCEPT !.amount = amount]

DepositRequest(u, amount, address) ==
    [Request(TX_DEPOSIT, u) EXCEPT !.amount = amount, !.user_address = address]

\* `signed` is the address the owner's signature names.
WithdrawalRequest(u, amount, address, signed) ==
    [Request(TX_WITHDRAWAL, u) EXCEPT
        !.amount = amount, !.user_address = address,
        !.recipient_addr_hash = recipient_addr_hash_for(TX_WITHDRAWAL, signed)]

CommitRequest(u, next) ==
    [Request(TX_SET_INIT_SEED_HASH, u) EXCEPT !.next_server_seed_hash = next]

KeyRequest(u, key, address, next) ==
    [Request(TX_KEY_REGISTER_ONLY, u) EXCEPT
        !.new_pk_hash = key, !.user_address = address, !.next_server_seed_hash = next]

RoundRequest(t, u, amount, win, game, seed, secret, next, known) ==
    [Request(t, u) EXCEPT
        !.amount = amount, !.win_amount = win, !.game = game,
        !.prediction_hash = expected_prediction_hash(game),
        !.server_seed = seed, !.user_secret_random = secret,
        !.user_seed = user_seed_binding(game.game_id, amount,
                                        expected_prediction_hash(game), secret),
        !.next_server_seed_hash = next, !.crash_seed_hash = known]

NewCommitments == SeedHashes \cup {Zero, NonCanonical}

\* What the types of SlotInput, and hashes nobody can invert, say of a request.
SoundRequest(req) ==
    /\ req.tx_type \in Nat
    /\ req.user_id \in Users
    /\ req.amount \in U64 /\ req.win_amount \in U64
    /\ req.next_server_seed_hash \in NewCommitments
    /\ req.new_pk_hash \in PkHashes \cup {ZeroHash}
    /\ req.user_address \in Addresses
=============================================================================
