-------------------------------- MODULE Hash --------------------------------
(***************************************************************************)
(* Poseidon2 commitments and the state tree (hash.rs, merkle.rs), with     *)
(* collision resistance as the one cryptographic assumption: the hash of a *)
(* tuple of inputs is that tuple, as a record that names them.             *)
(*                                                                         *)
(* Two hashes keep their shape because the code truncates them: a pk hash  *)
(* and an address hash are pairs [lo, hi] of two limbs each, and the tree  *)
(* leaf holds only lo.                                                     *)
(***************************************************************************)
EXTENDS Packing

CONSTANTS
    Seeds,       \* server seeds: a set of [lo, hi], four limbs each
    SeedHash,    \* [Seeds -> commitments], Poseidon2(server_seed)[0..3]
    PkHashes,    \* registered keys: a set of [lo, hi]
    Addresses,   \* user addresses (20 bytes)
    AddressHash, \* [Addresses -> [lo, hi]], Poseidon2(user_address)
    NumUsers     \* number of leaves, 2^TREE_DEPTH

Users == 0 .. NumUsers - 1
ZeroHash == [lo |-> Zero, hi |-> Zero]
SeedHashes == {SeedHash[s] : s \in Seeds}
AddressHashes == {AddressHash[a] : a \in Addresses}

ASSUME TreeAssumption == NumUsers \in Nat \ {0}

\* Collision and preimage resistance: no two seeds share a commitment, and
\* nobody knows a seed or an address that hashes to zero.
ASSUME SeedHashAssumption ==
    /\ SeedHash \in [Seeds -> SeedHashes]
    /\ \A s, t \in Seeds : SeedHash[s] = SeedHash[t] => s = t
    /\ SeedHashes \cap {Zero, NonCanonical} = {}

\* The same for keys and addresses, already on the two limbs a leaf keeps.
ASSUME IdentityHashAssumption ==
    /\ AddressHash \in [Addresses -> AddressHashes]
    /\ \A a, b \in Addresses : AddressHash[a].lo = AddressHash[b].lo => a = b
    /\ \A k, l \in PkHashes : k.lo = l.lo => k = l
    /\ \A h \in PkHashes \cup AddressHashes :
          /\ h = [lo |-> h.lo, hi |-> h.hi]
          /\ h.lo # Zero
    /\ NonCanonical \notin PkHashes \cup AddressHashes \cup {ZeroHash}

seed_hash_truncated(seed) == SeedHash[seed]
address_hash(user_address) == AddressHash[user_address]

(***************************************************************************)
(* The state tree.  A leaf commits to the account; the upper limbs of the  *)
(* key and address hashes stay outside.  A root commits to every leaf, and *)
(* a proof (the siblings of a path) fixes every leaf but one: lifting a    *)
(* leaf along it gives the commitment of the tree with that leaf replaced. *)
(***************************************************************************)
\* Mutant: the leaf does not commit to the nonce.
balance_leaf_without_nonce(account) ==
    [packed |-> pack_balance_fields(account.balance, account.provider_allowance),
     seed_hash |-> account.seed_hash,
     credit |-> split_u64(account.deposit_credit)]

balance_leaf(account) ==
    [packed |-> pack_balance_fields(account.balance, account.provider_allowance),
     seed_hash |-> account.seed_hash,
     credit |-> split_u64(account.deposit_credit), nonce |-> account.nonce]

main_leaf(account) ==
    [balance_hash |-> balance_leaf(account),
     pk_hash |-> account.pk_hash.lo,
     address_hash |-> account.address_hash.lo]

root_from_leaf(leaf, siblings, user_id) == [siblings EXCEPT ![user_id] = leaf]

compute_root(account, siblings, user_id) ==
    root_from_leaf(main_leaf(account), siblings, user_id)

\* The proof a tree store hands out for any user of a tree of accounts.
SiblingsOf(accounts) == [u \in Users |-> main_leaf(accounts[u])]
RootOf(accounts) == SiblingsOf(accounts)

(***************************************************************************)
(* The game commitments.                                                   *)
(***************************************************************************)
random_ihb(server_seed, user_seed) ==
    [server_seed |-> server_seed, user_seed |-> user_seed]

\* Not a hash: the raw first half of the seed.
random_crash(server_seed) == [raw |-> server_seed.lo]

user_seed_binding(game_id, bet, prediction_hash, user_secret) ==
    [game_id |-> game_id, bet |-> bet, prediction_hash |-> prediction_hash,
     user_secret |-> user_secret]

slot_h(random, bet, win, game_id, prediction_hash) ==
    [random |-> random, bet |-> bet, win |-> win, game_id |-> game_id,
     prediction_hash |-> prediction_hash]

prediction_hash_standard(game_id, p0, p1, p2) == <<game_id, p0, p1, p2>>

\* Unused pick slots are padded with 0; the count disambiguates them.
prediction_hash_keno(game_id, risk, picks) == <<game_id, risk, picks>>
=============================================================================
