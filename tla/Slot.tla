-------------------------------- MODULE Slot --------------------------------
(***************************************************************************)
(* validate_slot (lib.rs): every check on a candidate slot, in the code's  *)
(* order, and the effects of a slot that passes.                           *)
(*                                                                         *)
(* SlotInput is the record                                                 *)
(*   in.req                  what the engine or a client submits           *)
(*   in.old                  the account the witness claims the leaf holds *)
(*   in.main_siblings        the proof of that leaf                        *)
(*   in.old_total_liability  the total the witness was built on            *)
(*   in.current_root, in.current_tl   the block state it is checked on     *)
(* validate_slot(in) is Ok or the name of the SlotRejection; the effects   *)
(* are operators of their own (new_balance, ..., new_root).                *)
(***************************************************************************)
EXTENDS Balance, Identity, Fairness

\* The account behind a leaf, in the widths the code stores, and an unused one.
EmptyAccount ==
    [balance |-> 0, deposit_credit |-> 0, nonce |-> 0, provider_allowance |-> 0,
     seed_hash |-> Zero, pk_hash |-> ZeroHash, address_hash |-> ZeroHash]

Account ==
    [balance : U64, deposit_credit : U64, nonce : Nonces,
     provider_allowance : Allowances, seed_hash : SeedHashes \cup {Zero},
     pk_hash : PkHashes \cup {ZeroHash},
     address_hash : AddressHashes \cup {ZeroHash}]

\* What Poseidon2 returns is canonical.
ASSUME LeafHashAssumption == \A account \in Account : main_leaf(account) # NonCanonical

-----------------------------------------------------------------------------
check_tx_type(in) == Require(in.req.tx_type <= MAX_TX_TYPE, "BadTxType")

\* C2b: every opaque group that is hashed later, the siblings included.
check_field_canonicity(in) ==
    LET groups == <<in.req.server_seed, in.req.user_seed, in.old.seed_hash,
                    in.req.next_server_seed_hash, in.old.pk_hash,
                    in.req.new_pk_hash, in.old.address_hash,
                    in.req.prediction_hash, in.req.user_secret_random>>
    IN Require(/\ is_canonical(in.old.nonce)
               /\ \A i \in DOMAIN groups : all_canonical(groups[i])
               /\ \A u \in DOMAIN in.main_siblings : all_canonical(in.main_siblings[u]),
               "FieldNotCanonical")

\* C2c
check_amount_canonicity(in) ==
    Require(is_canonical(in.req.amount) /\ is_canonical(in.req.win_amount),
            "AmountNotCanonical")

check_stored_allowance_range(in) ==
    Require(in.old.provider_allowance <= PROVIDER_ALLOWANCE_MAX,
            "ProviderAllowanceOverflow")

\* C17
check_user_id_range(in) == Require(in.req.user_id < NumUsers, "UserIdOutOfRange")

\* Mutant: the old leaf is looked up in the tree, the proof is not lifted.
verify_own_leaf(in) ==
    Require(main_leaf(in.old) = in.current_root[in.req.user_id], "MerkleRootMismatch")

\* C16
verify_current_root(in) ==
    Require(compute_root(in.old, in.main_siblings, in.req.user_id) = in.current_root,
            "MerkleRootMismatch")

\* Mutant: a total that has grown since the witness was read is accepted.
check_tl_bound(in) ==
    Require(in.old_total_liability <= in.current_tl, "TlOverflow")

\* C18
check_tl_chain(in) ==
    Require(in.old_total_liability = in.current_tl, "TlOverflow")

-----------------------------------------------------------------------------
\* Mutant: every registration installs the seed that comes with it.
is_any_registration(in) == in.req.tx_type = TX_KEY_REGISTER_ONLY

\* Mutant: a first registration is told by a missing key.
is_keyless_registration(in) ==
    in.req.tx_type = TX_KEY_REGISTER_ONLY /\ in.old.pk_hash = ZeroHash

\* The seed moves on a bet, on the operator's commitment and, once, when an
\* account that has none is registered.
is_first_registration(in) ==
    in.req.tx_type = TX_KEY_REGISTER_ONLY /\ all_zero(in.old.seed_hash)

is_needs_new_seed(in) ==
    \/ in.req.tx_type \in {TX_IN_HOUSE_BET, TX_SET_INIT_SEED_HASH}
    \/ is_first_registration(in)

\* Mutant: the zero check forgets the first registration.
check_rotated_seed(in) ==
    Require(in.req.tx_type \in {TX_IN_HOUSE_BET, TX_SET_INIT_SEED_HASH} =>
                ~all_zero(in.req.next_server_seed_hash), "ZeroSeedCommit")

check_new_seed(in) ==
    Require(is_needs_new_seed(in) => ~all_zero(in.req.next_server_seed_hash),
            "ZeroSeedCommit")

new_seed_hash(in) ==
    IF is_needs_new_seed(in) THEN in.req.next_server_seed_hash ELSE in.old.seed_hash

\* Leaf 0 is the house account of the crash game: it alone takes the operator's
\* commitment, and it never bets.
check_house_account(in) ==
    Require(in.req.tx_type = TX_SET_INIT_SEED_HASH => in.req.user_id = 0,
            "SetInitSeedNotAccountZero") ??
    Require(in.req.tx_type = TX_IN_HOUSE_BET => in.req.user_id # 0,
            "InHouseBetOnAccountZero")

new_account(in) ==
    [balance |-> new_balance(in), deposit_credit |-> new_credit(in),
     nonce |-> new_nonce(in), provider_allowance |-> new_allowance(in),
     seed_hash |-> new_seed_hash(in), pk_hash |-> new_pk_hash(in),
     address_hash |-> new_address_hash(in)]

\* Mutant: the new leaf is hashed with the nonce of the old one.
compute_root_with_old_nonce(in) ==
    compute_root([new_account(in) EXCEPT !.nonce = in.old.nonce],
                 in.main_siblings, in.req.user_id)

compute_new_root(in) == compute_root(new_account(in), in.main_siblings, in.req.user_id)

\* The effects' contribution to the multiset the payout proof is matched with.
is_multiset_slot(in) == is_ihb_or_crash(in.req.tx_type)

slot_commitment(in) ==
    slot_h(game_random(in), in.req.amount, in.req.win_amount,
           in.req.game.game_id, in.req.prediction_hash)

compute_effects(in) ==
    check_house_account(in) ??
    build_balance_changes(in) ??
    compute_new_allowance(in) ??
    risk_reject_floor(in) ??
    build_address(in) ??
    check_recipient_binding(in) ??
    check_auth(in) ??
    check_new_nonce(in) ??
    (IF is_ihb_or_crash(in.req.tx_type) THEN check_fairness(in) ELSE Ok) ??
    check_new_seed(in) ??
    compute_new_tl(in)

validate_slot(in) ==
    check_tx_type(in) ??
    check_field_canonicity(in) ??
    check_amount_canonicity(in) ??
    check_stored_allowance_range(in) ??
    check_user_id_range(in) ??
    verify_current_root(in) ??
    check_tl_chain(in) ??
    compute_effects(in)
=============================================================================
