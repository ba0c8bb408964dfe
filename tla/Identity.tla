------------------------------ MODULE Identity ------------------------------
(***************************************************************************)
(* Who an account belongs to and what its owner allows: the allowance that *)
(* caps provider bets (allowance.rs), the session key and the payout       *)
(* address (address.rs), and the key a signed slot needs (auth.rs).        *)
(***************************************************************************)
EXTENDS Hash, NonceLanes

-----------------------------------------------------------------------------
\* Mutant: a provider win gives back what its bet took.
new_rolling_allowance(in) ==
    CASE in.req.tx_type = TX_SET_PROVIDER_ALLOWANCE -> in.req.amount
      [] in.req.tx_type = TX_BET -> in.old.provider_allowance - in.req.amount
      [] in.req.tx_type = TX_WIN -> in.old.provider_allowance + in.req.amount
      [] OTHER -> in.old.provider_allowance

\* allowance.rs: the owner sets it, a provider bet spends it, a win does not
\* restore it.
new_allowance(in) ==
    CASE in.req.tx_type = TX_SET_PROVIDER_ALLOWANCE -> in.req.amount
      [] in.req.tx_type = TX_BET -> in.old.provider_allowance - in.req.amount
      [] OTHER -> in.old.provider_allowance

\* Mutant: only the borrow is checked, not the width of a new allowance.
compute_unbounded_allowance(in) ==
    Require(new_allowance(in) >= 0, "ProviderAllowanceExceeded")

compute_new_allowance(in) ==
    Require(/\ in.old.provider_allowance <= PROVIDER_ALLOWANCE_MAX
            /\ new_allowance(in) <= PROVIDER_ALLOWANCE_MAX,
            "ProviderAllowanceOverflow") ??
    Require(new_allowance(in) >= 0, "ProviderAllowanceExceeded")

-----------------------------------------------------------------------------
\* address.rs: a registration that supplies a key installs it; the address is
\* stamped by the first deposit or registration and checked by later deposits.
is_key_setter(in) ==
    in.req.tx_type = TX_KEY_REGISTER_ONLY /\ in.req.new_pk_hash # ZeroHash

new_pk_hash(in) == IF is_key_setter(in) THEN in.req.new_pk_hash ELSE in.old.pk_hash

is_addr_all_zero(in) == in.old.address_hash = ZeroHash

\* Mutant: a key rotation stamps the address again.
is_address_setter_on_rotation(in) ==
    (in.req.tx_type = TX_DEPOSIT /\ is_addr_all_zero(in)) \/ is_key_setter(in)

is_address_setter(in) ==
    (in.req.tx_type = TX_DEPOSIT \/ is_key_setter(in)) /\ is_addr_all_zero(in)

new_address_hash(in) ==
    IF is_address_setter(in) THEN address_hash(in.req.user_address)
    ELSE in.old.address_hash

build_address(in) ==
    Require(in.req.tx_type = TX_DEPOSIT /\ ~is_addr_all_zero(in) =>
                address_hash(in.req.user_address) = in.old.address_hash,
            "AddressHashMismatch")

\* F6: a withdrawal pays the address its signature names; nothing else pays.
recipient_addr_hash_for(t, user_address) ==
    IF t = TX_WITHDRAWAL THEN address_hash(user_address).lo ELSE Zero

check_recipient_binding(in) ==
    Require(in.req.recipient_addr_hash =
                recipient_addr_hash_for(in.req.tx_type, in.req.user_address),
            "RecipientAddrHashMismatch")

-----------------------------------------------------------------------------
\* auth.rs: signatures are verified elsewhere; the key must be registered.
\* Mutant: only debits are taken to need a key.
check_debit_auth(in) ==
    Require(is_account_lane(in.req.tx_type) \/ is_ihb_or_crash(in.req.tx_type) =>
                in.old.pk_hash # ZeroHash, "SignedWithoutPk")

check_auth(in) ==
    Require(is_authenticated(in.req.tx_type) => in.old.pk_hash # ZeroHash,
            "SignedWithoutPk")

\* A slot bumps the lane it is signed under; installing a key bumps the account
\* lane although another circuit verifies its signature.
is_account_signed(in) == is_account_lane(in.req.tx_type) \/ is_key_setter(in)

\* Mutant: a transfer is signed but leaves its lane where it was.
new_nonce_without_transfers(in) ==
    compute_new_nonce(in.old.nonce, is_game_lane(in.req.tx_type),
                      is_account_signed(in) /\ in.req.tx_type # TX_TRANSFER)

new_nonce(in) ==
    compute_new_nonce(in.old.nonce, is_game_lane(in.req.tx_type), is_account_signed(in))

check_new_nonce(in) ==
    compute_new_nonce_check(in.old.nonce, is_game_lane(in.req.tx_type), is_account_signed(in))
=============================================================================
