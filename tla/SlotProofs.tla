---------------------------- MODULE SlotProofs ----------------------------
(***************************************************************************)
(* What the packed leaf and the packed nonce keep of their parts, what     *)
(* acceptance by validate_slot entails, and what the effects of an         *)
(* accepted slot are, for every width of the words.                        *)
(***************************************************************************)
EXTENDS Slot, TLAPS

(***************************************************************************)
(* The packing of a balance leaf loses nothing, at every width.            *)
(***************************************************************************)
\* A number is determined by its quotient and remainder, and each is in range.
LEMMA Division ==
    ASSUME NEW d \in Nat \ {0}, NEW n \in Nat
    PROVE  /\ n \div d \in Nat /\ n % d \in 0 .. d - 1
           /\ n = (n \div d) * d + (n % d)
  BY Z3

\* The quotient and the remainder of a sum put together from them.
LEMMA DivisionOfJoin ==
    ASSUME NEW d \in Nat \ {0}, NEW q \in Nat, NEW r \in 0 .. d - 1
    PROVE  (q * d + r) \div d = q /\ (q * d + r) % d = r
<1> DEFINE n == q * d + r
<1>1. n \in Nat /\ n = q * d + r
  OBVIOUS
<1>2. n \div d = q /\ n % d = r
  BY <1>1, Z3
<1> QED BY <1>2

\* A number below a square has a quotient below its root.
LEMMA QuotientBelow ==
    ASSUME NEW d \in Nat \ {0}, NEW n \in Nat, n < d * d
    PROVE  n \div d \in 0 .. d - 1
<1>1. n \div d \in Nat /\ (n \div d) * d <= n
  BY Division
<1>2. CASE n \div d >= d
  <2>1. (n \div d) * d >= d * d
    BY <1>1, <1>2, Z3
  <2> QED BY <1>1, <2>1
<1> QED BY <1>1, <1>2

\* The limbs of a word.
LEMMA LimbsInRange ==
    ASSUME NEW v \in U64
    PROVE  /\ split_u64(v)[1] \in 0 .. LIMB - 1
           /\ split_u64(v)[2] \in 0 .. LIMB - 1
           /\ v = split_u64(v)[2] * LIMB + split_u64(v)[1]
<1>1. v \in Nat /\ v < LIMB * LIMB /\ LIMB \in Nat \ {0}
  BY PackingAssumption, WordAssumption DEF U64
<1> QED BY <1>1, Division, QuotientBelow DEF split_u64

\* The halves of an allowance.
LEMMA HalvesInRange ==
    ASSUME NEW a \in Allowances
    PROVE  /\ a % HALF \in 0 .. HALF - 1 /\ a \div HALF \in 0 .. HALF - 1
           /\ a = (a \div HALF) * HALF + (a % HALF)
<1>1. a \in Nat /\ a < HALF * HALF /\ HALF \in Nat \ {0}
  BY PackingAssumption, WordAssumption DEF Allowances
<1> QED BY <1>1, Division, QuotientBelow

\* unpack_balance_fields reads back what pack_balance_fields stored, for every
\* balance and every allowance a leaf can hold.
THEOREM UnpackOfPack ==
    ASSUME NEW b \in U64, NEW a \in Allowances
    PROVE  unpack_balance_fields(pack_balance_fields(b, a)) = <<b, a>>
<1> DEFINE fields == pack_balance_fields(b, a)
           lo == split_u64(b)[1]
           hi == split_u64(b)[2]
<1>1. /\ lo \in 0 .. LIMB - 1 /\ hi \in 0 .. LIMB - 1 /\ b = hi * LIMB + lo
      /\ LIMB \in Nat \ {0}
  BY LimbsInRange, PackingAssumption
<1>2. /\ a % HALF \in Nat /\ a \div HALF \in Nat
      /\ a = (a \div HALF) * HALF + (a % HALF)
  BY HalvesInRange
<1>3. /\ fields[1] \div LIMB = a % HALF /\ fields[1] % LIMB = lo
      /\ fields[2] \div LIMB = a \div HALF /\ fields[2] % LIMB = hi
  BY <1>1, <1>2, DivisionOfJoin DEF pack_balance_fields
<1>4. (fields[1] % LIMB) + (fields[2] % LIMB) * LIMB = b
  BY <1>1, <1>3
<1>5. (fields[2] \div LIMB) * HALF + (fields[1] \div LIMB) = a
  BY <1>2, <1>3
<1> QED BY <1>4, <1>5 DEF unpack_balance_fields

\* A half above a limb stays below 2^63.
LEMMA PackedWordFits ==
    ASSUME NEW h \in 0 .. HALF - 1, NEW l \in 0 .. LIMB - 1
    PROVE  h * LIMB + l \in Nat /\ h * LIMB + l < GOLDILOCKS_P
<1>1. /\ HALF \in Nat \ {0} /\ LIMB \in Nat \ {0} /\ h \in Nat /\ l \in Nat
      /\ h + 1 <= HALF /\ l < LIMB
  BY PackingAssumption
<1>2. (h + 1) * LIMB <= HALF * LIMB
  BY <1>1, Z3
<1>3. (h + 1) * LIMB = h * LIMB + LIMB /\ h * LIMB \in Nat
  BY <1>1
<1>4. HALF * LIMB \in Nat
  BY <1>1
<1> QED BY <1>1, <1>2, <1>3, <1>4, PackingAssumption, WordAssumption

\* "Each packed field is < 2^63 < p" (field.rs): what is packed can be hashed.
THEOREM PackedIsCanonical ==
    ASSUME NEW b \in U64, NEW a \in Allowances
    PROVE  LET fields == pack_balance_fields(b, a)
           IN is_canonical(fields[1]) /\ is_canonical(fields[2])
  BY LimbsInRange, HalvesInRange, PackedWordFits DEF pack_balance_fields, is_canonical

\* "allowance = 0 reproduces the legacy pure-u32 limbs" (field.rs): a leaf from
\* before the allowance keeps its hash.
THEOREM LegacyLeaf ==
    ASSUME NEW b \in U64
    PROVE  pack_balance_fields(b, 0) = split_u64(b)
<1>1. 0 % HALF = 0 /\ 0 \div HALF = 0
  BY PackingAssumption, Z3
<1>2. /\ split_u64(b)[1] \in Nat /\ split_u64(b)[2] \in Nat
      /\ split_u64(b) = <<split_u64(b)[1], split_u64(b)[2]>> /\ LIMB \in Nat
  BY LimbsInRange, PackingAssumption DEF split_u64
<1> QED BY <1>1, <1>2 DEF pack_balance_fields

(***************************************************************************)
(* The two-lane nonce.                                                     *)
(***************************************************************************)
\* A word splits into the lanes it was joined from.
LEMMA SplitOfJoin ==
    ASSUME NEW a \in Nat, NEW g \in 0 .. GAME_LANE_MAX
    PROVE  /\ account_lane(join_nonce(a, g)) = a
           /\ game_lane(join_nonce(a, g)) = g
           /\ join_nonce(a, g) \in Nat
<1>1. ACCOUNT_LANE_UNIT \in Nat \ {0} /\ g < ACCOUNT_LANE_UNIT
  BY LaneAssumption DEF ACCOUNT_LANE_UNIT
<1> DEFINE n == join_nonce(a, g)
<1>2. n = a * ACCOUNT_LANE_UNIT + g /\ n \in Nat
  BY <1>1 DEF join_nonce
<1>3. n \div ACCOUNT_LANE_UNIT = a /\ n % ACCOUNT_LANE_UNIT = g
  BY <1>1, <1>2, Z3
<1> QED BY <1>2, <1>3 DEF account_lane, game_lane

\* A word is the join of its lanes.
LEMMA JoinOfSplit ==
    ASSUME NEW n \in Nonces
    PROVE  /\ n = join_nonce(account_lane(n), game_lane(n))
           /\ account_lane(n) \in 0 .. ACCOUNT_LANE_MAX
           /\ game_lane(n) \in 0 .. GAME_LANE_MAX
<1>1. ACCOUNT_LANE_UNIT \in Nat \ {0} /\ n \in Nat /\ ACCOUNT_LANE_MAX \in Nat
  BY LaneAssumption DEF ACCOUNT_LANE_UNIT, Nonces
<1>2. n < (ACCOUNT_LANE_MAX + 1) * ACCOUNT_LANE_UNIT
  BY <1>1 DEF Nonces, NONCE_LIMIT
<1>3. /\ n = (n \div ACCOUNT_LANE_UNIT) * ACCOUNT_LANE_UNIT + (n % ACCOUNT_LANE_UNIT)
      /\ n \div ACCOUNT_LANE_UNIT \in Nat
      /\ n % ACCOUNT_LANE_UNIT \in 0 .. ACCOUNT_LANE_UNIT - 1
  BY <1>1, Z3
<1>4. n \div ACCOUNT_LANE_UNIT <= ACCOUNT_LANE_MAX
  BY <1>1, <1>2, <1>3, Z3
<1> QED BY <1>3, <1>4, LaneAssumption
        DEF join_nonce, account_lane, game_lane, ACCOUNT_LANE_UNIT

\* A permitted bump moves its lane by one and leaves the other alone: it
\* neither carries nor leaves the 63-bit range.
LEMMA BumpOneLane ==
    ASSUME NEW n \in Nonces, NEW game \in BOOLEAN, NEW account \in BOOLEAN,
           compute_new_nonce_check(n, game, account) = Ok
    PROVE  LET m == compute_new_nonce(n, game, account)
           IN /\ m \in Nonces
              /\ game_lane(m) = game_lane(n) + Bump(game)
              /\ account_lane(m) = account_lane(n) + Bump(account)
<1> DEFINE a == account_lane(n) + Bump(account)
           g == game_lane(n) + Bump(game)
           m == compute_new_nonce(n, game, account)
<1>1. ACCOUNT_LANE_UNIT \in Nat \ {0} /\ n \in Nat /\ ACCOUNT_LANE_MAX \in Nat
  BY LaneAssumption DEF ACCOUNT_LANE_UNIT, Nonces
<1>2. /\ n = account_lane(n) * ACCOUNT_LANE_UNIT + game_lane(n)
      /\ account_lane(n) \in 0 .. ACCOUNT_LANE_MAX
      /\ game_lane(n) \in 0 .. GAME_LANE_MAX
  BY JoinOfSplit DEF join_nonce
<1>3. /\ game => game_lane(n) # GAME_LANE_MAX
      /\ account => account_lane(n) # ACCOUNT_LANE_MAX
  BY DEF compute_new_nonce_check, Require, Ok
<1>4. a \in 0 .. ACCOUNT_LANE_MAX /\ g \in 0 .. GAME_LANE_MAX
  BY <1>2, <1>3, LaneAssumption DEF Bump
<1>5. m = join_nonce(a, g)
  <2>1. m = n + Bump(game) + Bump(account) * ACCOUNT_LANE_UNIT
    BY DEF compute_new_nonce
  <2>2. /\ Bump(game) \in Nat /\ Bump(account) \in {0, 1}
    BY DEF Bump
  <2>3. a * ACCOUNT_LANE_UNIT =
           account_lane(n) * ACCOUNT_LANE_UNIT + Bump(account) * ACCOUNT_LANE_UNIT
    BY <1>1, <1>2, <2>2
  <2> QED BY <1>1, <1>2, <2>1, <2>2, <2>3 DEF join_nonce
<1>6. account_lane(m) = a /\ game_lane(m) = g /\ m \in Nat
  BY <1>4, <1>5, SplitOfJoin
<1>7. m < NONCE_LIMIT
  <2>1. m = a * ACCOUNT_LANE_UNIT + g /\ g < ACCOUNT_LANE_UNIT
    BY <1>4, <1>5, LaneAssumption DEF join_nonce, ACCOUNT_LANE_UNIT
  <2>2. a * ACCOUNT_LANE_UNIT <= ACCOUNT_LANE_MAX * ACCOUNT_LANE_UNIT
    BY <1>1, <1>4, Z3
  <2>3. NONCE_LIMIT = ACCOUNT_LANE_MAX * ACCOUNT_LANE_UNIT + ACCOUNT_LANE_UNIT
    BY <1>1 DEF NONCE_LIMIT
  <2> QED BY <1>1, <1>4, <1>6, <2>1, <2>2, <2>3
<1>8. m \in Nonces
  BY <1>1, <1>6, <1>7 DEF Nonces, NONCE_LIMIT
<1> QED BY <1>6, <1>8

(***************************************************************************)
(* Acceptance.                                                             *)
(***************************************************************************)
\* A chain of checks passes exactly when each check does (Rust's ?).
LEMMA ChainOk ==
    ASSUME NEW v, NEW w
    PROVE  (v ?? w) = Ok <=> v = Ok /\ w = Ok
  BY DEF ??, Ok

\* A slot is accepted when every check passes; each is then its condition.
LEMMA AcceptedChecks ==
    ASSUME NEW in, validate_slot(in) = Ok
    PROVE  /\ check_tx_type(in) = Ok
           /\ check_field_canonicity(in) = Ok
           /\ check_amount_canonicity(in) = Ok
           /\ verify_current_root(in) = Ok
           /\ check_tl_chain(in) = Ok
           /\ check_house_account(in) = Ok
           /\ build_balance_changes(in) = Ok
           /\ compute_new_allowance(in) = Ok
           /\ risk_reject_floor(in) = Ok
           /\ build_address(in) = Ok
           /\ check_recipient_binding(in) = Ok
           /\ check_auth(in) = Ok
           /\ check_new_nonce(in) = Ok
           /\ is_ihb_or_crash(in.req.tx_type) => check_fairness(in) = Ok
           /\ check_new_seed(in) = Ok
           /\ compute_new_tl(in) = Ok
<1>1. /\ check_tx_type(in) = Ok
      /\ check_field_canonicity(in) = Ok
      /\ check_amount_canonicity(in) = Ok
      /\ verify_current_root(in) = Ok
      /\ check_tl_chain(in) = Ok
      /\ compute_effects(in) = Ok
  BY ChainOk DEF validate_slot
<1> QED BY <1>1, ChainOk DEF compute_effects

\* What a witness of a stored account and a request of the right widths is.
SoundInput(in) ==
    /\ in.req.tx_type \in Nat
    /\ in.req.user_id \in Users
    /\ in.req.amount \in U64 /\ in.req.win_amount \in U64
    /\ in.req.next_server_seed_hash \in SeedHashes \cup {Zero, NonCanonical}
    /\ in.req.new_pk_hash \in PkHashes \cup {ZeroHash}
    /\ in.req.user_address \in Addresses
    /\ in.old \in Account
    /\ in.old_total_liability \in U64

\* The arithmetic an accepted slot has been checked for.
LEMMA AcceptedMoney ==
    ASSUME NEW in, SoundInput(in), validate_slot(in) = Ok
    PROVE  /\ add_full(in) \in Nat /\ sub_full(in) \in Nat
           /\ new_balance(in) \in U64
           /\ new_credit(in) \in U64
           /\ new_allowance(in) \in Allowances
           /\ new_tl(in) \in U64
<1>1. /\ in.old.balance \in U64 /\ in.old.deposit_credit \in U64
      /\ in.old.provider_allowance \in Allowances
      /\ in.old_total_liability \in U64
  BY DEF SoundInput, Account
<1>2. in.req.amount \in U64 /\ in.req.win_amount \in U64
  BY DEF SoundInput
<1>3. /\ in.old.balance + add_full(in) <= U64_MAX
      /\ new_balance(in) >= 0
      /\ credit_post_deposit(in) <= U64_MAX
  BY AcceptedChecks, ChainOk DEF build_balance_changes, Require, Ok
<1>4. new_allowance(in) <= PROVIDER_ALLOWANCE_MAX /\ new_allowance(in) >= 0
  BY AcceptedChecks, ChainOk DEF compute_new_allowance, Require, Ok
<1>5. in.old_total_liability + add_full(in) <= U64_MAX /\ new_tl(in) >= 0
  BY AcceptedChecks DEF compute_new_tl, Require, Ok
<1>6. add_full(in) \in Nat /\ sub_full(in) \in Nat
  BY <1>2, WordAssumption DEF add_full, sub_full, U64
<1>7. new_balance(in) \in U64
  BY <1>1, <1>3, <1>6, WordAssumption DEF new_balance, U64
<1>8. new_credit(in) \in U64
  BY <1>1, <1>2, <1>3, <1>7, WordAssumption DEF new_credit, credit_post_deposit, U64
<1>9. new_allowance(in) \in Allowances
  BY <1>1, <1>2, <1>4, WordAssumption DEF new_allowance, U64, Allowances
<1>10. new_tl(in) \in U64
  BY <1>1, <1>5, <1>6, WordAssumption DEF new_tl, U64
<1> QED BY <1>6, <1>7, <1>8, <1>9, <1>10

\* The engine's mirror and the validator agree on every type: the same words
\* pass, and advance to the same word (lib.rs, advance_nonce).
LEMMA NonceIsMirrored ==
    ASSUME NEW in
    PROVE  LET t == in.req.tx_type
               k == is_key_setter(in)
           IN /\ new_nonce(in) = advance_nonce(in.old.nonce, t, k)
              /\ check_new_nonce(in) = advance_nonce_check(in.old.nonce, t, k)
<1>1. is_account_signed(in) = is_account_bump(in.req.tx_type, is_key_setter(in))
  BY DEF is_account_signed, is_account_bump, is_account_lane
<1> QED BY <1>1 DEF new_nonce, advance_nonce, check_new_nonce, advance_nonce_check

\* The nonce of an accepted slot: which lane moves is a matter of its type.
LEMMA AcceptedNonce ==
    ASSUME NEW in, SoundInput(in), validate_slot(in) = Ok
    PROVE  LET t == in.req.tx_type
           IN /\ new_nonce(in) \in Nonces
              /\ game_lane(new_nonce(in)) =
                    game_lane(in.old.nonce) + Bump(is_game_lane(t))
              /\ account_lane(new_nonce(in)) = account_lane(in.old.nonce)
                    + Bump(is_account_bump(t, is_key_setter(in)))
<1>1. in.old.nonce \in Nonces
  BY DEF SoundInput, Account
<1>2. compute_new_nonce_check(in.old.nonce, is_game_lane(in.req.tx_type),
                              is_account_bump(in.req.tx_type, is_key_setter(in))) = Ok
  BY AcceptedChecks, NonceIsMirrored DEF advance_nonce_check
<1>3. /\ is_game_lane(in.req.tx_type) \in BOOLEAN
      /\ is_account_bump(in.req.tx_type, is_key_setter(in)) \in BOOLEAN
  BY DEF is_game_lane, is_ihb_or_crash, is_account_bump, is_key_setter
<1> QED BY <1>1, <1>2, <1>3, BumpOneLane, NonceIsMirrored DEF advance_nonce

\* The account an accepted slot leaves behind is one a leaf can store.
LEMMA AcceptedAccount ==
    ASSUME NEW in, SoundInput(in), validate_slot(in) = Ok
    PROVE  new_account(in) \in Account
<1>1. in.old \in Account
  BY DEF SoundInput
<1>2. new_seed_hash(in) \in SeedHashes \cup {Zero}
  <2>1. in.req.next_server_seed_hash # NonCanonical
    <3> DEFINE groups == <<in.req.server_seed, in.req.user_seed, in.old.seed_hash,
                    in.req.next_server_seed_hash, in.old.pk_hash,
                    in.req.new_pk_hash, in.old.address_hash,
                    in.req.prediction_hash, in.req.user_secret_random>>
    <3>1. \A i \in DOMAIN groups : all_canonical(groups[i])
      BY AcceptedChecks DEF check_field_canonicity, Require, Ok
    <3>2. 4 \in DOMAIN groups /\ groups[4] = in.req.next_server_seed_hash
      OBVIOUS
    <3> QED BY <3>1, <3>2 DEF all_canonical
  <2> QED BY <1>1, <2>1 DEF new_seed_hash, SoundInput, Account
<1>3. new_pk_hash(in) \in PkHashes \cup {ZeroHash}
  BY <1>1 DEF new_pk_hash, SoundInput, Account
<1>4. new_address_hash(in) \in AddressHashes \cup {ZeroHash}
  BY <1>1 DEF new_address_hash, address_hash, AddressHashes, SoundInput, Account
<1> QED BY <1>2, <1>3, <1>4, AcceptedMoney, AcceptedNonce DEF new_account, Account

(***************************************************************************)
(* What an accepted slot preserves of one account.                         *)
(***************************************************************************)
\* Credit stays within the balance: a deposit raises both, a revert stops at
\* the credit, every other debit caps it and no other type lowers a balance.
LEMMA AcceptedCredit ==
    ASSUME NEW in, SoundInput(in), validate_slot(in) = Ok,
           in.old.deposit_credit <= in.old.balance
    PROVE  new_credit(in) <= new_balance(in)
<1> DEFINE t == in.req.tx_type
<1>1. /\ in.old.balance \in Nat /\ in.old.deposit_credit \in Nat
      /\ in.req.amount \in Nat /\ in.req.win_amount \in Nat
  BY WordAssumption DEF SoundInput, Account, U64
<1>2. add_full(in) \in Nat /\ sub_full(in) \in Nat
  BY AcceptedMoney
<1>3. CASE is_balance_loss(t)
  BY <1>1, <1>2, <1>3 DEF new_credit, new_balance, credit_post_deposit
<1>4. CASE t = TX_RISK_REJECT
  <2>1. new_balance(in) >= in.old.deposit_credit
    BY <1>4, AcceptedChecks DEF risk_reject_floor, Require, Ok
  <2>2. new_credit(in) = in.old.deposit_credit
    BY <1>1, <1>4 DEF new_credit, credit_post_deposit, is_balance_loss, is_ihb_or_crash,
       TX_RISK_REJECT, TX_DEPOSIT, TX_BET, TX_WITHDRAWAL, TX_TRANSFER,
       TX_IN_HOUSE_BET, TX_CRASH_SETTLE
  <2> QED BY <1>1, <1>2, <2>1, <2>2 DEF new_balance
<1>5. CASE ~is_balance_loss(t) /\ t # TX_RISK_REJECT
  <2>1. ~is_user_sub(t)
    BY <1>5 DEF is_balance_loss, is_user_sub
  <2>2. new_balance(in) = in.old.balance + add_full(in)
    BY <1>1, <1>2, <2>1 DEF new_balance, sub_full
  <2>3. new_credit(in) = credit_post_deposit(in)
    BY <1>5 DEF new_credit
  <2>4. t = TX_DEPOSIT => add_full(in) = in.req.amount
    BY DEF add_full, is_user_add
  <2> QED BY <1>1, <1>2, <2>2, <2>3, <2>4 DEF credit_post_deposit
<1> QED BY <1>3, <1>4, <1>5

\* An account without a key has neither an allowance nor a used nonce.
Inert(account) == account.provider_allowance = 0 /\ account.nonce = 0

\* An account without a key stays inert: no type gives it an allowance or a
\* nonce before a key is installed.
LEMMA AcceptedInert ==
    ASSUME NEW in, SoundInput(in), validate_slot(in) = Ok,
           in.old.pk_hash = ZeroHash => Inert(in.old),
           new_pk_hash(in) = ZeroHash
    PROVE  Inert(new_account(in))
<1> DEFINE t == in.req.tx_type
<1>1. ~is_key_setter(in) /\ in.old.pk_hash = ZeroHash
  BY DEF new_pk_hash, is_key_setter
<1>2. ~is_authenticated(t)
  BY <1>1, AcceptedChecks DEF check_auth, Require, Ok
<1>3. ~is_game_lane(t) /\ ~is_account_bump(t, is_key_setter(in))
  BY <1>1, <1>2 DEF is_authenticated, is_account_bump, is_account_lane
<1>4. ACCOUNT_LANE_UNIT \in Nat
  BY LaneAssumption DEF ACCOUNT_LANE_UNIT
<1>5. new_nonce(in) = 0
  BY <1>1, <1>3, <1>4, NonceIsMirrored
     DEF advance_nonce, compute_new_nonce, Bump, Inert
<1>6. new_allowance(in) = 0
  <2>1. t # TX_SET_PROVIDER_ALLOWANCE
    BY <1>3 DEF is_game_lane
  <2>2. new_allowance(in) \in Nat
    BY AcceptedMoney, WordAssumption DEF Allowances
  <2>3. in.req.amount \in Nat /\ in.old.provider_allowance = 0
    BY <1>1, WordAssumption DEF SoundInput, U64, Inert
  <2> QED BY <2>1, <2>2, <2>3 DEF new_allowance
<1> QED BY <1>5, <1>6 DEF Inert, new_account

\* A registered account has a seed to bet with and an address to be paid at.
Complete(account) == ~all_zero(account.seed_hash) /\ account.address_hash # ZeroHash

\* The first registration installs a seed and an address, and nothing removes
\* either.
LEMMA AcceptedComplete ==
    ASSUME NEW in, SoundInput(in), validate_slot(in) = Ok,
           in.old.pk_hash # ZeroHash => Complete(in.old),
           new_pk_hash(in) # ZeroHash
    PROVE  Complete(new_account(in))
<1>1. is_needs_new_seed(in) => ~all_zero(in.req.next_server_seed_hash)
  BY AcceptedChecks DEF check_new_seed, Require, Ok
<1>2. \A a \in Addresses : address_hash(a) # ZeroHash
  BY IdentityHashAssumption DEF address_hash, ZeroHash, AddressHashes
<1>3. in.req.user_address \in Addresses
  BY DEF SoundInput
<1>4. CASE is_key_setter(in)
  <2>1. ~all_zero(new_seed_hash(in))
    BY <1>1, <1>4 DEF new_seed_hash, is_needs_new_seed, is_first_registration,
                      is_key_setter
  <2>2. new_address_hash(in) # ZeroHash
    BY <1>2, <1>3, <1>4 DEF new_address_hash, is_address_setter, is_addr_all_zero
  <2> QED BY <2>1, <2>2 DEF Complete, new_account
<1>5. CASE ~is_key_setter(in)
  <2>1. Complete(in.old)
    BY <1>5 DEF new_pk_hash
  <2>2. ~all_zero(new_seed_hash(in))
    BY <1>1, <2>1 DEF new_seed_hash, Complete
  <2>3. new_address_hash(in) # ZeroHash
    BY <1>2, <1>3, <2>1 DEF new_address_hash, Complete
  <2> QED BY <2>2, <2>3 DEF Complete, new_account
<1> QED BY <1>4, <1>5

(***************************************************************************)
(* The numbers of the code.                                                *)
(***************************************************************************)
\* The assumptions on the widths are met by the constants of the source, which are too
\* wide for a run: with halves of 31 bits, limbs of 32, words of 64, an allowance of
\* 2^62 - 1, the prime 2^64 - 2^32 + 1, and lanes of 23 and 40 bits, which come to
\* 2^63 = 2^31 * 2^32 (field.rs, lib.rs).
LEMMA CodeWordsFit ==
    ASSUME NEW half \in Nat \ {0}, HALF = half, LIMB = 2 * half,
           U64_MAX = LIMB * LIMB - 1, GOLDILOCKS_P = LIMB * LIMB - LIMB + 1,
           PROVIDER_ALLOWANCE_MAX = HALF * HALF - 1,
           (ACCOUNT_LANE_MAX + 1) * (GAME_LANE_MAX + 1) = HALF * LIMB
    PROVE  /\ PROVIDER_ALLOWANCE_MAX < GOLDILOCKS_P /\ GOLDILOCKS_P <= U64_MAX
           /\ U64_MAX < LIMB * LIMB /\ PROVIDER_ALLOWANCE_MAX < HALF * HALF
           /\ HALF * LIMB <= GOLDILOCKS_P
           /\ NONCE_LIMIT <= GOLDILOCKS_P
<1>1. PICK square \in Nat : square = half * half
  OBVIOUS
<1>2. /\ half <= square /\ half * (2 * half) = 2 * square
      /\ (2 * half) * (2 * half) = 4 * square
  BY <1>1
<1>3. HALF * HALF = square /\ HALF * LIMB = 2 * square /\ LIMB * LIMB = 4 * square
  BY <1>1, <1>2
<1>4. /\ U64_MAX = 4 * square - 1 /\ GOLDILOCKS_P = 4 * square - 2 * half + 1
      /\ PROVIDER_ALLOWANCE_MAX = square - 1
  BY <1>3
<1>5. PROVIDER_ALLOWANCE_MAX < GOLDILOCKS_P /\ GOLDILOCKS_P <= U64_MAX
  BY <1>2, <1>4
<1>6. /\ U64_MAX < LIMB * LIMB /\ PROVIDER_ALLOWANCE_MAX < HALF * HALF
      /\ HALF * LIMB <= GOLDILOCKS_P
  BY <1>2, <1>3, <1>4
<1> QED BY <1>5, <1>6 DEF NONCE_LIMIT, ACCOUNT_LANE_UNIT
=============================================================================
