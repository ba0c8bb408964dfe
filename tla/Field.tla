------------------------------- MODULE Field -------------------------------
(***************************************************************************)
(* Machine words and Goldilocks field elements as the validator sees them  *)
(* (field.rs).                                                             *)
(*                                                                         *)
(* A u64 is a number in 0 .. U64_MAX with U64_MAX a parameter, so that the *)
(* model checker meets every overflow at a small width and the proofs hold *)
(* at the real one (2^64 - 1).  A group of limbs the code never computes   *)
(* with (a seed, a hash, a commitment) is one opaque value: Zero stands    *)
(* for the group whose limbs are all 0, NonCanonical for a group with a    *)
(* limb that is not below the modulus.                                     *)
(***************************************************************************)
EXTENDS Integers

CONSTANTS
    U64_MAX,                \* largest u64
    GOLDILOCKS_P,           \* the field modulus, 2^64 - 2^32 + 1 in the code
    PROVIDER_ALLOWANCE_MAX, \* largest allowance a leaf can store, 2^62 - 1
    Zero,                   \* a limb group that is all zero
    NonCanonical            \* a limb group with a limb >= GOLDILOCKS_P

\* The order of the code's bounds: 2^62 - 1 < p < 2^64.
ASSUME WordAssumption ==
    /\ U64_MAX \in Nat /\ GOLDILOCKS_P \in Nat /\ PROVIDER_ALLOWANCE_MAX \in Nat
    /\ PROVIDER_ALLOWANCE_MAX < GOLDILOCKS_P
    /\ GOLDILOCKS_P <= U64_MAX

ASSUME ZeroIsCanonical == Zero # NonCanonical

U64 == 0 .. U64_MAX
Allowances == 0 .. PROVIDER_ALLOWANCE_MAX

\* A word is canonical below the modulus; an opaque group, in every limb.
is_canonical(v) == v < GOLDILOCKS_P
all_canonical(group) == group # NonCanonical
all_zero(group) == group = Zero

(***************************************************************************)
(* Verdicts.  A check returns Ok or the name of a SlotRejection.  v ?? w   *)
(* is the code's v? followed by w: the first failure is the result.        *)
(***************************************************************************)
Ok == "Ok"
v ?? w == IF v = Ok THEN w ELSE v

\* The check that fails with `reason` unless `condition` holds.
Require(condition, reason) == IF condition THEN Ok ELSE reason
=============================================================================
