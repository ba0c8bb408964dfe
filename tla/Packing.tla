------------------------------ MODULE Packing ------------------------------
(***************************************************************************)
(* The two packed words of a balance leaf (field.rs).  A balance is two    *)
(* limbs of LIMB values each, a provider allowance two halves of HALF      *)
(* values; each packed word carries a half above a limb.                   *)
(***************************************************************************)
EXTENDS Field

CONSTANTS
    LIMB,   \* 2^32
    HALF    \* 2^31, 2 ^ ALLOWANCE_HALF_BITS

\* Two limbs hold a word, two halves an allowance, and a packed word is below
\* the modulus: 2^64, 2^62 and 2^63 in the code.
ASSUME PackingAssumption ==
    /\ LIMB \in Nat \ {0} /\ HALF \in Nat \ {0}
    /\ U64_MAX < LIMB * LIMB
    /\ PROVIDER_ALLOWANCE_MAX < HALF * HALF
    /\ HALF * LIMB <= GOLDILOCKS_P

\* (lo, hi)
split_u64(v) == <<v % LIMB, v \div LIMB>>

\* The assertion of pack_balance_fields: a wider allowance has no leaf.
packable(allowance) == allowance <= PROVIDER_ALLOWANCE_MAX

\* Mutant: the halves are masked like the limbs.
pack_wide_halves(balance, allowance) ==
    <<(allowance % LIMB) * LIMB + split_u64(balance)[1],
      (allowance \div LIMB) * LIMB + split_u64(balance)[2]>>

pack_balance_fields(balance, allowance) ==
    <<(allowance % HALF) * LIMB + split_u64(balance)[1],
      (allowance \div HALF) * LIMB + split_u64(balance)[2]>>

\* (balance, allowance)
unpack_balance_fields(fields) ==
    <<(fields[1] % LIMB) + (fields[2] % LIMB) * LIMB,
      (fields[2] \div LIMB) * HALF + (fields[1] \div LIMB)>>
=============================================================================
