-------------------------------- MODULE Sums --------------------------------
(***************************************************************************)
(* The sum of a function on 0 .. n-1, as a recursive function so that it   *)
(* can be proved about (SumProofs) as well as evaluated.                   *)
(***************************************************************************)
EXTENDS Integers

\* f[0] + ... + f[n-1]
SumBelow(f, n) ==
    LET sum[i \in 0 .. n] == IF i = 0 THEN 0 ELSE sum[i - 1] + f[i - 1]
    IN sum[n]
=============================================================================
