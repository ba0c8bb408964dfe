---------------------------- MODULE MCMerklePath ----------------------------
(***************************************************************************)
(* Two workers on a tree of eight leaves.                                   *)
(***************************************************************************)
EXTENDS MerklePath, TLC

MCSymmetry == Permutations(Workers)
=============================================================================
