---------------------------- MODULE MCTwoFactor ----------------------------
(***************************************************************************)
(* Instances of TwoFactor for TLC.                                          *)
(***************************************************************************)
EXTENDS TwoFactor, TLC

Symmetry == Permutations(Sessions) \union Permutations(Secrets) \union Permutations(Sheets)
=============================================================================
