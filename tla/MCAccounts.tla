----------------------------- MODULE MCAccounts -----------------------------
(***************************************************************************)
(* Instances of Accounts for TLC.  Original is the one password that is     *)
(* told apart; tabs, seeds and vaults are symmetric.                        *)
(***************************************************************************)
EXTENDS Accounts, TLC

Symmetry == Permutations(Tabs) \union Permutations(Seeds) \union Permutations(Vaults)
=============================================================================
