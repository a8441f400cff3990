---------------------------- MODULE MCVaultKeys ----------------------------
(***************************************************************************)
(* Instances of VaultKeys for TLC: ann created the vault, bob and cy are    *)
(* colleagues.  Tabs a and b are ann's and bob's, or both are ann's: tabs   *)
(* of one user are symmetric, as are the keys.                              *)
(***************************************************************************)
EXTENDS VaultRescue, TLC

CONSTANTS ann, bob, a, b

OneTab == [t \in {a} |-> ann]
TabEach == [t \in {a, b} |-> IF t = a THEN ann ELSE bob]
BothAnns == [t \in {a, b} |-> ann]

KeySymmetry == Permutations(Keys)
KeyTabSymmetry == KeySymmetry \union Permutations(Tabs)
=============================================================================
