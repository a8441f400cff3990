--------------------------- MODULE MCPreferences ---------------------------
(***************************************************************************)
(* The instance of Preferences for TLC: two fields of two values, two       *)
(* devices and two saves in hand.                                           *)
(***************************************************************************)
EXTENDS Preferences, TLC

Symmetry == Permutations(Fields) \union Permutations(Devices)
            \union Permutations(Slots)
=============================================================================
