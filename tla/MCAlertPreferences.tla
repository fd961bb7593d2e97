------------------------- MODULE MCAlertPreferences -------------------------
(* Symmetry of the constants of AlertPreferences for TLC. *)
EXTENDS AlertPreferences, TLC

MCSymmetry == Permutations(Account)

=============================================================================
