----------------------------- MODULE MCDashboard -----------------------------
(* Symmetry of the constants of Dashboard for TLC. *)
EXTENDS Dashboard, TLC

MCSymmetry == Permutations(Account) \cup Permutations(Batch)

=============================================================================
