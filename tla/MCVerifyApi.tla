----------------------------- MODULE MCVerifyApi -----------------------------
(* Symmetry of the requests of VerifyApi for TLC. *)
EXTENDS VerifyApi, TLC

MCSymmetry == Permutations(Request)

=============================================================================
