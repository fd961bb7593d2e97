----------------------------- MODULE MCRegistry -----------------------------
(* Values of the constants of Registry for TLC. *)
EXTENDS RegistryRefinement

\* The lengths at the two limits of contract.rs, and around them.
MCNameLength == [n \in Name |-> n]

MCSymmetry == Permutations(Address) \cup Permutations(BatchId \ {ZeroHash})

=============================================================================
