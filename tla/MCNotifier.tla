----------------------------- MODULE MCNotifier -----------------------------
(* Values of the constants of Notifier for TLC. *)
EXTENDS Notifier

\* The later recall widens the range of the earlier one.
MCAffects == [r \in RecallId |-> IF r = 1 THEN {u \in Unit : u = 1} ELSE Unit]

MCSymmetry == Permutations(Owner)

=============================================================================
