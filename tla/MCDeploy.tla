------------------------------- MODULE MCDeploy -------------------------------
(* The model of Deploy for TLC. *)
EXTENDS Deploy

=============================================================================
