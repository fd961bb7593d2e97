----------------------------- MODULE MCScanForm -----------------------------
(* The verify form, for TLC. *)
EXTENDS ScanForm

=============================================================================
