--------------------------- MODULE MCWalletClient ---------------------------
(* A form for a recall and one for a batch or a receipt, for TLC. *)
EXTENDS WalletClient

=============================================================================
