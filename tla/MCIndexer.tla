------------------------------ MODULE MCIndexer ------------------------------
(* The indexer, for TLC. *)
EXTENDS IndexerRefinement

=============================================================================
