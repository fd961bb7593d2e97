------------------------- MODULE RegistryRefinement -------------------------
(***************************************************************************)
(* The contract implements the provenance ledger: the sets of facts are    *)
(* read off the records of its storage.                                    *)
(***************************************************************************)
EXTENDS Registry

ProductOf(batch) ==
    [batch |-> batch.id, maker |-> batch.manufacturer,
     label |-> <<batch.product_name, batch.manufactured_date>>,
     first |-> batch.serial_range_start, last |-> batch.serial_range_end]

NoticeOf(recall) ==
    [number |-> recall.id, batch |-> recall.batch_id,
     maker |-> recall.manufacturer, severity |-> recall.severity,
     details |-> recall.message_hash, first |-> recall.affected_serial_start,
     last |-> recall.affected_serial_end]

HoldingOf(a, receipt) ==
    [owner |-> a, batch |-> receipt.batch_id, serial |-> receipt.serial_number]

Makers == DOMAIN manufacturer_by_addr
Products == {ProductOf(batches[b]) : b \in DOMAIN batches}
Notices == {NoticeOf(recalls[id]) : id \in DOMAIN recalls}
Holdings == UNION {{HoldingOf(a, r) : r \in ToSet(owner_receipts[a])} :
                        a \in DOMAIN owner_receipts}

Ledger == INSTANCE ProvenanceLedger WITH
    Maker <- Address,
    Batch <- BatchId,
    Label <- Name \X ManufacturedDate,
    Hash <- MessageHash,
    Number <- U64,
    makers <- Makers,
    products <- Products,
    notices <- Notices,
    holdings <- Holdings

\* Every behaviour of the contract is one of the ledger: facts are only ever
\* added, one per transaction, and each is admissible when it is added
\* (contract.rs, all the entrypoints that write).
ImplementsLedger == Ledger!Spec

=============================================================================
