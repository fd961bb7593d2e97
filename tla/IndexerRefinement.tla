------------------------- MODULE IndexerRefinement -------------------------
(***************************************************************************)
(* The indexer implements the mirror: facts are read off the events of the *)
(* chain, and rows off the tables, a batch's maker through the row of its  *)
(* manufacturer.                                                           *)
(***************************************************************************)
EXTENDS Indexer

Products == {[batch |-> e.batchId, maker |-> e.manufacturer] : e \in BatchEvents}

Notices == {[number |-> e.recallId, batch |-> e.batchId] :
                e \in Published("RecallIssued")}

Holdings == {[owner |-> e.owner, batch |-> e.batchId] :
                e \in Published("OwnershipRegistered")}

ProductRows ==
    {p \in [batch : DOMAIN batches, maker : Account] :
        \E r \in RowsOf(batches[p.batch]) : r.address = p.maker}

NoticeRows == {[number |-> id, batch |-> recalls[id]] : id \in DOMAIN recalls}

HoldingRows == {[owner |-> r.owner, batch |-> r.batchId] : r \in receipts}

Tables == INSTANCE Mirror WITH
    Maker <- Account,
    Batch <- BatchId,
    Holder <- Owner,
    Number <- 1..MaxEvents,
    products <- Products,
    notices <- Notices,
    holdings <- Holdings,
    productRows <- ProductRows,
    noticeRows <- NoticeRows,
    holdingRows <- HoldingRows

\* Every behaviour of the indexer is one of the mirror: whatever fails, is passed over
\* or is read twice, a step adds one row at most, the row of an event, the maker of a
\* batch included, and takes none back (indexer.ts, pollOnce and handleEvent).
ImplementsMirror == Tables!Spec

=============================================================================
