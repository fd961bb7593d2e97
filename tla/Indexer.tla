------------------------------- MODULE Indexer -------------------------------
(***************************************************************************)
(* The chain indexer (backend/src/indexer.ts): a polling worker that reads *)
(* the contract's events page by page from a Soroban RPC node and mirrors  *)
(* them into Postgres tables (backend/prisma/schema.prisma), keeping its   *)
(* place in an indexer_cursors row.                                        *)
(*                                                                         *)
(* Events reach the chain in the order Registry.tla allows them            *)
(* (EventsCausallyOrdered) and become readable when their ledger closes.   *)
(* One step of the indexer is the code between two awaits that another     *)
(* process, a crash or a failing call can come between.  A serial number   *)
(* is of no consequence here: a receipt is its owner and its batch.        *)
(***************************************************************************)
EXTENDS Integers, SequencesExt

CONSTANTS
    Account,        \* manufacturers
    Owner,          \* consumers
    BatchId,
    START_LEDGER,   \* INDEXER_START_LEDGER, 0 when unset
    Limit,          \* INDEXER_EVENT_LIMIT
    Retention,      \* how many ledgers of events the RPC node keeps
    MaxEvents, MaxPerLedger, MaxLedger,   \* bounds on the chain
    MaxFaults,      \* bound on failing RPC and database calls
    MaxCrashes,     \* bound on crashes of the process
    None

ASSUME ConstantsAssumption ==
    /\ START_LEDGER \in Nat
    /\ None \notin Nat
    /\ Limit \in Nat \ {0} /\ Retention \in Nat \ {0}
    /\ {MaxEvents, MaxPerLedger, MaxLedger, MaxFaults, MaxCrashes} \subseteq Nat

VARIABLES
    \* the chain, as the RPC node serves it
    chain,          \* the events so far, each with the ledger it is in
    latest,         \* the latest closed ledger
    \* the tables
    manufacturers,  \* rows [onChainId, address]
    batches,        \* batchId -> the onChainId of its manufacturer row
    recalls,        \* recallId -> batchId
    receipts,       \* rows [owner, batchId]
    savedCursor,    \* the ledger in the cursor row, or None
    \* the indexer process
    pc, cursor, page, nextCursor,
    faults, crashes,
    lost            \* history: the events the indexer passed over or failed on

chainVars == <<chain, latest>>
tables == <<manufacturers, batches, recalls, receipts>>
process == <<pc, cursor, page, nextCursor>>
vars == <<chainVars, tables, savedCursor, process, faults, crashes, lost>>

-----------------------------------------------------------------------------
(* The chain *)

Published(type) == {chain[i].event : i \in {j \in DOMAIN chain :
                                            chain[j].event.type = type}}

Accounts == {e.manufacturer : e \in Published("ManufacturerRegistered")}
BatchEvents == Published("BatchRegistered")

\* One of a set, or none.  Accounts and batches are interchangeable, so the
\* chain takes new ones in a fixed order.
Some(set) == IF set = {} THEN {} ELSE {CHOOSE x \in set : TRUE}

\* The events the contract may publish next.
NewManufacturers ==
    {[type |-> "ManufacturerRegistered", manufacturer |-> m,
      manufacturerId |-> Cardinality(Accounts) + 1] :
        m \in Some(Account \ Accounts)}

NewBatches ==
    {[type |-> "BatchRegistered", manufacturer |-> m, batchId |-> b] :
        m \in Accounts, b \in Some(BatchId \ {e.batchId : e \in BatchEvents})}

NewRecalls ==
    {[type |-> "RecallIssued", batchId |-> e.batchId,
      recallId |-> Cardinality(Published("RecallIssued")) + 1] :
        e \in BatchEvents}

NewReceipts ==
    {[type |-> "OwnershipRegistered", owner |-> o, batchId |-> e.batchId] :
        o \in Owner, e \in BatchEvents} \ Published("OwnershipRegistered")

PossibleEvents == NewManufacturers \cup NewBatches \cup NewRecalls \cup NewReceipts

\* A transaction is applied in the ledger that closes next.
PublishEvent ==
    /\ Len(chain) < MaxEvents
    /\ latest < MaxLedger
    /\ Cardinality({i \in DOMAIN chain : chain[i].ledger = latest + 1})
            < MaxPerLedger
    /\ \E e \in PossibleEvents :
        chain' = Append(chain, [ledger |-> latest + 1, event |-> e])
    /\ UNCHANGED <<latest, tables, savedCursor, process, faults, crashes, lost>>

CloseLedger ==
    /\ latest < MaxLedger
    /\ latest' = latest + 1
    /\ UNCHANGED <<chain, tables, savedCursor, process, faults, crashes, lost>>

EventsUpTo(ledger) == {i \in DOMAIN chain : chain[i].ledger <= ledger}

\* getEvents: the first events, up to the limit, of the closed ledgers from
\* start on.  The chain is in the order of its ledgers, so they are a stretch of it.
EventsFrom(start) ==
    LET before == Cardinality(EventsUpTo(start - 1))
        closed == Cardinality(EventsUpTo(latest))
    IN  SubSeq(chain, before + 1, IF before + Limit < closed THEN before + Limit ELSE closed)

\* The node refuses a start ledger it no longer has, or does not have yet.
Served(start) == start \in (latest - Retention + 1)..latest

-----------------------------------------------------------------------------
(* handleEvent: the tables after one event.  A handler that throws, for    *)
(* want of a unique or foreign key, leaves the tables as they are, but for *)
(* what it wrote before.                                                   *)

RowsAt(address) == {r \in manufacturers : r.address = address}
RowsOf(onChainId) == {r \in manufacturers : r.onChainId = onChainId}

\* Planted bug for mutation: the upsert matches on the address, and so moves a
\* manufacturer that has batches to another id.
UpsertManufacturerByAddress(e) ==
    /\ manufacturers' = (manufacturers \ RowsAt(e.manufacturer))
            \cup {[onChainId |-> e.manufacturerId, address |-> e.manufacturer]}
    /\ UNCHANGED <<batches, recalls, receipts>>

\* Upsert on onChainId; the address must stay unique.
UpsertManufacturer(e) ==
    /\ manufacturers' =
        IF RowsAt(e.manufacturer) \subseteq RowsOf(e.manufacturerId)
        THEN (manufacturers \ RowsOf(e.manufacturerId))
                \cup {[onChainId |-> e.manufacturerId,
                       address |-> e.manufacturer]}
        ELSE manufacturers
    /\ UNCHANGED <<batches, recalls, receipts>>

\* Planted bug for mutation: every unknown manufacturer shares the placeholder.
ManufacturerRowsShared(e) ==
    IF RowsAt(e.manufacturer) # {} THEN RowsAt(e.manufacturer)
    ELSE IF RowsOf(0) = {} THEN {[onChainId |-> 0, address |-> e.manufacturer]}
    ELSE RowsOf(0)

\* The row of the batch's manufacturer, or a placeholder with onChainId 0 for
\* a manufacturer not indexed; no row when another placeholder has that id.
ManufacturerRows(e) ==
    IF RowsAt(e.manufacturer) # {} THEN RowsAt(e.manufacturer)
    ELSE IF RowsOf(0) = {} THEN {[onChainId |-> 0, address |-> e.manufacturer]}
    ELSE {}

AddPlaceholder(e) ==
    manufacturers' = manufacturers \cup ManufacturerRows(e)

UpsertBatch(e) ==
    /\ AddPlaceholder(e)
    /\ batches' =
        IF ManufacturerRows(e) = {} THEN batches
        ELSE LET row == CHOOSE r \in ManufacturerRows(e) : TRUE
             IN  [b \in DOMAIN batches \cup {e.batchId} |->
                    IF b = e.batchId THEN row.onChainId ELSE batches[b]]
    /\ UNCHANGED <<recalls, receipts>>

\* Planted bug for mutation: a recall is stored before its batch is looked for.
UpsertRecallOrphan(e) ==
    /\ recalls' = [id \in DOMAIN recalls \cup {e.recallId} |->
                    IF id = e.recallId THEN e.batchId ELSE recalls[id]]
    /\ UNCHANGED <<manufacturers, batches, receipts>>

\* A recall of a batch that is not indexed is skipped.
UpsertRecall(e) ==
    /\ recalls' =
        IF e.batchId \in DOMAIN batches
        THEN [id \in DOMAIN recalls \cup {e.recallId} |->
                IF id = e.recallId THEN e.batchId ELSE recalls[id]]
        ELSE recalls
    /\ UNCHANGED <<manufacturers, batches, receipts>>

\* createMany with skipDuplicates; the table has no foreign key.
CreateReceipt(e) ==
    /\ receipts' = receipts \cup {[owner |-> e.owner, batchId |-> e.batchId]}
    /\ UNCHANGED <<manufacturers, batches, recalls>>

handleEvent(e) ==
    CASE e.type = "ManufacturerRegistered" -> UpsertManufacturer(e)
      [] e.type = "BatchRegistered" -> UpsertBatch(e)
      [] e.type = "RecallIssued" -> UpsertRecall(e)
      [] e.type = "OwnershipRegistered" -> CreateReceipt(e)

\* A database call of the handler fails: the first one, or the batch upsert
\* after a placeholder was created.
handleEventFails(e) ==
    \/ UNCHANGED tables
    \/ /\ e.type = "BatchRegistered"
       /\ AddPlaceholder(e)
       /\ UNCHANGED <<batches, recalls, receipts>>

-----------------------------------------------------------------------------
(* pollOnce *)

Fault == faults < MaxFaults /\ faults' = faults + 1

Start ==
    /\ pc = "down"
    /\ pc' = "readCursor"
    /\ UNCHANGED <<chainVars, tables, savedCursor, cursor, page, nextCursor,
                   faults, crashes, lost>>

\* Planted bug for mutation: a missing or stale row starts from the latest
\* ledger.
CursorFromLatest == IF START_LEDGER > 0 THEN START_LEDGER ELSE latest

\* START_LEDGER wins over the saved row; without either, the latest ledger.
CursorToRead ==
    IF START_LEDGER > 0 THEN START_LEDGER
    ELSE IF savedCursor # None THEN savedCursor
    ELSE latest

\* Without a row the events so far are never asked for.
readCursor ==
    /\ pc = "readCursor"
    /\ cursor' = CursorToRead
    /\ pc' = "getEvents"
    /\ lost' = IF savedCursor = None THEN lost \cup EventsUpTo(cursor') ELSE lost
    /\ UNCHANGED <<chainVars, tables, savedCursor, page, nextCursor, faults,
                   crashes>>

\* What a first page leaves behind it is never asked for.  The rest of the ledger a page
\* ends in is passed over, as the cursor becomes that ledger.
PassedOver ==
    {i \in EventsUpTo(IF page' = <<>> THEN cursor ELSE Last(page').ledger) :
        IF chain[i].ledger <= cursor THEN savedCursor = None
                                     ELSE chain[i] \notin Range(page')}

\* With no events the next cursor is the node's latest ledger.
getEvents ==
    /\ pc = "getEvents"
    /\ Served(cursor + 1)
    /\ page' = EventsFrom(cursor + 1)
    /\ nextCursor' = IF page' = <<>> THEN latest ELSE cursor
    /\ pc' = IF page' = <<>> THEN "writeCursor" ELSE "handleEvent"
    /\ lost' = lost \cup PassedOver
    /\ UNCHANGED <<chainVars, tables, savedCursor, cursor, faults, crashes>>

\* getEvents failed: logged, and the poll ends.
getEventsFails ==
    /\ pc = "getEvents"
    /\ \/ ~Served(cursor + 1) /\ UNCHANGED faults
       \/ Fault
    /\ pc' = "readCursor"
    /\ UNCHANGED <<chainVars, tables, savedCursor, cursor, page, nextCursor,
                   crashes, lost>>

AfterEvent == IF page' = <<>> THEN "writeCursor" ELSE "handleEvent"

\* processed = max(processed, event.ledger), whether or not the handler threw.
Processed ==
    /\ nextCursor' = IF Head(page).ledger > nextCursor
                     THEN Head(page).ledger ELSE nextCursor
    /\ page' = Tail(page)
    /\ pc' = AfterEvent
    /\ UNCHANGED <<chainVars, savedCursor, cursor, crashes>>

HandleNext ==
    /\ pc = "handleEvent"
    /\ handleEvent(Head(page).event)
    /\ Processed
    /\ UNCHANGED <<faults, lost>>

HandleNextFails ==
    /\ pc = "handleEvent"
    /\ Fault
    /\ handleEventFails(Head(page).event)
    /\ lost' = lost \cup {i \in DOMAIN chain : chain[i] = Head(page)}
    /\ Processed

\* Planted bug for mutation: the cursor is one ledger ahead.
CursorAhead == IF nextCursor + 1 > cursor THEN nextCursor + 1 ELSE cursor

CursorToWrite == IF nextCursor > cursor THEN nextCursor ELSE cursor

writeCursor ==
    /\ pc = "writeCursor"
    /\ savedCursor' = CursorToWrite
    /\ pc' = "readCursor"
    /\ UNCHANGED <<chainVars, tables, cursor, page, nextCursor, faults, crashes,
                   lost>>

\* The process dies, within a handler too, or a failing readCursor or
\* writeCursor ends main; the container is restarted, its local state gone.
Crash ==
    /\ pc # "down"
    /\ crashes < MaxCrashes
    /\ crashes' = crashes + 1
    /\ IF pc = "handleEvent" THEN handleEventFails(Head(page).event)
                             ELSE UNCHANGED tables
    /\ pc' = "down"
    /\ cursor' = 0 /\ page' = <<>> /\ nextCursor' = 0
    /\ UNCHANGED <<chainVars, savedCursor, faults, lost>>

-----------------------------------------------------------------------------
Init ==
    /\ chain = <<>>
    /\ latest = 0
    /\ manufacturers = {}
    /\ batches = [b \in {} |-> None]
    /\ recalls = [id \in {} |-> None]
    /\ receipts = {}
    /\ savedCursor = None
    /\ pc = "down"
    /\ cursor = 0 /\ page = <<>> /\ nextCursor = 0
    /\ faults = 0
    /\ crashes = 0
    /\ lost = {}

Next ==
    \/ PublishEvent
    \/ CloseLedger
    \/ Start
    \/ readCursor
    \/ getEvents
    \/ getEventsFails
    \/ HandleNext
    \/ HandleNextFails
    \/ writeCursor
    \/ Crash

Spec == Init /\ [][Next]_vars

\* The indexer keeps polling and is restarted when it dies (while (true) in
\* main; restart: unless-stopped in docker-compose.yml).  Nothing is assumed
\* of the chain, and faults and crashes are bounded.
FairSpec ==
    /\ Spec
    /\ WF_vars(Start) /\ WF_vars(readCursor) /\ WF_vars(getEvents)
    /\ WF_vars(HandleNext) /\ WF_vars(writeCursor)
    /\ WF_vars(getEventsFails)

-----------------------------------------------------------------------------
(* Properties *)

LedgerNumber == 0..(MaxLedger + START_LEDGER)

\* Types of the tables and of the process state.
TypeOK ==
    /\ latest \in 0..MaxLedger
    /\ Len(chain) <= MaxEvents
    /\ manufacturers \subseteq [onChainId : 0..MaxEvents, address : Account]
    /\ DOMAIN batches \subseteq BatchId
    /\ DOMAIN recalls \subseteq 1..MaxEvents
    /\ receipts \subseteq [owner : Owner, batchId : BatchId]
    /\ savedCursor \in LedgerNumber \cup {None}
    /\ pc \in {"down", "readCursor", "getEvents", "handleEvent", "writeCursor"}
    /\ cursor \in LedgerNumber /\ nextCursor \in LedgerNumber
    /\ pc = "handleEvent" => page # <<>>

Mirrored(e) ==
    \/ /\ e.type = "ManufacturerRegistered"
       /\ [onChainId |-> e.manufacturerId, address |-> e.manufacturer]
            \in manufacturers
    \/ e.type = "BatchRegistered" /\ e.batchId \in DOMAIN batches
    \/ e.type = "RecallIssued" /\ e.recallId \in DOMAIN recalls
    \/ /\ e.type = "OwnershipRegistered"
       /\ [owner |-> e.owner, batchId |-> e.batchId] \in receipts

\* schema.prisma: the unique keys of manufacturers, the foreign keys of
\* batches and recalls.
ConstraintsHold ==
    /\ \A r, s \in manufacturers :
        r.onChainId = s.onChainId \/ r.address = s.address => r = s
    /\ \A b \in DOMAIN batches : RowsOf(batches[b]) # {}
    /\ \A id \in DOMAIN recalls : recalls[id] \in DOMAIN batches

\* Whatever was missed, failed or read twice, the rows are true: of their types
\* and keys, a batch joins the manufacturer that registered it, a recall its
\* batch, and no row is without its event (indexer.ts handleEvent, the
\* placeholder included).
MirrorSound ==
    /\ TypeOK
    /\ ConstraintsHold
    /\ \A b \in DOMAIN batches : \E e \in BatchEvents :
        /\ e.batchId = b
        /\ \A r \in RowsOf(batches[b]) : r.address = e.manufacturer
    /\ \A id \in DOMAIN recalls :
        [type |-> "RecallIssued", batchId |-> recalls[id], recallId |-> id]
            \in Published("RecallIssued")
    /\ \A r \in receipts :
        [type |-> "OwnershipRegistered", owner |-> r.owner,
         batchId |-> r.batchId] \in Published("OwnershipRegistered")

\* Reading events again changes no row that is there: "Re-running the indexer
\* is idempotent (upserts)" (docs/DEPLOYMENT.md).
RerunChangesNothing ==
    [][/\ manufacturers \subseteq manufacturers'
       /\ \A b \in DOMAIN batches :
            b \in DOMAIN batches' /\ batches'[b] = batches[b]
       /\ \A id \in DOMAIN recalls :
            id \in DOMAIN recalls' /\ recalls'[id] = recalls[id]
       /\ receipts \subseteq receipts']_vars

\* What a handler needs a row of: the manufacturer of a batch, the batch of a
\* recall.
DependsOn(e, d) ==
    \/ e = d
    \/ /\ e.type = "BatchRegistered" /\ d.type = "ManufacturerRegistered"
       /\ e.manufacturer = d.manufacturer
    \/ /\ e.type = "RecallIssued"
       /\ \E b \in BatchEvents :
            /\ b.batchId = e.batchId
            /\ \/ d = b
               \/ d.type = "ManufacturerRegistered"
                    /\ d.manufacturer = b.manufacturer

AccountedFor(i) ==
    /\ i \in DOMAIN chain
    /\ \/ Mirrored(chain[i].event)
       \/ \E j \in lost : DependsOn(chain[i].event, chain[j].event)

\* Up to the cursor an event is missing from the tables only if it, or what it
\* needs a row of, was before the indexer's time, behind the end of a page, or
\* met a failing call: a crash anywhere in a poll, a ledger without events and
\* a second reading lose nothing, and a missing event takes only those with it
\* that need its row (indexer.ts pollOnce, the placeholder of UpsertBatch, the
\* skipped recall).
LossesHaveCause ==
    savedCursor # None => \A i \in EventsUpTo(savedCursor) : AccountedFor(i)

\* The node no longer has what follows the saved cursor: every poll fails.
LeftBehind == savedCursor # None /\ savedCursor < latest - Retention

\* Every event of a closed ledger is mirrored at last, across crashes and
\* failing calls, but for the losses above, or the node's retention leaves the
\* indexer behind for good, as it does one that was down too long (indexer.ts
\* pollOnce).  A chain of at most MaxEvents falls silent, so that this is said
\* of all events at once.
EventuallyMirrored ==
    \/ <>[](\A i \in EventsUpTo(latest) : AccountedFor(i))
    \/ <>[]LeftBehind

\* docs/DEPLOYMENT.md, Indexer backfill: "Set INDEXER_START_LEDGER to the
\* ledger at which the contract was created", and the events after it are
\* indexed.
BackfillCompletes ==
    \A i \in 1..MaxEvents :
        (i \in EventsUpTo(latest) /\ chain[i].ledger > START_LEDGER) ~>
            AccountedFor(i)

\* The events of the contract, with what the handlers look at.
Event ==
    [type : {"ManufacturerRegistered"}, manufacturer : Account,
     manufacturerId : Nat \ {0}]
    \cup
    [type : {"BatchRegistered"}, manufacturer : Account, batchId : BatchId]
    \cup
    [type : {"RecallIssued"}, batchId : BatchId, recallId : Nat \ {0}]
    \cup
    [type : {"OwnershipRegistered"}, owner : Owner, batchId : BatchId]

Entry == [ledger : 1..MaxLedger, event : Event]

SameSubject(e, f) ==
    /\ e.type = f.type
    /\ \/ e = f
       \/ /\ e.type = "ManufacturerRegistered"
          /\ \/ e.manufacturer = f.manufacturer
             \/ e.manufacturerId = f.manufacturerId
       \/ e.type = "BatchRegistered" /\ e.batchId = f.batchId
       \/ e.type = "RecallIssued" /\ e.recallId = f.recallId

Announces(d, e) ==
    \/ /\ e.type = "BatchRegistered" /\ d.type = "ManufacturerRegistered"
       /\ d.manufacturer = e.manufacturer
    \/ /\ e.type = "RecallIssued" /\ d.type = "BatchRegistered"
       /\ d.batchId = e.batchId

\* The chain is in the order of its ledgers, no two events have the same subject, and
\* each comes after the one it is about.
ChainOK ==
    /\ chain \in Seq(Entry)
    /\ \A i, j \in DOMAIN chain :
        /\ i <= j => chain[i].ledger <= chain[j].ledger
        /\ SameSubject(chain[i].event, chain[j].event) => i = j
    /\ \A i \in DOMAIN chain :
        /\ chain[i].ledger <= latest + 1
        /\ chain[i].event.type \in {"BatchRegistered", "RecallIssued"} =>
            \E j \in 1..(i - 1) : Announces(chain[j].event, chain[i].event)

\* The contract's counters.
CountersOK ==
    /\ IsFiniteSet(Accounts) /\ Cardinality(Accounts) <= Len(chain)
    /\ \A e \in Published("ManufacturerRegistered") :
        e.manufacturerId <= Cardinality(Accounts)
    /\ IsFiniteSet(Published("RecallIssued"))
    /\ Cardinality(Published("RecallIssued")) <= Len(chain)
    /\ \A e \in Published("RecallIssued") :
        e.recallId <= Cardinality(Published("RecallIssued"))

\* A manufacturer row has its event; a placeholder stands for one that was lost.
RowsHaveCause ==
    \A r \in manufacturers : \E i \in DOMAIN chain :
        /\ chain[i].event.type = "ManufacturerRegistered"
        /\ chain[i].event.manufacturer = r.address
        /\ IF r.onChainId = 0 THEN i \in lost
                              ELSE chain[i].event.manufacturerId = r.onChainId

\* The page is the stretch of the chain after its first n events, all of which are
\* accounted for, as is what follows the page in the ledger it ends in.
PageFollows(n) ==
    /\ n + Len(page) <= Len(chain)
    /\ \A k \in DOMAIN page : page[k] = chain[n + k]
    /\ \A i \in 1..n : AccountedFor(i)
    /\ \A i \in EventsUpTo(Last(page).ledger) : i > n + Len(page) => AccountedFor(i)

AccountedUpTo(ledger) ==
    ledger <= latest /\ \A i \in EventsUpTo(ledger) : AccountedFor(i)

\* What a poll knows of the events up to its cursors.
PollOK ==
    /\ page \in Seq(Entry)
    /\ pc \in {"getEvents", "handleEvent", "writeCursor"} => START_LEDGER <= cursor
    /\ pc = "getEvents" /\ savedCursor # None => AccountedUpTo(cursor)
    /\ pc = "handleEvent" =>
        /\ \E n \in 0..Len(chain) : PageFollows(n)
        /\ cursor <= nextCursor /\ nextCursor <= Head(page).ledger
        /\ Last(page).ledger <= latest
    /\ pc = "writeCursor" => cursor <= nextCursor /\ AccountedUpTo(nextCursor)

\* The inductive invariant of the indexer, the tables and the chain.
IInv ==
    /\ MirrorSound
    /\ ChainOK /\ CountersOK /\ lost \subseteq DOMAIN chain
    /\ RowsHaveCause
    /\ PollOK
    /\ savedCursor # None => AccountedUpTo(savedCursor) /\ AccountedUpTo(START_LEDGER)

=============================================================================
