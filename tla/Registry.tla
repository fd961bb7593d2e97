------------------------------ MODULE Registry ------------------------------
(***************************************************************************)
(* The Provenward Soroban contract: contract/src/contract.rs over the      *)
(* key-value storage of contract/src/storage.rs.                           *)
(*                                                                         *)
(* An invocation of an entrypoint is one ledger transaction: it applies    *)
(* whole or, when it panics, not at all.  One action below is one          *)
(* successful invocation; a guard is a condition the code panics on, and   *)
(* a call that fails a guard is a stuttering step.  require_auth means     *)
(* that the address an action names signed the transaction.                *)
(*                                                                         *)
(* Left out: the ledger timestamps of the records, which no decision of    *)
(* the contract reads, and the extension of storage lifetimes.             *)
(***************************************************************************)
EXTENDS Integers, SequencesExt

CONSTANTS
    Address,        \* wallet addresses
    BatchId,        \* 32-byte batch identifiers that callers pass
    MessageHash,    \* 32-byte recall message hashes that callers pass
    ZeroHash,       \* the 32 zero bytes
    Name,           \* manufacturer and product names that callers pass
    NameLength,     \* the length of each name, in bytes
    Severity,       \* Info, Warning, Critical
    ManufacturedDate, \* epoch seconds that callers pass
    U64Max,         \* the largest u64
    Serial,         \* serial numbers that callers pass
    MaxEvents,      \* bound on the length of a behaviour, for model checking
    None            \* an absent Option

ASSUME ConstantsAssumption ==
    /\ None \notin Address
    /\ NameLength \in [Name -> Nat]
    /\ ManufacturedDate \subseteq Nat
    /\ U64Max \in Nat \ {0}
    /\ Serial \subseteq 0..U64Max
    /\ MaxEvents \in Nat

U64 == 0..U64Max

-----------------------------------------------------------------------------
(* The storage of the contract.  A persistent or instance entry (name, key) *)
(* is a map from the keys present to their values.                          *)

VARIABLES
    admin,                     \* Option<Address>
    next_manufacturer_id,
    next_recall_id,
    manufacturers,             \* id -> Manufacturer
    manufacturer_by_addr,      \* address -> id
    manufacturer_ids,          \* list of ids
    batches,                   \* batch_id -> Batch
    all_batch_ids,             \* list of batch ids
    batch_ids_by_manufacturer, \* manufacturer id -> list of batch ids
    recalls,                   \* id -> Recall
    recall_ids_by_batch,       \* batch_id -> list of recall ids
    owner_receipts,            \* address -> list of OwnershipReceipt
    events                     \* the contract events published so far, in order

adminVars == <<admin, next_manufacturer_id>>
manufacturerVars == <<manufacturers, manufacturer_by_addr, manufacturer_ids>>
batchVars == <<batches, all_batch_ids, batch_ids_by_manufacturer>>
recallVars == <<next_recall_id, recalls, recall_ids_by_batch>>
vars == <<adminVars, manufacturerVars, batchVars, recallVars, owner_receipts,
          events>>

\* Storage after writing value v under key k.
Put(map, k, v) == [x \in DOMAIN map \cup {k} |-> IF x = k THEN v ELSE map[x]]

\* The list under key k, a missing key being an empty list.
unwrap_vec(map, k) == IF k \in DOMAIN map THEN map[k] ELSE <<>>

\* Planted bug for mutation: the list grows at its head.
PushBackAtHead(map, k, v) == Put(map, k, <<v>> \o unwrap_vec(map, k))

\* Storage after appending v to the list under key k.
PushBack(map, k, v) == Put(map, k, Append(unwrap_vec(map, k), v))

EmptyMap == [k \in {} |-> None]

-----------------------------------------------------------------------------
(* types.rs *)

Manufacturer == [id : U64, address : Address, name : Name]

Batch == [id : BatchId, manufacturer_id : U64, manufacturer : Address,
          product_name : Name, serial_range_start : U64,
          serial_range_end : U64, manufactured_date : ManufacturedDate]

Recall == [id : U64, batch_id : BatchId, manufacturer : Address,
           severity : Severity, message_hash : MessageHash,
           affected_serial_start : U64, affected_serial_end : U64]

OwnershipReceipt == [batch_id : BatchId, serial_number : U64]

ManufacturerRegisteredEvent(man) ==
    [type |-> "ManufacturerRegistered", manufacturer |-> man.address,
     manufacturer_id |-> man.id, name |-> man.name]

BatchRegisteredEvent(batch) ==
    [type |-> "BatchRegistered", manufacturer |-> batch.manufacturer,
     batch_id |-> batch.id, product_name |-> batch.product_name,
     serial_range_start |-> batch.serial_range_start,
     serial_range_end |-> batch.serial_range_end,
     manufactured_date |-> batch.manufactured_date]

RecallIssuedEvent(recall) ==
    [type |-> "RecallIssued", batch_id |-> recall.batch_id,
     recall_id |-> recall.id, severity |-> recall.severity,
     manufacturer |-> recall.manufacturer,
     message_hash |-> recall.message_hash,
     affected_serial_start |-> recall.affected_serial_start,
     affected_serial_end |-> recall.affected_serial_end]

OwnershipRegisteredEvent(owner, receipt) ==
    [type |-> "OwnershipRegistered", owner |-> owner,
     batch_id |-> receipt.batch_id, serial_number |-> receipt.serial_number]

\* Planted bug for mutation: ranges that share an endpoint do not overlap.
ranges_overlap_strict(a_start, a_end, b_start, b_end) ==
    a_start < b_end /\ b_start < a_end

\* True when the closed ranges overlap.
ranges_overlap(a_start, a_end, b_start, b_end) ==
    a_start <= b_end /\ b_start <= a_end

serial_in_range(serial, start, end) == serial >= start /\ serial <= end

InBatch(serial, b) ==
    serial_in_range(serial, batches[b].serial_range_start,
                    batches[b].serial_range_end)

-----------------------------------------------------------------------------
(* The auth-free reads. *)

Unregistered == [verdict |-> "Unregistered"]
OutOfRange == [verdict |-> "OutOfRange"]
Genuine(batch) ==
    [verdict |-> "Genuine", manufacturer |-> batch.manufacturer,
     product_name |-> batch.product_name,
     manufactured_date |-> batch.manufactured_date]

verify_serial(b, serial) ==
    IF b \notin DOMAIN batches THEN Unregistered
    ELSE IF InBatch(serial, b) THEN Genuine(batches[b]) ELSE OutOfRange

\* The records under the given ids, in order; an id without a record is
\* skipped.  found[n] is what the loop has after n ids.
Records(ids, map) ==
    LET found[n \in 0..Len(ids)] ==
            IF n = 0 THEN <<>>
            ELSE IF ids[n] \in DOMAIN map
                 THEN Append(found[n - 1], map[ids[n]])
                 ELSE found[n - 1]
    IN  found[Len(ids)]

get_recalls_for_batch(b) == Records(unwrap_vec(recall_ids_by_batch, b), recalls)

\* The recall is of the receipt's serial, among others.
Covers(recall, receipt) ==
    serial_in_range(receipt.serial_number, recall.affected_serial_start,
                    recall.affected_serial_end)

\* Planted bug for mutation: no deduplication.
AddRecallsOfTwice(result, receipt) ==
    result \o SelectSeq(get_recalls_for_batch(receipt.batch_id),
                        LAMBDA recall : Covers(recall, receipt))

\* Appends to result the recalls of one receipt's batch that cover its serial
\* and are not in result yet.  acc[n] is the result after n of them.
AddRecallsOf(result, receipt) ==
    LET list == get_recalls_for_batch(receipt.batch_id)
        acc[n \in 0..Len(list)] ==
            IF n = 0 THEN result
            ELSE IF Covers(list[n], receipt) /\ ~Contains(acc[n - 1], list[n])
                 THEN Append(acc[n - 1], list[n])
                 ELSE acc[n - 1]
    IN  acc[Len(list)]

\* acc[n] is the result after n receipts.
get_my_recalls(caller) ==
    LET receipts == unwrap_vec(owner_receipts, caller)
        acc[n \in 0..Len(receipts)] ==
            IF n = 0 THEN <<>> ELSE AddRecallsOf(acc[n - 1], receipts[n])
    IN  acc[Len(receipts)]

get_manufacturers == Records(manufacturer_ids, manufacturers)
get_batches == Records(all_batch_ids, batches)

get_manufacturer_id(a) ==
    IF a \in DOMAIN manufacturer_by_addr THEN manufacturer_by_addr[a] ELSE None

get_batches_for_manufacturer(a) ==
    IF a \in DOMAIN manufacturer_by_addr
    THEN unwrap_vec(batch_ids_by_manufacturer, manufacturer_by_addr[a])
    ELSE <<>>

-----------------------------------------------------------------------------
(* The entrypoints that write. *)

\* The storage before initialize; unwrap_or(0) reads a missing counter as 0.
Init ==
    /\ admin = None
    /\ next_manufacturer_id = 0
    /\ next_recall_id = 0
    /\ manufacturers = EmptyMap
    /\ manufacturer_by_addr = EmptyMap
    /\ manufacturer_ids = <<>>
    /\ batches = EmptyMap
    /\ all_batch_ids = <<>>
    /\ batch_ids_by_manufacturer = EmptyMap
    /\ recalls = EmptyMap
    /\ recall_ids_by_batch = EmptyMap
    /\ owner_receipts = EmptyMap
    /\ events = <<>>

initialize(a) ==
    /\ admin = None
    /\ admin' = a
    /\ next_manufacturer_id' = 1
    /\ next_recall_id' = 1
    /\ manufacturer_ids' = <<>>
    /\ all_batch_ids' = <<>>
    /\ UNCHANGED <<manufacturers, manufacturer_by_addr, batches,
                   batch_ids_by_manufacturer, recalls, recall_ids_by_batch,
                   owner_receipts, events>>

publish(event) ==
    /\ Len(events) < MaxEvents
    /\ events' = Append(events, event)

\* id + 1 panics at the largest u64 (overflow-checks in Cargo.toml).
AcceptsManufacturer(a, m, name) ==
    /\ admin = a
    /\ NameLength[name] \in 1..64
    /\ m \notin DOMAIN manufacturer_by_addr
    /\ next_manufacturer_id < U64Max

register_manufacturer(a, m, name) ==
    LET man == [id |-> next_manufacturer_id, address |-> m, name |-> name]
    IN  /\ AcceptsManufacturer(a, m, name)
        /\ next_manufacturer_id' = next_manufacturer_id + 1
        /\ manufacturers' = Put(manufacturers, man.id, man)
        /\ manufacturer_by_addr' = Put(manufacturer_by_addr, m, man.id)
        /\ manufacturer_ids' = Append(manufacturer_ids, man.id)
        /\ publish(ManufacturerRegisteredEvent(man))
        /\ UNCHANGED <<admin, batchVars, recallVars, owner_receipts>>

\* An indexed batch id without a record is a panic too ("indexed batch
\* missing"), hence the membership test.
OverlapsNone(mid, start, end) ==
    \A b \in ToSet(unwrap_vec(batch_ids_by_manufacturer, mid)) :
        /\ b \in DOMAIN batches
        /\ ~ranges_overlap(start, end, batches[b].serial_range_start,
                           batches[b].serial_range_end)

\* Planted bug for mutation: a batch id may be registered again.
AcceptsBatchAgain(m, b, name, start, end, date) ==
    /\ m \in DOMAIN manufacturer_by_addr
    /\ b # ZeroHash
    /\ NameLength[name] \in 1..128
    /\ end >= start
    /\ date # 0
    /\ OverlapsNone(manufacturer_by_addr[m], start, end)

AcceptsBatch(m, b, name, start, end, date) ==
    /\ m \in DOMAIN manufacturer_by_addr
    /\ b # ZeroHash
    /\ NameLength[name] \in 1..128
    /\ end >= start
    /\ date # 0
    /\ b \notin DOMAIN batches
    /\ OverlapsNone(manufacturer_by_addr[m], start, end)

register_batch(m, b, name, start, end, date) ==
    /\ AcceptsBatch(m, b, name, start, end, date)
    /\ LET batch == [id |-> b, manufacturer_id |-> manufacturer_by_addr[m],
                     manufacturer |-> m, product_name |-> name,
                     serial_range_start |-> start, serial_range_end |-> end,
                     manufactured_date |-> date]
       IN  /\ batches' = Put(batches, b, batch)
           /\ batch_ids_by_manufacturer' =
                PushBack(batch_ids_by_manufacturer, batch.manufacturer_id, b)
           /\ publish(BatchRegisteredEvent(batch))
    /\ all_batch_ids' = Append(all_batch_ids, b)
    /\ UNCHANGED <<adminVars, manufacturerVars, recallVars, owner_receipts>>

\* Planted bugs for mutation: anyone may recall; the end is not bounded.
AcceptsRecallByAnyone(m, b, message, start, end) ==
    /\ b \in DOMAIN batches
    /\ message # ZeroHash
    /\ end >= start
    /\ start >= batches[b].serial_range_start
    /\ end <= batches[b].serial_range_end
    /\ next_recall_id < U64Max

AcceptsRecallBeyondEnd(m, b, message, start, end) ==
    /\ b \in DOMAIN batches
    /\ batches[b].manufacturer = m
    /\ message # ZeroHash
    /\ end >= start
    /\ start >= batches[b].serial_range_start
    /\ next_recall_id < U64Max

AcceptsRecall(m, b, message, start, end) ==
    /\ b \in DOMAIN batches
    /\ batches[b].manufacturer = m
    /\ message # ZeroHash
    /\ end >= start
    /\ start >= batches[b].serial_range_start
    /\ end <= batches[b].serial_range_end
    /\ next_recall_id < U64Max

issue_recall(m, b, severity, message, start, end) ==
    LET recall == [id |-> next_recall_id, batch_id |-> b, manufacturer |-> m,
                   severity |-> severity, message_hash |-> message,
                   affected_serial_start |-> start,
                   affected_serial_end |-> end]
    IN  /\ AcceptsRecall(m, b, message, start, end)
        /\ next_recall_id' = next_recall_id + 1
        /\ recalls' = Put(recalls, recall.id, recall)
        /\ recall_ids_by_batch' = PushBack(recall_ids_by_batch, b, recall.id)
        /\ publish(RecallIssuedEvent(recall))
        /\ UNCHANGED <<adminVars, manufacturerVars, batchVars, owner_receipts>>

\* Planted bug for mutation: the duplicate check is gone.
AcceptsReceiptAgain(caller, b, serial) ==
    /\ b \in DOMAIN batches
    /\ InBatch(serial, b)

AcceptsReceipt(caller, b, serial) ==
    /\ b \in DOMAIN batches
    /\ InBatch(serial, b)
    /\ \A r \in ToSet(unwrap_vec(owner_receipts, caller)) :
        ~(r.batch_id = b /\ r.serial_number = serial)

register_ownership_receipt(caller, b, serial) ==
    LET receipt == [batch_id |-> b, serial_number |-> serial]
    IN  /\ AcceptsReceipt(caller, b, serial)
        /\ owner_receipts' = PushBack(owner_receipts, caller, receipt)
        /\ publish(OwnershipRegisteredEvent(caller, receipt))
        /\ UNCHANGED <<adminVars, manufacturerVars, batchVars, recallVars>>

Next ==
    \/ \E a \in Address : initialize(a)
    \/ \E a, m \in Address, name \in Name : register_manufacturer(a, m, name)
    \/ \E m \in Address, b \in BatchId, name \in Name, start, end \in Serial,
          date \in ManufacturedDate :
            register_batch(m, b, name, start, end, date)
    \/ \E m \in Address, b \in BatchId, severity \in Severity,
          message \in MessageHash, start, end \in Serial :
            issue_recall(m, b, severity, message, start, end)
    \/ \E caller \in Address, b \in BatchId, serial \in Serial :
            register_ownership_receipt(caller, b, serial)

Spec == Init /\ [][Next]_vars

-----------------------------------------------------------------------------
(* Properties *)

Event ==
    {ManufacturerRegisteredEvent(man) : man \in Manufacturer}
        \cup {BatchRegisteredEvent(batch) : batch \in Batch}
        \cup {RecallIssuedEvent(recall) : recall \in Recall}
        \cup {OwnershipRegisteredEvent(a, r) :
                a \in Address, r \in OwnershipReceipt}

IsMap(map, K, V) ==
    /\ DOMAIN map \subseteq K
    /\ map = [k \in DOMAIN map |-> map[k]]
    /\ \A k \in DOMAIN map : map[k] \in V

\* Every storage entry has the type its reader decodes it with; in particular
\* no counter passes the largest u64 (contract.rs register_manufacturer,
\* issue_recall; overflow-checks).
TypeOK ==
    /\ admin \in Address \cup {None}
    /\ next_manufacturer_id \in U64
    /\ next_recall_id \in U64
    /\ IsMap(manufacturers, U64, Manufacturer)
    /\ IsMap(manufacturer_by_addr, Address, U64)
    /\ manufacturer_ids \in Seq(U64)
    /\ IsMap(batches, BatchId, Batch)
    /\ all_batch_ids \in Seq(BatchId)
    /\ IsMap(batch_ids_by_manufacturer, U64, Seq(BatchId))
    /\ IsMap(recalls, U64, Recall)
    /\ IsMap(recall_ids_by_batch, BatchId, Seq(U64))
    /\ IsMap(owner_receipts, Address, Seq(OwnershipReceipt))
    /\ events \in Seq(Event)

IsOneToOne(list) ==
    \A i, j \in DOMAIN list : list[i] = list[j] => i = j

\* The list holds every element of the set, each once.
Enumerates(list, set) == ToSet(list) = set /\ IsOneToOne(list)

BatchesOf(mid) == {b \in DOMAIN batches : batches[b].manufacturer_id = mid}
RecallsOf(b) == {id \in DOMAIN recalls : recalls[id].batch_id = b}

ManufacturerIndex ==
    /\ \A id \in DOMAIN manufacturers :
        /\ id < next_manufacturer_id
        /\ manufacturers[id].id = id
        /\ manufacturers[id].address \in DOMAIN manufacturer_by_addr
        /\ manufacturer_by_addr[manufacturers[id].address] = id
    /\ \A a \in DOMAIN manufacturer_by_addr :
        /\ manufacturer_by_addr[a] \in DOMAIN manufacturers
        /\ manufacturers[manufacturer_by_addr[a]].address = a
    /\ Enumerates(manufacturer_ids, DOMAIN manufacturers)

BatchIndex ==
    /\ \A b \in DOMAIN batches :
        /\ batches[b].id = b
        /\ batches[b].manufacturer \in DOMAIN manufacturer_by_addr
        /\ manufacturer_by_addr[batches[b].manufacturer]
                = batches[b].manufacturer_id
    /\ Enumerates(all_batch_ids, DOMAIN batches)
    /\ \A mid \in U64 :
        Enumerates(unwrap_vec(batch_ids_by_manufacturer, mid), BatchesOf(mid))

\* Recall ids rise along a batch's list: the list is oldest first.
RecallIndex ==
    /\ \A id \in DOMAIN recalls :
        /\ id < next_recall_id
        /\ recalls[id].id = id
        /\ recalls[id].batch_id \in DOMAIN batches
    /\ \A b \in BatchId :
        LET ids == unwrap_vec(recall_ids_by_batch, b)
        IN  /\ ToSet(ids) = RecallsOf(b)
            /\ \A i, j \in DOMAIN ids : i < j => ids[i] < ids[j]

\* The lists and lookups of storage.rs agree with the records: the id and the
\* address of a manufacturer determine each other, every list names each of
\* its records exactly once, so "indexed batch missing" never panics, no
\* reader skips a record, and the recalls of a batch are oldest first.
IndexesConsistent == ManufacturerIndex /\ BatchIndex /\ RecallIndex

NothingBeforeInitialize ==
    admin = None =>
        /\ DOMAIN manufacturer_by_addr = {} /\ DOMAIN manufacturers = {}
        /\ DOMAIN batches = {} /\ DOMAIN recalls = {}
        /\ manufacturer_ids = <<>> /\ all_batch_ids = <<>>

BatchRangesDisjoint ==
    \A b, c \in DOMAIN batches :
        b # c /\ batches[b].manufacturer_id = batches[c].manufacturer_id =>
            ~ranges_overlap(batches[b].serial_range_start,
                            batches[b].serial_range_end,
                            batches[c].serial_range_start,
                            batches[c].serial_range_end)

RecallsWithinBatch ==
    \A id \in DOMAIN recalls :
        LET recall == recalls[id]
            batch == batches[recall.batch_id]
        IN  /\ recall.manufacturer = batch.manufacturer
            /\ recall.affected_serial_start <= recall.affected_serial_end
            /\ batch.serial_range_start <= recall.affected_serial_start
            /\ recall.affected_serial_end <= batch.serial_range_end

ReceiptsWithinBatch ==
    \A a \in DOMAIN owner_receipts :
        /\ IsOneToOne(owner_receipts[a])
        /\ \A r \in ToSet(owner_receipts[a]) :
            r.batch_id \in DOMAIN batches /\ InBatch(r.serial_number, r.batch_id)

\* The inductive invariant behind the safety properties: what register_batch,
\* issue_recall and register_ownership_receipt (contract.rs) check of one call
\* holds of all accepted calls together.
IInv ==
    /\ TypeOK
    /\ NothingBeforeInitialize
    /\ IndexesConsistent
    /\ BatchRangesDisjoint
    /\ RecallsWithinBatch
    /\ ReceiptsWithinBatch

\* A serial is genuine in at most one batch of a manufacturer: no sequence of
\* registrations gives one printed number two products (contract.rs
\* register_batch, verify_serial).
SerialGenuineOnce ==
    \A m \in Address, serial \in U64, b, c \in BatchId :
        /\ b \in DOMAIN batches /\ verify_serial(b, serial) = Genuine(batches[b])
        /\ c \in DOMAIN batches /\ verify_serial(c, serial) = Genuine(batches[c])
        /\ batches[b].manufacturer = m /\ batches[c].manufacturer = m
        => b = c

\* Every recall a reader of a batch sees was issued by the manufacturer whose
\* product those serials verify as, and affects at least one of them
\* (contract.rs issue_recall, get_recalls_for_batch, verify_serial).
RecallsCoverGenuineSerials ==
    \A b \in BatchId : \A id \in ToSet(unwrap_vec(recall_ids_by_batch, b)) :
        /\ id \in DOMAIN recalls
        /\ LET recall == recalls[id]
           IN  /\ recall.batch_id = b
               /\ recall.affected_serial_start <= recall.affected_serial_end
               /\ \A serial \in U64 :
                    serial_in_range(serial, recall.affected_serial_start,
                                    recall.affected_serial_end) =>
                        LET result == verify_serial(b, serial)
                        IN  /\ result.verdict = "Genuine"
                            /\ result.manufacturer = recall.manufacturer

\* get_my_recalls returns, once each, exactly the recalls that cover a serial
\* of one of the caller's receipts, whenever receipt and recall came.
MyRecallsExact ==
    \A a \in Address :
        LET receipts == ToSet(unwrap_vec(owner_receipts, a))
            covering == {id \in DOMAIN recalls :
                            \E r \in receipts :
                                /\ r.batch_id = recalls[id].batch_id
                                /\ r.serial_number
                                    \in recalls[id].affected_serial_start
                                         ..recalls[id].affected_serial_end}
        IN  Enumerates(get_my_recalls(a), {recalls[id] : id \in covering})

\* An owner holds a serial at most once, and every serial ever receipted still
\* verifies as genuine (contract.rs register_ownership_receipt).
ReceiptsHeldOnce ==
    \A a \in Address :
        LET receipts == unwrap_vec(owner_receipts, a)
        IN  /\ IsOneToOne(receipts)
            /\ \A r \in ToSet(receipts) :
                verify_serial(r.batch_id, r.serial_number).verdict = "Genuine"

EventsOfStorage ==
    {ManufacturerRegisteredEvent(manufacturers[id]) :
            id \in DOMAIN manufacturers}
        \cup {BatchRegisteredEvent(batches[b]) : b \in DOMAIN batches}
        \cup {RecallIssuedEvent(recalls[id]) : id \in DOMAIN recalls}
        \cup UNION {{OwnershipRegisteredEvent(a, r) :
                        r \in ToSet(owner_receipts[a])} :
                    a \in DOMAIN owner_receipts}

\* The published events say everything the storage holds and nothing else,
\* each thing once: a reader of all events can rebuild the registry, which is
\* what the indexer's tables are (backend/src/indexer.ts handleEvent).
EventsMirrorStorage ==
    /\ ToSet(events) = EventsOfStorage
    /\ IsOneToOne(events)

\* What an event refers to is among the events before it: the manufacturer of a
\* batch, the batch of a recall by its own manufacturer, the batch that a receipt's
\* serial belongs to.
Grounded(e, before) ==
    /\ e.type = "BatchRegistered" =>
        \E d \in before : /\ d.type = "ManufacturerRegistered"
                          /\ d.manufacturer = e.manufacturer
    /\ e.type = "RecallIssued" =>
        \E d \in before : /\ d.type = "BatchRegistered"
                          /\ d.batch_id = e.batch_id
                          /\ d.manufacturer = e.manufacturer
    /\ e.type = "OwnershipRegistered" =>
        \E d \in before : /\ d.type = "BatchRegistered"
                          /\ d.batch_id = e.batch_id
                          /\ serial_in_range(e.serial_number,
                                d.serial_range_start, d.serial_range_end)

\* An event comes after the events of what it refers to.  The indexer's handlers
\* depend on it (backend/src/indexer.ts, the placeholder manufacturer).
EventsCausallyOrdered ==
    \A j \in DOMAIN events :
        Grounded(events[j], {events[i] : i \in 1..(j - 1)})

\* Once a batch is registered the verdict on each of its serials never
\* changes, whatever is registered later (contract.rs register_batch).
VerdictStable ==
    [][\A b \in BatchId, serial \in U64 :
            verify_serial(b, serial) # Unregistered =>
                verify_serial(b, serial)' = verify_serial(b, serial)]_vars

\* A recall, once issued, is never changed, withdrawn or reordered: the list a
\* reader gets only grows at its end (contract.rs issue_recall; README.md "an
\* immutable, on-chain recall").
RecallsAppendOnly ==
    [][\A b \in BatchId :
            IsPrefix(get_recalls_for_batch(b), get_recalls_for_batch(b)')]_vars

=============================================================================
