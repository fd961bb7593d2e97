--------------------------- MODULE RegistryProofs ---------------------------
(***************************************************************************)
(* Theorems about the contract, for every value of its constants.          *)
(***************************************************************************)
EXTENDS RegistryRefinement, FiniteSetTheorems, TLAPS

-----------------------------------------------------------------------------
(* Serials, storage maps and lists *)

\* What callers pass for a serial number is a u64.
LEMMA SerialsFit == Serial \subseteq U64
BY ConstantsAssumption DEF U64

\* Writing a well-typed entry keeps a storage map well-typed.
LEMMA PutType ==
    ASSUME NEW K, NEW V, NEW map, IsMap(map, K, V), NEW k \in K, NEW v \in V
    PROVE  IsMap(Put(map, k, v), K, V)
BY DEF Put, IsMap

\* A list read from a well-typed map is well-typed, present or not.
LEMMA ListType ==
    ASSUME NEW K, NEW V, NEW map, IsMap(map, K, Seq(V)), NEW k
    PROVE  unwrap_vec(map, k) \in Seq(V)
<1>1. CASE k \in DOMAIN map
    BY <1>1 DEF unwrap_vec, IsMap
<1>2. CASE k \notin DOMAIN map
    <2>1. <<>> \in Seq(V)
        OBVIOUS
    <2> QED BY <1>2, <2>1 DEF unwrap_vec
<1> QED BY <1>1, <1>2

\* Appending to a list in a map keeps the map well-typed.
LEMMA PushBackType ==
    ASSUME NEW K, NEW V, NEW map, IsMap(map, K, Seq(V)), NEW k \in K, NEW v \in V
    PROVE  IsMap(PushBack(map, k, v), K, Seq(V))
<1>1. Append(unwrap_vec(map, k), v) \in Seq(V)
    BY ListType
<1> QED BY <1>1, PutType DEF PushBack

\* The elements of a list after an append.
LEMMA AppendSet ==
    ASSUME NEW S, NEW list \in Seq(S), NEW x \in S
    PROVE  ToSet(Append(list, x)) = ToSet(list) \cup {x}
<1> DEFINE n == Len(list)
           longer == Append(list, x)
<1>1. /\ DOMAIN longer = 1..(n + 1) /\ DOMAIN list = 1..n /\ n \in Nat
      /\ longer[n + 1] = x /\ \A i \in 1..n : longer[i] = list[i]
    OBVIOUS
<1>2. \A y \in ToSet(longer) : y \in ToSet(list) \cup {x}
    BY <1>1 DEF ToSet
<1>3. \A y \in ToSet(list) \cup {x} : y \in ToSet(longer)
    BY <1>1 DEF ToSet
<1> QED BY <1>2, <1>3

\* Appending a new element keeps a list an enumeration.
LEMMA AppendEnumerates ==
    ASSUME NEW S, NEW list \in Seq(S), NEW set, Enumerates(list, set),
           NEW x \in S, x \notin set
    PROVE  Enumerates(Append(list, x), set \cup {x})
<1>1. ToSet(Append(list, x)) = set \cup {x}
    BY AppendSet DEF Enumerates
<1>2. IsOneToOne(Append(list, x))
    <2>1. \A i \in DOMAIN list : list[i] \in set
        BY DEF Enumerates, ToSet
    <2> QED BY <2>1 DEF Enumerates, IsOneToOne
<1> QED BY <1>1, <1>2 DEF Enumerates

-----------------------------------------------------------------------------
(* Type correctness *)

\* The storage before initialize is well-typed.
LEMMA InitType == Init => TypeOK
<1> SUFFICES ASSUME Init PROVE TypeOK
    OBVIOUS
<1> USE ConstantsAssumption DEF Init
<1>1. \A K, V : IsMap(EmptyMap, K, V)
    BY DEF IsMap, EmptyMap
<1>2. \A V : <<>> \in Seq(V)
    OBVIOUS
<1>3. next_manufacturer_id \in U64 /\ next_recall_id \in U64
    BY DEF U64
<1> QED BY <1>1, <1>2, <1>3, Zenon DEF TypeOK

\* Publishing an event keeps the log well-typed.
LEMMA PublishType ==
    ASSUME events \in Seq(Event), NEW e \in Event, publish(e)
    PROVE  events' \in Seq(Event)
BY DEF publish

\* register_manufacturer keeps the storage well-typed; the id fits because the
\* next one is checked to.
LEMMA RegisterManufacturerType ==
    ASSUME TypeOK, NEW a \in Address, NEW m \in Address, NEW name \in Name,
           register_manufacturer(a, m, name)
    PROVE  TypeOK'
<1> USE ConstantsAssumption
<1> DEFINE id == next_manufacturer_id
           man == [id |-> id, address |-> m, name |-> name]
<1>1. id \in U64 /\ id + 1 \in U64
    BY DEF TypeOK, U64, register_manufacturer, AcceptsManufacturer
<1>2. man \in Manufacturer
    BY <1>1 DEF Manufacturer
<1>3. IsMap(manufacturers, U64, Manufacturer)' 
    BY <1>1, <1>2, PutType DEF TypeOK, register_manufacturer
<1>4. IsMap(manufacturer_by_addr, Address, U64)'
    BY <1>1, PutType DEF TypeOK, register_manufacturer
<1>5. (manufacturer_ids \in Seq(U64))'
    BY <1>1 DEF TypeOK, register_manufacturer
<1>6. ManufacturerRegisteredEvent(man) \in Event
    BY <1>2 DEF Event
<1>7. (events \in Seq(Event))'
    BY <1>6, PublishType DEF TypeOK, register_manufacturer
<1>8. (next_manufacturer_id \in U64)'
    BY <1>1 DEF register_manufacturer
<1> QED BY <1>3, <1>4, <1>5, <1>7, <1>8
        DEF TypeOK, register_manufacturer, batchVars, recallVars

\* register_batch keeps the storage well-typed.
LEMMA RegisterBatchType ==
    ASSUME TypeOK, NEW m \in Address, NEW b \in BatchId, NEW name \in Name,
           NEW start \in U64, NEW end \in U64, NEW date \in ManufacturedDate,
           register_batch(m, b, name, start, end, date)
    PROVE  TypeOK'
<1> DEFINE mid == manufacturer_by_addr[m]
           batch == [id |-> b, manufacturer_id |-> mid,
                     manufacturer |-> m, product_name |-> name,
                     serial_range_start |-> start, serial_range_end |-> end,
                     manufactured_date |-> date]
<1>1. mid \in U64
    BY DEF TypeOK, IsMap, register_batch, AcceptsBatch
<1>2. batch \in Batch
    BY <1>1 DEF Batch
<1>3. IsMap(batches, BatchId, Batch)'
    BY <1>2, PutType DEF TypeOK, register_batch
<1>4. IsMap(batch_ids_by_manufacturer, U64, Seq(BatchId))'
    BY <1>1, PushBackType DEF TypeOK, register_batch
<1>5. (all_batch_ids \in Seq(BatchId))'
    BY DEF TypeOK, register_batch
<1>6. BatchRegisteredEvent(batch) \in Event
    BY <1>2 DEF Event
<1>7. (events \in Seq(Event))'
    BY <1>6, PublishType DEF TypeOK, register_batch
<1> QED BY <1>3, <1>4, <1>5, <1>7
        DEF TypeOK, register_batch, adminVars, manufacturerVars, recallVars

\* issue_recall keeps the storage well-typed; the id fits because the next one is
\* checked to.
LEMMA IssueRecallType ==
    ASSUME TypeOK, NEW m \in Address, NEW b \in BatchId,
           NEW severity \in Severity, NEW message \in MessageHash,
           NEW start \in U64, NEW end \in U64,
           issue_recall(m, b, severity, message, start, end)
    PROVE  TypeOK'
<1> USE ConstantsAssumption
<1> DEFINE id == next_recall_id
           recall == [id |-> id, batch_id |-> b, manufacturer |-> m,
                      severity |-> severity, message_hash |-> message,
                      affected_serial_start |-> start,
                      affected_serial_end |-> end]
<1>1. id \in U64 /\ id + 1 \in U64
    BY DEF TypeOK, U64, issue_recall, AcceptsRecall
<1>2. recall \in Recall
    BY <1>1 DEF Recall
<1>3. IsMap(recalls, U64, Recall)'
    BY <1>1, <1>2, PutType DEF TypeOK, issue_recall
<1>4. IsMap(recall_ids_by_batch, BatchId, Seq(U64))'
    BY <1>1, PushBackType DEF TypeOK, issue_recall
<1>5. RecallIssuedEvent(recall) \in Event
    BY <1>2 DEF Event
<1>6. (events \in Seq(Event))'
    BY <1>5, PublishType DEF TypeOK, issue_recall
<1>7. (next_recall_id \in U64)'
    BY <1>1 DEF issue_recall
<1> QED BY <1>3, <1>4, <1>6, <1>7
        DEF TypeOK, issue_recall, adminVars, manufacturerVars, batchVars

\* register_ownership_receipt keeps the storage well-typed.
LEMMA RegisterReceiptType ==
    ASSUME TypeOK, NEW caller \in Address, NEW b \in BatchId,
           NEW serial \in U64, register_ownership_receipt(caller, b, serial)
    PROVE  TypeOK'
<1> DEFINE receipt == [batch_id |-> b, serial_number |-> serial]
<1>1. receipt \in OwnershipReceipt
    BY DEF OwnershipReceipt
<1>2. IsMap(owner_receipts, Address, Seq(OwnershipReceipt))'
    BY <1>1, PushBackType DEF TypeOK, register_ownership_receipt
<1>3. OwnershipRegisteredEvent(caller, receipt) \in Event
    BY <1>1 DEF Event
<1>4. (events \in Seq(Event))'
    BY <1>3, PublishType DEF TypeOK, register_ownership_receipt
<1> QED BY <1>2, <1>4
        DEF TypeOK, register_ownership_receipt, adminVars, manufacturerVars,
            batchVars, recallVars

\* initialize keeps the storage well-typed.
LEMMA InitializeType ==
    ASSUME TypeOK, NEW a \in Address, initialize(a)
    PROVE  TypeOK'
<1>1. (next_manufacturer_id \in U64)' /\ (next_recall_id \in U64)'
    BY ConstantsAssumption DEF initialize, U64
<1>2. \A V : <<>> \in Seq(V)
    OBVIOUS
<1> QED BY <1>1, <1>2 DEF initialize, TypeOK

\* Every storage entry always has the type its readers decode it with, and no
\* counter passes the largest u64 (contract.rs, storage.rs).
THEOREM TypeCorrect == Spec => []TypeOK
<1>1. TypeOK /\ [Next]_vars => TypeOK'
    <2> SUFFICES ASSUME TypeOK, [Next]_vars PROVE TypeOK'
        OBVIOUS
    <2>1. CASE \E a \in Address : initialize(a)
        BY <2>1, InitializeType
    <2>2. CASE \E a, m \in Address, name \in Name :
                    register_manufacturer(a, m, name)
        BY <2>2, RegisterManufacturerType
    <2>3. CASE \E m \in Address, b \in BatchId, name \in Name,
                  start, end \in Serial, date \in ManufacturedDate :
                    register_batch(m, b, name, start, end, date)
        BY <2>3, SerialsFit, RegisterBatchType
    <2>4. CASE \E m \in Address, b \in BatchId, severity \in Severity,
                  message \in MessageHash, start, end \in Serial :
                    issue_recall(m, b, severity, message, start, end)
        BY <2>4, SerialsFit, IssueRecallType
    <2>5. CASE \E caller \in Address, b \in BatchId, serial \in Serial :
                    register_ownership_receipt(caller, b, serial)
        BY <2>5, SerialsFit, RegisterReceiptType
    <2>6. CASE UNCHANGED vars
        BY <2>6 DEF vars, adminVars, manufacturerVars, batchVars, recallVars,
                    TypeOK
    <2> QED BY <2>1, <2>2, <2>3, <2>4, <2>5, <2>6 DEF Next
<1> QED BY InitType, <1>1, PTL DEF Spec

-----------------------------------------------------------------------------
(* The inductive invariant.  The parts that speak of the storage only are     *)
(* grouped, so that a step that leaves a part's variables alone keeps it.      *)

\* The inductive invariant holds of the storage before initialize.
LEMMA InitInvariant == Init => IInv
<1> SUFFICES ASSUME Init PROVE IInv
    OBVIOUS
<1> USE DEF Init
<1>1. TypeOK
    BY InitType
<1>2. DOMAIN EmptyMap = {}
    BY DEF EmptyMap
<1>3. \A k : unwrap_vec(EmptyMap, k) = <<>>
    BY <1>2 DEF unwrap_vec
<1>4. ToSet(<<>>) = {} /\ DOMAIN <<>> = {}
    BY DEF ToSet
<1>5. ManufacturerIndex
    BY <1>2, <1>4 DEF ManufacturerIndex, Enumerates, IsOneToOne
<1>6. BatchIndex
    BY <1>2, <1>3, <1>4 DEF BatchIndex, BatchesOf, Enumerates, IsOneToOne
<1>7. RecallIndex
    BY <1>2, <1>3, <1>4 DEF RecallIndex, RecallsOf
<1>8. /\ NothingBeforeInitialize /\ BatchRangesDisjoint
      /\ RecallsWithinBatch /\ ReceiptsWithinBatch
    BY <1>2 DEF NothingBeforeInitialize, BatchRangesDisjoint,
                RecallsWithinBatch, ReceiptsWithinBatch
<1> QED BY <1>1, <1>5, <1>6, <1>7, <1>8 DEF IInv, IndexesConsistent

\* initialize, which runs on an empty registry only, keeps the invariant: it
\* resets no list that has entries.
LEMMA InitializeKeeps ==
    ASSUME IInv, NEW a \in Address, initialize(a)
    PROVE  IInv'
<1> USE DEF initialize
<1>1. TypeOK'
    BY InitializeType DEF IInv
<1>2. /\ DOMAIN manufacturer_by_addr = {} /\ DOMAIN manufacturers = {}
      /\ DOMAIN batches = {} /\ DOMAIN recalls = {}
      /\ manufacturer_ids = <<>> /\ all_batch_ids = <<>>
    BY DEF IInv, NothingBeforeInitialize
<1>3. manufacturer_ids' = manufacturer_ids /\ all_batch_ids' = all_batch_ids
    BY <1>2
<1>4. ManufacturerIndex'
    BY <1>2, <1>3 DEF IInv, IndexesConsistent, ManufacturerIndex
<1>5. BatchIndex'
    BY <1>2, <1>3 DEF IInv, IndexesConsistent, BatchIndex, BatchesOf
<1>6. RecallIndex'
    BY <1>2 DEF IInv, IndexesConsistent, RecallIndex, RecallsOf
<1>7. NothingBeforeInitialize'
    BY ConstantsAssumption DEF NothingBeforeInitialize
<1>8. BatchRangesDisjoint' /\ RecallsWithinBatch' /\ ReceiptsWithinBatch'
    BY DEF IInv, BatchRangesDisjoint, RecallsWithinBatch, ReceiptsWithinBatch,
           InBatch
<1> QED BY <1>1, <1>4, <1>5, <1>6, <1>7, <1>8 DEF IInv, IndexesConsistent

\* register_manufacturer keeps the invariant: the id and the address are new.
LEMMA RegisterManufacturerKeeps ==
    ASSUME IInv, NEW a \in Address, NEW m \in Address, NEW name \in Name,
           register_manufacturer(a, m, name)
    PROVE  IInv'
<1> DEFINE id == next_manufacturer_id
           man == [id |-> id, address |-> m, name |-> name]
<1> USE ConstantsAssumption
<1>1. TypeOK /\ TypeOK'
    BY RegisterManufacturerType DEF IInv
<1>2. /\ manufacturers' = Put(manufacturers, id, man)
      /\ manufacturer_by_addr' = Put(manufacturer_by_addr, m, id)
      /\ manufacturer_ids' = Append(manufacturer_ids, id)
      /\ next_manufacturer_id' = id + 1
      /\ m \notin DOMAIN manufacturer_by_addr /\ admin = a /\ admin' = a
      /\ UNCHANGED <<batchVars, recallVars, owner_receipts>>
    BY DEF register_manufacturer, AcceptsManufacturer
<1> HIDE DEF man, id
<1>3. /\ DOMAIN manufacturers' = DOMAIN manufacturers \cup {id}
      /\ manufacturers'[id] = man
      /\ \A x \in DOMAIN manufacturers :
            x # id => manufacturers'[x] = manufacturers[x]
    BY <1>2 DEF Put
<1>4. /\ DOMAIN manufacturer_by_addr' = DOMAIN manufacturer_by_addr \cup {m}
      /\ manufacturer_by_addr'[m] = id
      /\ \A x \in DOMAIN manufacturer_by_addr :
            x # m => manufacturer_by_addr'[x] = manufacturer_by_addr[x]
    BY <1>2 DEF Put
<1>5. id \in U64 /\ DOMAIN manufacturers \subseteq U64
    BY <1>1 DEF TypeOK, IsMap, id
<1>6. id \notin DOMAIN manufacturers
    BY <1>5 DEF IInv, IndexesConsistent, ManufacturerIndex, U64, id
<1>7. ManufacturerIndex'
    <2>1. ASSUME NEW i \in DOMAIN manufacturers'
          PROVE  /\ i < next_manufacturer_id'
                 /\ manufacturers'[i].id = i
                 /\ manufacturers'[i].address \in DOMAIN manufacturer_by_addr'
                 /\ manufacturer_by_addr'[manufacturers'[i].address] = i
        <3>1. CASE i = id
            BY <3>1, <1>2, <1>5, <1>3, <1>4 DEF U64, man, id
        <3>2. CASE i \in DOMAIN manufacturers /\ i # id
            <4>1. /\ i < id /\ manufacturers[i].id = i
                  /\ manufacturers[i].address \in DOMAIN manufacturer_by_addr
                  /\ manufacturer_by_addr[manufacturers[i].address] = i
                BY <3>2 DEF IInv, IndexesConsistent, ManufacturerIndex, id
            <4>2. manufacturers'[i] = manufacturers[i]
                BY <3>2, <1>2, <1>3, <1>4
            <4>3. manufacturers[i].address # m
                BY <4>1, <1>2, <1>3, <1>4
            <4> QED BY <4>1, <4>2, <4>3, <1>2, <1>5, <1>3, <1>4, <3>2 DEF U64
        <3> QED BY <3>1, <3>2, <1>2, <1>3, <1>4
    <2>2. ASSUME NEW x \in DOMAIN manufacturer_by_addr'
          PROVE  /\ manufacturer_by_addr'[x] \in DOMAIN manufacturers'
                 /\ manufacturers'[manufacturer_by_addr'[x]].address = x
        <3>1. CASE x = m
            BY <3>1, <1>3, <1>4 DEF man
        <3>2. CASE x \in DOMAIN manufacturer_by_addr /\ x # m
            <4>1. /\ manufacturer_by_addr[x] \in DOMAIN manufacturers
                  /\ manufacturers[manufacturer_by_addr[x]].address = x
                BY <3>2 DEF IInv, IndexesConsistent, ManufacturerIndex
            <4>2. manufacturer_by_addr'[x] = manufacturer_by_addr[x]
                BY <3>2, <1>2, <1>3, <1>4
            <4> QED BY <4>1, <4>2, <1>2, <1>3, <1>4, <1>6
        <3> QED BY <3>1, <3>2, <1>2, <1>3, <1>4
    <2>3. Enumerates(manufacturer_ids, DOMAIN manufacturers)'
        <3>1. /\ manufacturer_ids \in Seq(U64)
              /\ Enumerates(manufacturer_ids, DOMAIN manufacturers)
            BY <1>1 DEF TypeOK, IInv, IndexesConsistent, ManufacturerIndex
        <3>2. Enumerates(Append(manufacturer_ids, id),
                         DOMAIN manufacturers \cup {id})
            BY <3>1, <1>5, <1>6, AppendEnumerates
        <3>3. DOMAIN manufacturers' = DOMAIN manufacturers \cup {id}
            BY <1>2, <1>3, <1>4
        <3> QED BY <3>2, <3>3, <1>2, <1>3, <1>4
    <2> QED BY <2>1, <2>2, <2>3 DEF ManufacturerIndex
<1>8. BatchIndex'
    <2>1. ASSUME NEW b \in DOMAIN batches
          PROVE  /\ batches[b].manufacturer \in DOMAIN manufacturer_by_addr'
                 /\ manufacturer_by_addr'[batches[b].manufacturer]
                        = batches[b].manufacturer_id
        BY <1>2, <1>3, <1>4 DEF IInv, IndexesConsistent, BatchIndex
    <2>2. UNCHANGED <<batches, all_batch_ids, batch_ids_by_manufacturer>>
        BY <1>2, <1>3, <1>4 DEF batchVars
    <2>3. \A x : BatchesOf(x)' = BatchesOf(x)
        BY <2>2 DEF BatchesOf
    <2> QED BY <2>1, <2>2, <2>3 DEF IInv, IndexesConsistent, BatchIndex
<1>9. RecallIndex'
    BY <1>2, <1>3, <1>4 DEF IInv, IndexesConsistent, RecallIndex, RecallsOf, batchVars,
                recallVars
<1>10. NothingBeforeInitialize'
    BY <1>2, <1>3, <1>4 DEF NothingBeforeInitialize
<1>11. BatchRangesDisjoint' /\ RecallsWithinBatch' /\ ReceiptsWithinBatch'
    BY <1>2, <1>3, <1>4 DEF IInv, BatchRangesDisjoint, RecallsWithinBatch,
                ReceiptsWithinBatch, InBatch, batchVars, recallVars
<1> QED BY <1>1, <1>7, <1>8, <1>9, <1>10, <1>11 DEF IInv, IndexesConsistent

\* register_batch keeps the invariant: the batch id is new and its range
\* overlaps none of its manufacturer.
LEMMA RegisterBatchKeeps ==
    ASSUME IInv, NEW m \in Address, NEW b \in BatchId, NEW name \in Name,
           NEW start \in U64, NEW end \in U64, NEW date \in ManufacturedDate,
           register_batch(m, b, name, start, end, date)
    PROVE  IInv'
<1> DEFINE mid == manufacturer_by_addr[m]
           batch == [id |-> b, manufacturer_id |-> mid,
                     manufacturer |-> m, product_name |-> name,
                     serial_range_start |-> start, serial_range_end |-> end,
                     manufactured_date |-> date]
<1>1. TypeOK /\ TypeOK'
    BY RegisterBatchType DEF IInv
<1>2. /\ batches' = Put(batches, b, batch)
      /\ all_batch_ids' = Append(all_batch_ids, b)
      /\ batch_ids_by_manufacturer' =
            PushBack(batch_ids_by_manufacturer, mid, b)
      /\ m \in DOMAIN manufacturer_by_addr
      /\ b \notin DOMAIN batches
      /\ start <= end
      /\ OverlapsNone(mid, start, end)
    BY DEF register_batch, AcceptsBatch, U64
<1>3. UNCHANGED <<admin, next_manufacturer_id, manufacturers,
                  manufacturer_by_addr, manufacturer_ids, next_recall_id,
                  recalls, recall_ids_by_batch, owner_receipts>>
    BY DEF register_batch, adminVars, manufacturerVars, recallVars
<1>4. mid \in U64
    BY <1>1, <1>2 DEF TypeOK, IsMap
<1> HIDE DEF mid
<1>5. /\ DOMAIN batches' = DOMAIN batches \cup {b}
      /\ batches'[b] = batch
      /\ \A x \in DOMAIN batches : x # b /\ batches'[x] = batches[x]
    BY <1>2 DEF Put
<1>6. ManufacturerIndex'
    BY <1>3 DEF IInv, IndexesConsistent, ManufacturerIndex
<1>7. BatchIndex'
    <2>1. ASSUME NEW x \in DOMAIN batches'
          PROVE  /\ batches'[x].id = x
                 /\ batches'[x].manufacturer \in DOMAIN manufacturer_by_addr
                 /\ manufacturer_by_addr[batches'[x].manufacturer]
                        = batches'[x].manufacturer_id
        <3>1. CASE x = b
            BY <3>1, <1>2, <1>5 DEF mid
        <3>2. CASE x \in DOMAIN batches
            BY <3>2, <1>5 DEF IInv, IndexesConsistent, BatchIndex
        <3> QED BY <3>1, <3>2, <1>5
    <2>2. Enumerates(all_batch_ids, DOMAIN batches)'
        <3>1. /\ all_batch_ids \in Seq(BatchId)
              /\ Enumerates(all_batch_ids, DOMAIN batches)
            BY <1>1 DEF TypeOK, IInv, IndexesConsistent, BatchIndex
        <3>2. Enumerates(Append(all_batch_ids, b), DOMAIN batches \cup {b})
            BY <3>1, <1>2, AppendEnumerates
        <3> QED BY <3>2, <1>2, <1>5
    <2>3. ASSUME NEW x \in U64
          PROVE  Enumerates(unwrap_vec(batch_ids_by_manufacturer, x),
                            BatchesOf(x))'
        <3> DEFINE list == unwrap_vec(batch_ids_by_manufacturer, x)
        <3>1. list \in Seq(BatchId) /\ Enumerates(list, BatchesOf(x))
            BY <1>1, ListType
               DEF TypeOK, IInv, IndexesConsistent, BatchIndex
        <3>2. CASE x = mid
            <4>1. list' = Append(list, b)
                BY <3>2, <1>2 DEF PushBack, Put, unwrap_vec
            <4>2. BatchesOf(x)' = BatchesOf(x) \cup {b}
                BY <3>2, <1>5 DEF BatchesOf
            <4>3. b \notin BatchesOf(x)
                BY <1>2 DEF BatchesOf
            <4>4. Enumerates(Append(list, b), BatchesOf(x) \cup {b})
                BY <3>1, <4>3, AppendEnumerates
            <4> QED BY <4>1, <4>2, <4>4
        <3>3. CASE x # mid
            <4>1. list' = list
                BY <3>3, <1>2 DEF PushBack, Put, unwrap_vec
            <4>2. BatchesOf(x)' = BatchesOf(x)
                BY <3>3, <1>5 DEF BatchesOf
            <4> QED BY <4>1, <4>2, <3>1
        <3> QED BY <3>2, <3>3
    <2> QED BY <2>1, <2>2, <2>3, <1>3 DEF BatchIndex
<1>8. RecallIndex'
    BY <1>3, <1>5 DEF IInv, IndexesConsistent, RecallIndex, RecallsOf
<1>9. NothingBeforeInitialize'
    BY <1>2, <1>3 DEF IInv, NothingBeforeInitialize
<1>10. BatchRangesDisjoint'
    <2>1. ASSUME NEW c \in DOMAIN batches, batches[c].manufacturer_id = mid
          PROVE  ~ranges_overlap(start, end, batches[c].serial_range_start,
                                 batches[c].serial_range_end)
        <3>1. c \in ToSet(unwrap_vec(batch_ids_by_manufacturer, mid))
            BY <2>1, <1>4 DEF IInv, IndexesConsistent, BatchIndex, BatchesOf,
                              Enumerates
        <3> QED BY <3>1, <1>2 DEF OverlapsNone
    <2> SUFFICES ASSUME NEW c \in DOMAIN batches', NEW d \in DOMAIN batches',
                        c # d, batches'[c].manufacturer_id
                                    = batches'[d].manufacturer_id
                 PROVE  ~ranges_overlap(batches'[c].serial_range_start,
                                        batches'[c].serial_range_end,
                                        batches'[d].serial_range_start,
                                        batches'[d].serial_range_end)
        BY DEF BatchRangesDisjoint
    <2>2. CASE c = b
        BY <2>2, <2>1, <1>5
    <2>3. CASE d = b
        <3>1. c \in DOMAIN batches /\ batches[c].manufacturer_id = mid
            BY <2>3, <1>5
        <3>2. ~ranges_overlap(start, end, batches[c].serial_range_start,
                              batches[c].serial_range_end)
            BY <3>1, <2>1
        <3> QED BY <3>1, <3>2, <2>3, <1>5 DEF ranges_overlap
    <2>4. CASE c # b /\ d # b
        BY <2>4, <1>5 DEF IInv, BatchRangesDisjoint
    <2> QED BY <2>2, <2>3, <2>4
<1>11. RecallsWithinBatch'
    BY <1>3, <1>5
       DEF IInv, IndexesConsistent, RecallIndex, RecallsWithinBatch
<1>12. ReceiptsWithinBatch'
    BY <1>3, <1>5 DEF IInv, ReceiptsWithinBatch, InBatch
<1> QED BY <1>1, <1>6, <1>7, <1>8, <1>9, <1>10, <1>11, <1>12
        DEF IInv, IndexesConsistent

\* issue_recall keeps the invariant: the recall lies within its batch and its id
\* is above all listed ones.
LEMMA IssueRecallKeeps ==
    ASSUME IInv, NEW m \in Address, NEW b \in BatchId,
           NEW severity \in Severity, NEW message \in MessageHash,
           NEW start \in U64, NEW end \in U64,
           issue_recall(m, b, severity, message, start, end)
    PROVE  IInv'
<1> DEFINE id == next_recall_id
           recall == [id |-> id, batch_id |-> b, manufacturer |-> m,
                      severity |-> severity, message_hash |-> message,
                      affected_serial_start |-> start,
                      affected_serial_end |-> end]
<1>1. TypeOK /\ TypeOK'
    BY IssueRecallType DEF IInv
<1>2. /\ recalls' = Put(recalls, id, recall)
      /\ recall_ids_by_batch' = PushBack(recall_ids_by_batch, b, id)
      /\ next_recall_id' = id + 1
      /\ b \in DOMAIN batches
      /\ batches[b].manufacturer = m
      /\ start <= end
      /\ batches[b].serial_range_start <= start
      /\ end <= batches[b].serial_range_end
    <2>1. batches[b] \in Batch
        BY <1>1 DEF TypeOK, IsMap, issue_recall, AcceptsRecall
    <2> QED BY <2>1, ConstantsAssumption
            DEF issue_recall, AcceptsRecall, U64, Batch
<1>3. UNCHANGED <<admin, next_manufacturer_id, manufacturers,
                  manufacturer_by_addr, manufacturer_ids, batches,
                  all_batch_ids, batch_ids_by_manufacturer, owner_receipts>>
    BY DEF issue_recall, adminVars, manufacturerVars, batchVars
<1>4. id \in Nat /\ id \in U64 /\ \A i \in DOMAIN recalls : i \in Nat /\ i < id
    BY <1>1, ConstantsAssumption
       DEF TypeOK, IsMap, U64, IInv, IndexesConsistent, RecallIndex
<1> HIDE DEF id
<1>5. /\ DOMAIN recalls' = DOMAIN recalls \cup {id}
      /\ recalls'[id] = recall
      /\ \A i \in DOMAIN recalls : i # id /\ recalls'[i] = recalls[i]
    BY <1>2, <1>4 DEF Put
<1>6. ManufacturerIndex' /\ BatchIndex' /\ BatchRangesDisjoint'
      /\ ReceiptsWithinBatch'
    BY <1>3 DEF IInv, IndexesConsistent, ManufacturerIndex, BatchIndex,
                BatchesOf, BatchRangesDisjoint, ReceiptsWithinBatch, InBatch
<1>7. RecallIndex'
    <2>1. ASSUME NEW i \in DOMAIN recalls'
          PROVE  /\ i < next_recall_id'
                 /\ recalls'[i].id = i
                 /\ recalls'[i].batch_id \in DOMAIN batches'
        <3>1. CASE i = id
            BY <3>1, <1>2, <1>3, <1>4, <1>5
        <3>2. CASE i \in DOMAIN recalls
            BY <3>2, <1>2, <1>3, <1>4, <1>5
               DEF IInv, IndexesConsistent, RecallIndex
        <3> QED BY <3>1, <3>2, <1>5
    <2>2. ASSUME NEW x \in BatchId
          PROVE  LET ids == unwrap_vec(recall_ids_by_batch, x)'
                 IN  /\ ToSet(ids) = RecallsOf(x)'
                     /\ \A i, j \in DOMAIN ids : i < j => ids[i] < ids[j]
        <3> DEFINE ids == unwrap_vec(recall_ids_by_batch, x)
        <3>1. /\ ids \in Seq(U64)
              /\ ToSet(ids) = RecallsOf(x)
              /\ \A i, j \in DOMAIN ids : i < j => ids[i] < ids[j]
            BY <1>1, ListType
               DEF TypeOK, IInv, IndexesConsistent, RecallIndex
        <3>2. CASE x = b
            <4>1. ids' = Append(ids, id)
                BY <3>2, <1>2 DEF PushBack, Put, unwrap_vec
            <4>2. RecallsOf(x)' = RecallsOf(x) \cup {id}
                BY <3>2, <1>5 DEF RecallsOf
            <4>3. ToSet(Append(ids, id)) = RecallsOf(x) \cup {id}
                BY <3>1, <1>4, AppendSet
            <4>4. \A i \in DOMAIN ids : ids[i] < id
                BY <3>1, <1>4 DEF ToSet, RecallsOf
            <4> HIDE DEF ids
            <4>5. \A i, j \in DOMAIN Append(ids, id) :
                    i < j => Append(ids, id)[i] < Append(ids, id)[j]
                BY <3>1, <4>4
            <4> QED BY <4>1, <4>2, <4>3, <4>5 DEF ids
        <3>3. CASE x # b
            <4>1. ids' = ids
                BY <3>3, <1>2 DEF PushBack, Put, unwrap_vec
            <4>2. RecallsOf(x)' = RecallsOf(x)
                BY <3>3, <1>5 DEF RecallsOf
            <4> QED BY <4>1, <4>2, <3>1
        <3> QED BY <3>2, <3>3
    <2> QED BY <2>1, <2>2 DEF RecallIndex
<1>8. NothingBeforeInitialize'
    BY <1>2, <1>3 DEF IInv, NothingBeforeInitialize
<1>9. RecallsWithinBatch'
    BY <1>2, <1>3, <1>5 DEF IInv, RecallsWithinBatch
<1> QED BY <1>1, <1>6, <1>7, <1>8, <1>9 DEF IInv, IndexesConsistent

\* register_ownership_receipt keeps the invariant: the receipt is new to its
\* owner and lies within its batch.
LEMMA RegisterReceiptKeeps ==
    ASSUME IInv, NEW caller \in Address, NEW b \in BatchId,
           NEW serial \in U64, register_ownership_receipt(caller, b, serial)
    PROVE  IInv'
<1> DEFINE receipt == [batch_id |-> b, serial_number |-> serial]
           list == unwrap_vec(owner_receipts, caller)
<1>1. TypeOK /\ TypeOK'
    BY RegisterReceiptType DEF IInv
<1>2. /\ owner_receipts' = PushBack(owner_receipts, caller, receipt)
      /\ b \in DOMAIN batches
      /\ InBatch(serial, b)
      /\ receipt \notin ToSet(list)
    BY DEF register_ownership_receipt, AcceptsReceipt
<1>3. UNCHANGED <<admin, next_manufacturer_id, manufacturers,
                  manufacturer_by_addr, manufacturer_ids, batches,
                  all_batch_ids, batch_ids_by_manufacturer, next_recall_id,
                  recalls, recall_ids_by_batch>>
    BY DEF register_ownership_receipt, adminVars, manufacturerVars, batchVars,
           recallVars
<1>4. /\ ManufacturerIndex' /\ BatchIndex' /\ RecallIndex'
      /\ NothingBeforeInitialize'
      /\ BatchRangesDisjoint' /\ RecallsWithinBatch'
    BY <1>3 DEF IInv, IndexesConsistent, ManufacturerIndex, BatchIndex,
                BatchesOf, RecallIndex, RecallsOf, NothingBeforeInitialize,
                BatchRangesDisjoint, RecallsWithinBatch
<1>5. /\ list \in Seq(OwnershipReceipt) /\ receipt \in OwnershipReceipt
      /\ Enumerates(list, ToSet(list))
      /\ \A r \in ToSet(list) :
            r.batch_id \in DOMAIN batches /\ InBatch(r.serial_number, r.batch_id)
    <2>1. list \in Seq(OwnershipReceipt)
        BY <1>1, ListType DEF TypeOK
    <2>2. CASE caller \in DOMAIN owner_receipts
        BY <2>1, <2>2 DEF IInv, ReceiptsWithinBatch, Enumerates, unwrap_vec,
                          OwnershipReceipt
    <2>3. CASE caller \notin DOMAIN owner_receipts
        <3>1. list = <<>> /\ ToSet(<<>>) = {}
            BY <2>3 DEF unwrap_vec, ToSet
        <3> QED BY <2>1, <3>1 DEF Enumerates, IsOneToOne, OwnershipReceipt
    <2> QED BY <2>2, <2>3
<1>6. Enumerates(Append(list, receipt), ToSet(list) \cup {receipt})
    BY <1>2, <1>5, AppendEnumerates
<1>7. ReceiptsWithinBatch'
    <2> SUFFICES ASSUME NEW a \in DOMAIN owner_receipts'
                 PROVE  /\ IsOneToOne(owner_receipts'[a])
                        /\ \A r \in ToSet(owner_receipts'[a]) :
                            /\ r.batch_id \in DOMAIN batches
                            /\ InBatch(r.serial_number, r.batch_id)
        BY <1>3 DEF ReceiptsWithinBatch, InBatch
    <2>1. CASE a = caller
        <3>1. owner_receipts'[a] = Append(list, receipt)
            BY <2>1, <1>2 DEF PushBack, Put
        <3> QED BY <3>1, <1>2, <1>5, <1>6 DEF Enumerates
    <2>2. CASE a # caller
        <3>1. a \in DOMAIN owner_receipts /\ owner_receipts'[a] = owner_receipts[a]
            BY <2>2, <1>2 DEF PushBack, Put
        <3> QED BY <3>1 DEF IInv, ReceiptsWithinBatch
    <2> QED BY <2>1, <2>2
<1> QED BY <1>1, <1>4, <1>7 DEF IInv, IndexesConsistent

\* The inductive invariant holds throughout: the checks each entrypoint makes
\* of one call add up to the consistency of the whole registry.
THEOREM Invariant == Spec => []IInv
<1>1. IInv /\ [Next]_vars => IInv'
    <2> SUFFICES ASSUME IInv, [Next]_vars PROVE IInv'
        OBVIOUS
    <2>1. CASE \E a \in Address : initialize(a)
        BY <2>1, InitializeKeeps
    <2>2. CASE \E a, m \in Address, name \in Name :
                    register_manufacturer(a, m, name)
        BY <2>2, RegisterManufacturerKeeps
    <2>3. CASE \E m \in Address, b \in BatchId, name \in Name,
                  start, end \in Serial, date \in ManufacturedDate :
                    register_batch(m, b, name, start, end, date)
        BY <2>3, SerialsFit, RegisterBatchKeeps
    <2>4. CASE \E m \in Address, b \in BatchId, severity \in Severity,
                  message \in MessageHash, start, end \in Serial :
                    issue_recall(m, b, severity, message, start, end)
        BY <2>4, SerialsFit, IssueRecallKeeps
    <2>5. CASE \E caller \in Address, b \in BatchId, serial \in Serial :
                    register_ownership_receipt(caller, b, serial)
        BY <2>5, SerialsFit, RegisterReceiptKeeps
    <2>6. CASE UNCHANGED vars
        BY <2>6 DEF vars, adminVars, manufacturerVars, batchVars, recallVars,
                    IInv, TypeOK, NothingBeforeInitialize, IndexesConsistent,
                    ManufacturerIndex, BatchIndex, BatchesOf, RecallIndex,
                    RecallsOf, BatchRangesDisjoint, RecallsWithinBatch,
                    ReceiptsWithinBatch, InBatch
    <2> QED BY <2>1, <2>2, <2>3, <2>4, <2>5, <2>6 DEF Next
<1> QED BY InitInvariant, <1>1, PTL DEF Spec

-----------------------------------------------------------------------------
(* What readers may rely on *)

\* No list of the registry ever names a record twice, misses one or names one
\* that is not there, so the "indexed batch missing" panic is unreachable.
THEOREM IndexesAlwaysConsistent == Spec => []IndexesConsistent
<1>1. IInv => IndexesConsistent
    BY DEF IInv
<1> QED BY <1>1, Invariant, PTL

\* No sequence of registrations makes one printed serial genuine in two batches
\* of one manufacturer.
THEOREM SerialAlwaysGenuineOnce == Spec => []SerialGenuineOnce
<1>1. ASSUME IInv PROVE SerialGenuineOnce
    <2> SUFFICES ASSUME NEW b \in DOMAIN batches, NEW c \in DOMAIN batches,
                        NEW serial \in U64,
                        verify_serial(b, serial) = Genuine(batches[b]),
                        verify_serial(c, serial) = Genuine(batches[c]),
                        batches[b].manufacturer = batches[c].manufacturer
                 PROVE  b = c
        BY DEF SerialGenuineOnce
    <2>1. InBatch(serial, b) /\ InBatch(serial, c)
        BY DEF verify_serial, OutOfRange, Genuine
    <2>2. batches[b] \in Batch /\ batches[c] \in Batch
        BY <1>1 DEF IInv, TypeOK, IsMap
    <2>3. batches[b].manufacturer_id = batches[c].manufacturer_id
        BY <1>1 DEF IInv, IndexesConsistent, BatchIndex
    <2>4. ranges_overlap(batches[b].serial_range_start,
                         batches[b].serial_range_end,
                         batches[c].serial_range_start,
                         batches[c].serial_range_end)
        BY <2>1, <2>2, ConstantsAssumption
           DEF InBatch, serial_in_range, ranges_overlap, Batch, U64
    <2> QED BY <1>1, <2>3, <2>4 DEF IInv, BatchRangesDisjoint
<1> QED BY <1>1, Invariant, PTL

\* Every recall listed for a batch comes from the batch's manufacturer and
\* affects only serials that verify as that manufacturer's product.
THEOREM RecallsAlwaysCoverGenuineSerials == Spec => []RecallsCoverGenuineSerials
<1>1. ASSUME IInv PROVE RecallsCoverGenuineSerials
    <2> SUFFICES ASSUME NEW b \in BatchId,
                        NEW id \in ToSet(unwrap_vec(recall_ids_by_batch, b))
                 PROVE  /\ id \in DOMAIN recalls
                        /\ recalls[id].batch_id = b
                        /\ recalls[id].affected_serial_start
                                <= recalls[id].affected_serial_end
                        /\ \A serial \in U64 :
                            serial_in_range(serial,
                                    recalls[id].affected_serial_start,
                                    recalls[id].affected_serial_end) =>
                                /\ verify_serial(b, serial).verdict = "Genuine"
                                /\ verify_serial(b, serial).manufacturer
                                        = recalls[id].manufacturer
        BY DEF RecallsCoverGenuineSerials
    <2>1. id \in DOMAIN recalls /\ recalls[id].batch_id = b /\ b \in DOMAIN batches
        BY <1>1 DEF IInv, IndexesConsistent, RecallIndex, RecallsOf
    <2>2. recalls[id] \in Recall /\ batches[b] \in Batch
        BY <1>1, <2>1 DEF IInv, TypeOK, IsMap
    <2>3. /\ recalls[id].manufacturer = batches[b].manufacturer
          /\ recalls[id].affected_serial_start <= recalls[id].affected_serial_end
          /\ batches[b].serial_range_start <= recalls[id].affected_serial_start
          /\ recalls[id].affected_serial_end <= batches[b].serial_range_end
        BY <1>1, <2>1 DEF IInv, RecallsWithinBatch
    <2>4. ASSUME NEW serial \in U64,
                 serial_in_range(serial, recalls[id].affected_serial_start,
                                 recalls[id].affected_serial_end)
          PROVE  verify_serial(b, serial) = Genuine(batches[b])
        <3>1. InBatch(serial, b)
            BY <2>2, <2>3, <2>4, ConstantsAssumption
               DEF InBatch, serial_in_range, Recall, Batch, U64
        <3> QED BY <3>1, <2>1 DEF verify_serial
    <2> QED BY <2>1, <2>3, <2>4 DEF Genuine
<1> QED BY <1>1, Invariant, PTL

\* An owner holds a serial at most once, and a receipted serial is genuine.
THEOREM ReceiptsAlwaysHeldOnce == Spec => []ReceiptsHeldOnce
<1>1. ASSUME IInv PROVE ReceiptsHeldOnce
    <2> SUFFICES ASSUME NEW a \in Address
                 PROVE  /\ IsOneToOne(unwrap_vec(owner_receipts, a))
                        /\ \A r \in ToSet(unwrap_vec(owner_receipts, a)) :
                            verify_serial(r.batch_id, r.serial_number).verdict
                                = "Genuine"
        BY DEF ReceiptsHeldOnce
    <2>1. CASE a \in DOMAIN owner_receipts
        BY <1>1, <2>1 DEF IInv, ReceiptsWithinBatch, unwrap_vec, verify_serial,
                          Genuine
    <2>2. CASE a \notin DOMAIN owner_receipts
        <3>1. unwrap_vec(owner_receipts, a) = <<>> /\ ToSet(<<>>) = {}
            BY <2>2 DEF unwrap_vec, ToSet
        <3> QED BY <3>1 DEF IsOneToOne
    <2> QED BY <2>1, <2>2
<1> QED BY <1>1, Invariant, PTL

\* A verdict on a serial of a registered batch never changes.
THEOREM VerdictAlwaysStable == Spec => VerdictStable
<1>1. ASSUME IInv, [Next]_vars
      PROVE  \A b \in BatchId, serial \in U64 :
                verify_serial(b, serial) # Unregistered =>
                    verify_serial(b, serial)' = verify_serial(b, serial)
    <2>1. \A b \in DOMAIN batches :
            b \in DOMAIN batches' /\ batches'[b] = batches[b]
        <3>1. CASE \E m \in Address, b \in BatchId, name \in Name,
                      start, end \in Serial, date \in ManufacturedDate :
                        register_batch(m, b, name, start, end, date)
            BY <3>1 DEF register_batch, AcceptsBatch, Put
        <3>2. ASSUME NEW a \in Address, initialize(a) PROVE batches' = batches
            BY <3>2 DEF initialize
        <3>3. ASSUME NEW a \in Address, NEW m \in Address, NEW name \in Name,
                     register_manufacturer(a, m, name)
              PROVE  batches' = batches
            BY <3>3 DEF register_manufacturer, batchVars
        <3>4. ASSUME NEW m \in Address, NEW b \in BatchId,
                     NEW severity \in Severity, NEW message \in MessageHash,
                     NEW start \in Serial, NEW end \in Serial,
                     issue_recall(m, b, severity, message, start, end)
              PROVE  batches' = batches
            BY <3>4 DEF issue_recall, batchVars
        <3>5. ASSUME NEW caller \in Address, NEW b \in BatchId,
                     NEW serial \in Serial,
                     register_ownership_receipt(caller, b, serial)
              PROVE  batches' = batches
            BY <3>5 DEF register_ownership_receipt, batchVars
        <3>6. UNCHANGED vars => batches' = batches
            BY DEF vars, batchVars
        <3> QED BY <1>1, <3>1, <3>2, <3>3, <3>4, <3>5, <3>6 DEF Next
    <2> SUFFICES ASSUME NEW b \in BatchId, NEW serial \in U64,
                        verify_serial(b, serial) # Unregistered
                 PROVE  verify_serial(b, serial)' = verify_serial(b, serial)
        OBVIOUS
    <2>2. b \in DOMAIN batches
        BY DEF verify_serial
    <2> QED BY <2>1, <2>2 DEF verify_serial, InBatch, Genuine, OutOfRange
<1> QED BY <1>1, Invariant, PTL DEF Spec, VerdictStable

-----------------------------------------------------------------------------
(* The events as the history of the storage *)

\* An event is of the storage when it is of one of its records.
LEMMA EventsOfRecords ==
    \A e : e \in EventsOfStorage <=>
        \/ \E id \in DOMAIN manufacturers :
                e = ManufacturerRegisteredEvent(manufacturers[id])
        \/ \E b \in DOMAIN batches : e = BatchRegisteredEvent(batches[b])
        \/ \E id \in DOMAIN recalls : e = RecallIssuedEvent(recalls[id])
        \/ \E a \in DOMAIN owner_receipts :
            \E r \in ToSet(owner_receipts[a]) :
                e = OwnershipRegisteredEvent(a, r)
<1> DEFINE M == {ManufacturerRegisteredEvent(manufacturers[id]) :
                    id \in DOMAIN manufacturers}
           B == {BatchRegisteredEvent(batches[b]) : b \in DOMAIN batches}
           R == {RecallIssuedEvent(recalls[id]) : id \in DOMAIN recalls}
           Of(a) == {OwnershipRegisteredEvent(a, r) :
                        r \in ToSet(owner_receipts[a])}
           O == UNION {Of(a) : a \in DOMAIN owner_receipts}
<1> TAKE e
<1>1. e \in O <=> \E a \in DOMAIN owner_receipts :
                    \E r \in ToSet(owner_receipts[a]) :
                        e = OwnershipRegisteredEvent(a, r)
    OBVIOUS
<1>2. e \in M <=> \E id \in DOMAIN manufacturers :
                    e = ManufacturerRegisteredEvent(manufacturers[id])
    OBVIOUS
<1>3. e \in B <=> \E b \in DOMAIN batches :
                    e = BatchRegisteredEvent(batches[b])
    OBVIOUS
<1>4. e \in R <=> \E id \in DOMAIN recalls :
                    e = RecallIssuedEvent(recalls[id])
    OBVIOUS
<1>5. e \in EventsOfStorage <=> e \in M \/ e \in B \/ e \in R \/ e \in O
    BY DEF EventsOfStorage
<1> HIDE DEF M, B, R, O
<1> QED BY <1>1, <1>2, <1>3, <1>4, <1>5

\* The same of the storage after a step.
LEMMA EventsOfRecordsNext ==
    \A e : e \in EventsOfStorage' <=>
        \/ \E id \in DOMAIN manufacturers' :
                e = ManufacturerRegisteredEvent(manufacturers'[id])
        \/ \E b \in DOMAIN batches' : e = BatchRegisteredEvent(batches'[b])
        \/ \E id \in DOMAIN recalls' : e = RecallIssuedEvent(recalls'[id])
        \/ \E a \in DOMAIN owner_receipts' :
            \E r \in ToSet(owner_receipts'[a]) :
                e = OwnershipRegisteredEvent(a, r)
<1> DEFINE M == {ManufacturerRegisteredEvent(manufacturers'[id]) :
                    id \in DOMAIN manufacturers'}
           B == {BatchRegisteredEvent(batches'[b]) : b \in DOMAIN batches'}
           R == {RecallIssuedEvent(recalls'[id]) : id \in DOMAIN recalls'}
           Of(a) == {OwnershipRegisteredEvent(a, r) :
                        r \in ToSet(owner_receipts'[a])}
           O == UNION {Of(a) : a \in DOMAIN owner_receipts'}
<1> TAKE e
<1>1. e \in O <=> \E a \in DOMAIN owner_receipts' :
                    \E r \in ToSet(owner_receipts'[a]) :
                        e = OwnershipRegisteredEvent(a, r)
    OBVIOUS
<1>2. e \in M <=> \E id \in DOMAIN manufacturers' :
                    e = ManufacturerRegisteredEvent(manufacturers'[id])
    OBVIOUS
<1>3. e \in B <=> \E b \in DOMAIN batches' :
                    e = BatchRegisteredEvent(batches'[b])
    OBVIOUS
<1>4. e \in R <=> \E id \in DOMAIN recalls' :
                    e = RecallIssuedEvent(recalls'[id])
    OBVIOUS
<1>5. e \in EventsOfStorage' <=> e \in M \/ e \in B \/ e \in R \/ e \in O
    BY DEF EventsOfStorage
<1> HIDE DEF M, B, R, O
<1> QED BY <1>1, <1>2, <1>3, <1>4, <1>5

\* Publishing an event of a new record keeps the log the history of the storage.
LEMMA PublishKeepsMirror ==
    ASSUME TypeOK, EventsMirrorStorage, NEW e \in Event, publish(e),
           e \notin EventsOfStorage,
           EventsOfStorage' = EventsOfStorage \cup {e}
    PROVE  EventsMirrorStorage'
<1>1. Enumerates(Append(events, e), EventsOfStorage \cup {e})
    BY AppendEnumerates DEF TypeOK, EventsMirrorStorage, Enumerates
<1> QED BY <1>1 DEF EventsMirrorStorage, Enumerates, publish

\* Publishing an event that refers to earlier ones keeps the log ordered.
LEMMA PublishKeepsOrder ==
    ASSUME TypeOK, EventsCausallyOrdered, NEW e \in Event, publish(e),
           Grounded(e, ToSet(events))
    PROVE  EventsCausallyOrdered'
<1> DEFINE n == Len(events)
<1>1. /\ n \in Nat /\ DOMAIN events = 1..n /\ DOMAIN events' = 1..(n + 1)
      /\ events'[n + 1] = e /\ \A i \in 1..n : events'[i] = events[i]
    BY DEF TypeOK, publish
<1> SUFFICES ASSUME NEW j \in 1..(n + 1)
             PROVE  Grounded(events'[j], {events'[i] : i \in 1..(j - 1)})
    BY <1>1 DEF EventsCausallyOrdered
<1>2. CASE j = n + 1
    <2>1. {events'[i] : i \in 1..(j - 1)} = ToSet(events)
        BY <1>1, <1>2 DEF ToSet
    <2> QED BY <1>1, <1>2, <2>1
<1>3. CASE j \in 1..n
    <2>1. {events'[i] : i \in 1..(j - 1)} = {events[i] : i \in 1..(j - 1)}
        BY <1>1, <1>3
    <2> QED BY <1>1, <1>3, <2>1 DEF EventsCausallyOrdered
<1> QED BY <1>1, <1>2, <1>3

\* The step publishes the event of a record that is new, after the events of what
\* the record refers to.
PublishesNews ==
    \E e \in Event :
        /\ publish(e)
        /\ e \notin EventsOfStorage
        /\ EventsOfStorage' = EventsOfStorage \cup {e}
        /\ Grounded(e, ToSet(events))

\* Such a step keeps the log complete, free of repetitions and ordered.
LEMMA PublishesNewsKeeps ==
    ASSUME TypeOK, EventsMirrorStorage, EventsCausallyOrdered, PublishesNews
    PROVE  EventsMirrorStorage' /\ EventsCausallyOrdered'
BY PublishKeepsMirror, PublishKeepsOrder DEF PublishesNews

\* register_manufacturer publishes the event of the new manufacturer: its id is new.
LEMMA RegisterManufacturerPublishes ==
    ASSUME IInv, NEW a \in Address, NEW m \in Address, NEW name \in Name,
           register_manufacturer(a, m, name)
    PROVE  PublishesNews
<1> DEFINE id == next_manufacturer_id
           man == [id |-> id, address |-> m, name |-> name]
           e == ManufacturerRegisteredEvent(man)
<1>1. /\ manufacturers' = Put(manufacturers, id, man)
      /\ UNCHANGED <<batches, recalls, owner_receipts>>
      /\ publish(e)
    BY DEF register_manufacturer, batchVars, recallVars
<1>2. id \in U64 /\ man \in Manufacturer /\ e \in Event
    BY DEF IInv, TypeOK, Manufacturer, Event
<1>3. \A i \in DOMAIN manufacturers : manufacturers[i].id = i /\ i # id
    BY <1>2, ConstantsAssumption
       DEF IInv, TypeOK, IsMap, IndexesConsistent, ManufacturerIndex, U64
<1>4. e.type = "ManufacturerRegistered" /\ e.manufacturer_id = id
    BY DEF ManufacturerRegisteredEvent
<1> HIDE DEF id, man
<1>5. e \notin EventsOfStorage
    BY <1>3, <1>4, EventsOfRecords
       DEF ManufacturerRegisteredEvent, BatchRegisteredEvent, RecallIssuedEvent,
           OwnershipRegisteredEvent
<1>6. /\ DOMAIN manufacturers' = DOMAIN manufacturers \cup {id}
      /\ manufacturers'[id] = man
      /\ \A i \in DOMAIN manufacturers : manufacturers'[i] = manufacturers[i]
    BY <1>1, <1>3 DEF Put
<1> HIDE DEF e
<1>7. \A x : x \in EventsOfStorage' <=> x \in EventsOfStorage \/ x = e
    <2>1. \A x : (\E i \in DOMAIN manufacturers' :
                        x = ManufacturerRegisteredEvent(manufacturers'[i]))
                 <=> \/ \E i \in DOMAIN manufacturers :
                            x = ManufacturerRegisteredEvent(manufacturers[i])
                     \/ x = e
        BY <1>6 DEF e
    <2> QED BY <2>1, <1>1, EventsOfRecords, EventsOfRecordsNext
<1>8. EventsOfStorage' = EventsOfStorage \cup {e}
    BY <1>7
<1>9. Grounded(e, ToSet(events))
    BY <1>4 DEF Grounded
<1> QED BY <1>1, <1>2, <1>5, <1>8, <1>9 DEF PublishesNews

\* register_batch publishes the event of the new batch, whose manufacturer's event
\* is in the log.
LEMMA RegisterBatchPublishes ==
    ASSUME IInv, EventsMirrorStorage, NEW m \in Address, NEW b \in BatchId,
           NEW name \in Name, NEW start \in U64, NEW end \in U64,
           NEW date \in ManufacturedDate,
           register_batch(m, b, name, start, end, date)
    PROVE  PublishesNews
<1> DEFINE mid == manufacturer_by_addr[m]
           batch == [id |-> b, manufacturer_id |-> mid,
                     manufacturer |-> m, product_name |-> name,
                     serial_range_start |-> start, serial_range_end |-> end,
                     manufactured_date |-> date]
           e == BatchRegisteredEvent(batch)
<1>1. /\ batches' = Put(batches, b, batch)
      /\ UNCHANGED <<manufacturers, recalls, owner_receipts>>
      /\ publish(e)
      /\ m \in DOMAIN manufacturer_by_addr
      /\ b \notin DOMAIN batches
    BY DEF register_batch, AcceptsBatch, manufacturerVars, recallVars
<1>2. mid \in U64 /\ mid \in DOMAIN manufacturers /\ manufacturers[mid].address = m
    BY <1>1 DEF IInv, TypeOK, IsMap, IndexesConsistent, ManufacturerIndex
<1>3. batch \in Batch /\ e \in Event
    BY <1>2 DEF Batch, Event
<1>4. \A c \in DOMAIN batches : batches[c].id = c
    BY DEF IInv, IndexesConsistent, BatchIndex
<1>5. /\ e.type = "BatchRegistered" /\ e.batch_id = b /\ e.manufacturer = m
    BY DEF BatchRegisteredEvent
<1> HIDE DEF batch
<1>6. e \notin EventsOfStorage
    BY <1>1, <1>4, <1>5, EventsOfRecords
       DEF ManufacturerRegisteredEvent, BatchRegisteredEvent, RecallIssuedEvent,
           OwnershipRegisteredEvent
<1>7. /\ DOMAIN batches' = DOMAIN batches \cup {b}
      /\ batches'[b] = batch
      /\ \A c \in DOMAIN batches : batches'[c] = batches[c]
    BY <1>1 DEF Put
<1> HIDE DEF e
<1>8. \A x : x \in EventsOfStorage' <=> x \in EventsOfStorage \/ x = e
    <2>1. \A x : (\E c \in DOMAIN batches' : x = BatchRegisteredEvent(batches'[c]))
                 <=> \/ \E c \in DOMAIN batches :
                            x = BatchRegisteredEvent(batches[c])
                     \/ x = e
        BY <1>7 DEF e
    <2> QED BY <2>1, <1>1, EventsOfRecords, EventsOfRecordsNext
<1>9. EventsOfStorage' = EventsOfStorage \cup {e}
    BY <1>8
<1>10. Grounded(e, ToSet(events))
    <2> DEFINE d == ManufacturerRegisteredEvent(manufacturers[mid])
    <2>1. d \in ToSet(events)
        BY <1>2, EventsOfRecords DEF EventsMirrorStorage
    <2>2. d.type = "ManufacturerRegistered" /\ d.manufacturer = m
        BY <1>2 DEF ManufacturerRegisteredEvent
    <2> QED BY <1>5, <2>1, <2>2 DEF Grounded
<1> QED BY <1>1, <1>3, <1>6, <1>9, <1>10 DEF PublishesNews

\* issue_recall publishes the event of the new recall, whose batch's event, by the
\* same manufacturer, is in the log.
LEMMA IssueRecallPublishes ==
    ASSUME IInv, EventsMirrorStorage, NEW m \in Address, NEW b \in BatchId,
           NEW severity \in Severity, NEW message \in MessageHash,
           NEW start \in U64, NEW end \in U64,
           issue_recall(m, b, severity, message, start, end)
    PROVE  PublishesNews
<1> DEFINE id == next_recall_id
           recall == [id |-> id, batch_id |-> b, manufacturer |-> m,
                      severity |-> severity, message_hash |-> message,
                      affected_serial_start |-> start,
                      affected_serial_end |-> end]
           e == RecallIssuedEvent(recall)
<1>1. /\ recalls' = Put(recalls, id, recall)
      /\ UNCHANGED <<manufacturers, batches, owner_receipts>>
      /\ publish(e)
      /\ b \in DOMAIN batches /\ batches[b].manufacturer = m
    BY DEF issue_recall, AcceptsRecall, manufacturerVars, batchVars
<1>2. id \in U64 /\ recall \in Recall /\ e \in Event
    BY DEF IInv, TypeOK, Recall, Event
<1>3. \A i \in DOMAIN recalls : recalls[i].id = i /\ i # id
    BY <1>2, ConstantsAssumption
       DEF IInv, TypeOK, IsMap, IndexesConsistent, RecallIndex, U64
<1>4. /\ e.type = "RecallIssued" /\ e.recall_id = id
      /\ e.batch_id = b /\ e.manufacturer = m
    BY DEF RecallIssuedEvent
<1> HIDE DEF id, recall
<1>5. e \notin EventsOfStorage
    BY <1>3, <1>4, EventsOfRecords
       DEF ManufacturerRegisteredEvent, BatchRegisteredEvent, RecallIssuedEvent,
           OwnershipRegisteredEvent
<1>6. /\ DOMAIN recalls' = DOMAIN recalls \cup {id}
      /\ recalls'[id] = recall
      /\ \A i \in DOMAIN recalls : recalls'[i] = recalls[i]
    BY <1>1, <1>3 DEF Put
<1> HIDE DEF e
<1>7. \A x : x \in EventsOfStorage' <=> x \in EventsOfStorage \/ x = e
    <2>1. \A x : (\E i \in DOMAIN recalls' : x = RecallIssuedEvent(recalls'[i]))
                 <=> \/ \E i \in DOMAIN recalls :
                            x = RecallIssuedEvent(recalls[i])
                     \/ x = e
        BY <1>6 DEF e
    <2> QED BY <2>1, <1>1, EventsOfRecords, EventsOfRecordsNext
<1>8. EventsOfStorage' = EventsOfStorage \cup {e}
    BY <1>7
<1>9. Grounded(e, ToSet(events))
    <2> DEFINE d == BatchRegisteredEvent(batches[b])
    <2>1. d \in ToSet(events)
        BY <1>1, EventsOfRecords DEF EventsMirrorStorage
    <2>2. batches[b].id = b
        BY <1>1 DEF IInv, IndexesConsistent, BatchIndex
    <2>3. d.type = "BatchRegistered" /\ d.batch_id = b /\ d.manufacturer = m
        BY <1>1, <2>2 DEF BatchRegisteredEvent
    <2> QED BY <1>4, <2>1, <2>3 DEF Grounded
<1> QED BY <1>1, <1>2, <1>5, <1>8, <1>9 DEF PublishesNews

\* register_ownership_receipt publishes the event of the new receipt, whose
\* batch's event, with a range the serial lies in, is in the log.
LEMMA RegisterReceiptPublishes ==
    ASSUME IInv, EventsMirrorStorage, NEW caller \in Address, NEW b \in BatchId,
           NEW serial \in U64, register_ownership_receipt(caller, b, serial)
    PROVE  PublishesNews
<1> DEFINE receipt == [batch_id |-> b, serial_number |-> serial]
           list == unwrap_vec(owner_receipts, caller)
           e == OwnershipRegisteredEvent(caller, receipt)
<1>1. /\ owner_receipts' = PushBack(owner_receipts, caller, receipt)
      /\ UNCHANGED <<manufacturers, batches, recalls>>
      /\ publish(e)
      /\ b \in DOMAIN batches /\ InBatch(serial, b)
      /\ receipt \notin ToSet(list)
    BY DEF register_ownership_receipt, AcceptsReceipt, manufacturerVars, batchVars,
           recallVars
<1>2. receipt \in OwnershipReceipt /\ e \in Event
    BY DEF OwnershipReceipt, Event
<1>3. /\ e.type = "OwnershipRegistered" /\ e.owner = caller
      /\ e.batch_id = b /\ e.serial_number = serial
    BY DEF OwnershipRegisteredEvent
<1>4. list \in Seq(OwnershipReceipt)
    BY ListType DEF IInv, TypeOK
<1>5. ToSet(Append(list, receipt)) = ToSet(list) \cup {receipt}
    BY <1>2, <1>4, AppendSet
<1>6. /\ DOMAIN owner_receipts' = DOMAIN owner_receipts \cup {caller}
      /\ owner_receipts'[caller] = Append(list, receipt)
      /\ \A a \in DOMAIN owner_receipts :
            a # caller => owner_receipts'[a] = owner_receipts[a]
    BY <1>1 DEF PushBack, Put
<1>7. /\ caller \in DOMAIN owner_receipts => list = owner_receipts[caller]
      /\ caller \notin DOMAIN owner_receipts => ToSet(list) = {}
    BY DEF unwrap_vec, ToSet
<1> HIDE DEF list
<1>8. e \notin EventsOfStorage
    <2>1. \A a \in DOMAIN owner_receipts : \A r \in ToSet(owner_receipts[a]) :
                e # OwnershipRegisteredEvent(a, r)
        <3> SUFFICES ASSUME NEW a \in DOMAIN owner_receipts,
                            NEW r \in ToSet(owner_receipts[a]),
                            e = OwnershipRegisteredEvent(a, r)
                     PROVE  FALSE
            OBVIOUS
        <3>1. a = caller /\ r.batch_id = b /\ r.serial_number = serial
            BY <1>3 DEF OwnershipRegisteredEvent
        <3>2. r \in OwnershipReceipt
            BY <3>1, <1>4, <1>7 DEF ToSet
        <3>3. r = receipt
            BY <3>1, <3>2 DEF OwnershipReceipt
        <3> QED BY <1>1, <1>7, <3>1, <3>3
    <2> QED BY <2>1, <1>3, EventsOfRecords
            DEF ManufacturerRegisteredEvent, BatchRegisteredEvent, RecallIssuedEvent
<1> HIDE DEF e, receipt
<1>9. \A x : x \in EventsOfStorage' <=> x \in EventsOfStorage \/ x = e
    <2>1. \A x : (\E a \in DOMAIN owner_receipts' :
                    \E r \in ToSet(owner_receipts'[a]) :
                        x = OwnershipRegisteredEvent(a, r))
                 <=> \/ \E a \in DOMAIN owner_receipts :
                            \E r \in ToSet(owner_receipts[a]) :
                                x = OwnershipRegisteredEvent(a, r)
                     \/ x = e
        BY <1>5, <1>6, <1>7 DEF e
    <2> QED BY <2>1, <1>1, EventsOfRecords, EventsOfRecordsNext
<1>10. EventsOfStorage' = EventsOfStorage \cup {e}
    BY <1>9
<1>11. Grounded(e, ToSet(events))
    <2> DEFINE d == BatchRegisteredEvent(batches[b])
    <2>1. d \in ToSet(events)
        BY <1>1, EventsOfRecords DEF EventsMirrorStorage
    <2>2. batches[b].id = b
        BY <1>1 DEF IInv, IndexesConsistent, BatchIndex
    <2>3. /\ d.type = "BatchRegistered" /\ d.batch_id = b
          /\ serial_in_range(serial, d.serial_range_start, d.serial_range_end)
        BY <1>1, <2>2 DEF BatchRegisteredEvent, InBatch
    <2> QED BY <1>3, <2>1, <2>3 DEF Grounded
<1> QED BY <1>1, <1>2, <1>8, <1>10, <1>11 DEF PublishesNews

\* A step either publishes news or leaves the records and the log as they are.
LEMMA StepPublishesNews ==
    ASSUME IInv, EventsMirrorStorage, [Next]_vars
    PROVE  \/ PublishesNews
           \/ UNCHANGED <<manufacturers, batches, recalls, owner_receipts, events>>
<1>1. ASSUME NEW a \in Address, initialize(a)
      PROVE  UNCHANGED <<manufacturers, batches, recalls, owner_receipts, events>>
    BY <1>1 DEF initialize
<1>2. CASE \E a, m \in Address, name \in Name : register_manufacturer(a, m, name)
    BY <1>2, RegisterManufacturerPublishes
<1>3. CASE \E m \in Address, b \in BatchId, name \in Name,
              start, end \in Serial, date \in ManufacturedDate :
                register_batch(m, b, name, start, end, date)
    BY <1>3, SerialsFit, RegisterBatchPublishes
<1>4. CASE \E m \in Address, b \in BatchId, severity \in Severity,
              message \in MessageHash, start, end \in Serial :
                issue_recall(m, b, severity, message, start, end)
    BY <1>4, SerialsFit, IssueRecallPublishes
<1>5. CASE \E caller \in Address, b \in BatchId, serial \in Serial :
                register_ownership_receipt(caller, b, serial)
    BY <1>5, SerialsFit, RegisterReceiptPublishes
<1>6. CASE UNCHANGED vars
    BY <1>6 DEF vars, manufacturerVars, batchVars, recallVars
<1> QED BY <1>1, <1>2, <1>3, <1>4, <1>5, <1>6 DEF Next

\* The log is the history of the storage, in an order a reader can rely on.
LEMMA EventsAreHistory == Spec => [](EventsMirrorStorage /\ EventsCausallyOrdered)
<1> DEFINE History == EventsMirrorStorage /\ EventsCausallyOrdered
<1>1. Init => History
    <2> SUFFICES ASSUME Init PROVE History
        OBVIOUS
    <2>1. events = <<>> /\ DOMAIN events = {} /\ ToSet(events) = {}
        BY DEF Init, ToSet
    <2>2. /\ DOMAIN manufacturers = {} /\ DOMAIN batches = {}
          /\ DOMAIN recalls = {} /\ DOMAIN owner_receipts = {}
        BY DEF Init, EmptyMap
    <2>3. EventsOfStorage = {}
        BY <2>2, EventsOfRecords
    <2> QED BY <2>1, <2>3
            DEF EventsMirrorStorage, IsOneToOne, EventsCausallyOrdered
<1>2. IInv /\ History /\ [Next]_vars => History'
    <2> SUFFICES ASSUME IInv, History, [Next]_vars PROVE History'
        OBVIOUS
    <2>1. CASE PublishesNews
        BY <2>1, PublishesNewsKeeps DEF IInv
    <2>2. CASE UNCHANGED <<manufacturers, batches, recalls, owner_receipts, events>>
        <3>1. EventsOfStorage' = EventsOfStorage
            BY <2>2, EventsOfRecords, EventsOfRecordsNext
        <3> QED BY <2>2, <3>1 DEF EventsMirrorStorage, EventsCausallyOrdered
    <2> QED BY <2>1, <2>2, StepPublishesNews
<1> QED BY <1>1, <1>2, Invariant, PTL DEF Spec

\* A reader of all the events can rebuild the registry, and meets nothing twice.
THEOREM EventsAlwaysMirrorStorage == Spec => []EventsMirrorStorage
BY EventsAreHistory, PTL

\* A reader of the events meets a batch after its manufacturer, and a recall or a
\* receipt after its batch.
THEOREM EventsAlwaysCausallyOrdered == Spec => []EventsCausallyOrdered
BY EventsAreHistory, PTL

-----------------------------------------------------------------------------
(* The contract implements the provenance ledger *)

\* A new manufacturer is an admission.
LEMMA RegisterManufacturerAdmits ==
    ASSUME NEW a \in Address, NEW m \in Address, NEW name \in Name,
           register_manufacturer(a, m, name)
    PROVE  Ledger!Next
<1>1. /\ manufacturer_by_addr'
            = Put(manufacturer_by_addr, m, next_manufacturer_id)
      /\ UNCHANGED <<batches, recalls, owner_receipts>>
      /\ m \notin DOMAIN manufacturer_by_addr
    BY DEF register_manufacturer, AcceptsManufacturer, batchVars, recallVars
<1>2. UNCHANGED <<Products, Notices, Holdings>>
    BY <1>1 DEF Products, Notices, Holdings
<1>3. Makers' = Makers \cup {m}
    BY <1>1 DEF Makers, Put
<1>4. Ledger!Admit(m)
    BY <1>1, <1>3 DEF Ledger!Admit, Makers
<1> QED BY <1>2, <1>4 DEF Ledger!Next

\* A new batch is a product that takes serials its maker has not used: the batches
\* that register_batch compares it with are all those of its manufacturer.
LEMMA RegisterBatchProduces ==
    ASSUME IInv, NEW m \in Address, NEW b \in BatchId, NEW name \in Name,
           NEW start \in Serial, NEW end \in Serial,
           NEW date \in ManufacturedDate,
           register_batch(m, b, name, start, end, date)
    PROVE  Ledger!Next
<1> DEFINE mid == manufacturer_by_addr[m]
           batch == [id |-> b, manufacturer_id |-> mid,
                     manufacturer |-> m, product_name |-> name,
                     serial_range_start |-> start, serial_range_end |-> end,
                     manufactured_date |-> date]
           p == ProductOf(batch)
<1>1. /\ batches' = Put(batches, b, batch)
      /\ UNCHANGED <<manufacturer_by_addr, recalls, owner_receipts>>
      /\ m \in DOMAIN manufacturer_by_addr
      /\ b \notin DOMAIN batches
      /\ end >= start
      /\ OverlapsNone(mid, start, end)
    BY DEF register_batch, AcceptsBatch, manufacturerVars, recallVars
<1>2. start \in Int /\ end \in Int /\ mid \in U64
    BY <1>1, ConstantsAssumption DEF IInv, TypeOK, IsMap, U64
<1>3. /\ p \in Ledger!Product
      /\ p.batch = b /\ p.maker = m /\ p.first = start /\ p.last = end
    BY DEF ProductOf, Ledger!Product
<1>4. UNCHANGED <<Makers, Notices, Holdings>>
    BY <1>1 DEF Makers, Notices, Holdings
<1>5. Products' = Products \cup {p}
    <2> HIDE DEF batch
    <2>1. /\ DOMAIN batches' = DOMAIN batches \cup {b}
          /\ batches'[b] = batch
          /\ \A c \in DOMAIN batches : batches'[c] = batches[c]
        BY <1>1 DEF Put
    <2> QED BY <2>1 DEF Products
<1>6. Ledger!Serials(p) # {}
    BY <1>1, <1>2, <1>3 DEF Ledger!Serials
<1>7. ASSUME NEW q \in Products
      PROVE  /\ q.batch # p.batch
             /\ q.maker = p.maker => Ledger!Serials(q) \cap Ledger!Serials(p) = {}
    <2>1. PICK c \in DOMAIN batches : q = ProductOf(batches[c])
        BY DEF Products
    <2>2. /\ q.batch = c /\ q.maker = batches[c].manufacturer
          /\ q.first = batches[c].serial_range_start
          /\ q.last = batches[c].serial_range_end
        BY <2>1 DEF ProductOf, IInv, IndexesConsistent, BatchIndex
    <2>3. q.first \in Int /\ q.last \in Int
        BY <2>2, ConstantsAssumption DEF IInv, TypeOK, IsMap, Batch, U64
    <2>4. ASSUME q.maker = m
          PROVE  Ledger!Serials(q) \cap Ledger!Serials(p) = {}
        <3>1. batches[c].manufacturer_id = mid
            BY <2>2, <2>4 DEF IInv, IndexesConsistent, BatchIndex
        <3>2. c \in ToSet(unwrap_vec(batch_ids_by_manufacturer, mid))
            BY <3>1, <1>2
               DEF IInv, IndexesConsistent, BatchIndex, BatchesOf, Enumerates
        <3>3. ~ranges_overlap(start, end, q.first, q.last)
            BY <3>2, <2>2, <1>1 DEF OverlapsNone
        <3> QED BY <3>3, <2>3, <1>2, <1>3 DEF ranges_overlap, Ledger!Serials
    <2> QED BY <2>2, <2>4, <1>1, <1>3
<1> HIDE DEF p
<1>8. Ledger!Produce(p)
    BY <1>1, <1>3, <1>5, <1>6, <1>7 DEF Ledger!Produce, Makers
<1> QED BY <1>3, <1>4, <1>8 DEF Ledger!Next

\* A new recall is a notice numbered after all earlier ones.
LEMMA IssueRecallRecalls ==
    ASSUME IInv, NEW m \in Address, NEW b \in BatchId,
           NEW severity \in Severity, NEW message \in MessageHash,
           NEW start \in Serial, NEW end \in Serial,
           issue_recall(m, b, severity, message, start, end)
    PROVE  Ledger!Next
<1> DEFINE id == next_recall_id
           recall == [id |-> id, batch_id |-> b, manufacturer |-> m,
                      severity |-> severity, message_hash |-> message,
                      affected_serial_start |-> start,
                      affected_serial_end |-> end]
           n == NoticeOf(recall)
<1>1. /\ recalls' = Put(recalls, id, recall)
      /\ UNCHANGED <<manufacturer_by_addr, batches, owner_receipts>>
      /\ b \in DOMAIN batches /\ batches[b].manufacturer = m
      /\ end >= start
      /\ start >= batches[b].serial_range_start
      /\ end <= batches[b].serial_range_end
    BY DEF issue_recall, AcceptsRecall, manufacturerVars, batchVars
<1>2. start \in Int /\ end \in Int /\ id \in U64 /\ id \in Int
    BY ConstantsAssumption DEF IInv, TypeOK, U64
<1>3. /\ n \in Ledger!Notice
      /\ n.batch = b /\ n.maker = m /\ n.number = id
      /\ n.first = start /\ n.last = end
    BY <1>2 DEF NoticeOf, Ledger!Notice
<1>4. UNCHANGED <<Makers, Products, Holdings>>
    BY <1>1 DEF Makers, Products, Holdings
<1>5. \A i \in DOMAIN recalls : recalls[i].id = i /\ i < id
    BY DEF IInv, IndexesConsistent, RecallIndex
<1>6. Notices' = Notices \cup {n}
    <2> HIDE DEF recall, id
    <2>1. id \notin DOMAIN recalls
        BY <1>2, <1>5
    <2>2. /\ DOMAIN recalls' = DOMAIN recalls \cup {id}
          /\ recalls'[id] = recall
          /\ \A i \in DOMAIN recalls : recalls'[i] = recalls[i]
        BY <1>1, <2>1 DEF Put
    <2> QED BY <2>2 DEF Notices
<1>7. Ledger!Serials(n) # {}
    BY <1>1, <1>2, <1>3 DEF Ledger!Serials
<1>8. \E p \in Products : /\ p.batch = b /\ p.maker = m
                          /\ Ledger!Serials(n) \subseteq Ledger!Serials(p)
    <2> DEFINE p == ProductOf(batches[b])
    <2>1. /\ p.batch = b /\ p.maker = m
          /\ p.first = batches[b].serial_range_start
          /\ p.last = batches[b].serial_range_end
        BY <1>1 DEF ProductOf, IInv, IndexesConsistent, BatchIndex
    <2>2. p.first \in Int /\ p.last \in Int
        BY <2>1, <1>1, ConstantsAssumption DEF IInv, TypeOK, IsMap, Batch, U64
    <2>3. Ledger!Serials(n) \subseteq Ledger!Serials(p)
        BY <2>1, <2>2, <1>1, <1>2, <1>3 DEF Ledger!Serials
    <2> QED BY <2>1, <2>3, <1>1 DEF Products
<1>9. \A e \in Notices : e.number < n.number
    BY <1>3, <1>5 DEF Notices, NoticeOf
<1> HIDE DEF n
<1>10. Ledger!Recall(n)
    BY <1>3, <1>6, <1>7, <1>8, <1>9 DEF Ledger!Recall
<1> QED BY <1>3, <1>4, <1>10 DEF Ledger!Next

\* A new receipt is a holding of a serial of its batch.
LEMMA RegisterReceiptHolds ==
    ASSUME IInv, NEW caller \in Address, NEW b \in BatchId,
           NEW serial \in Serial, register_ownership_receipt(caller, b, serial)
    PROVE  Ledger!Next
<1> DEFINE receipt == [batch_id |-> b, serial_number |-> serial]
           list == unwrap_vec(owner_receipts, caller)
           h == HoldingOf(caller, receipt)
<1>1. /\ owner_receipts' = PushBack(owner_receipts, caller, receipt)
      /\ UNCHANGED <<manufacturer_by_addr, batches, recalls>>
      /\ b \in DOMAIN batches /\ InBatch(serial, b)
      /\ receipt \notin ToSet(list)
    BY DEF register_ownership_receipt, AcceptsReceipt, manufacturerVars, batchVars,
           recallVars
<1>2. receipt \in OwnershipReceipt /\ serial \in Int
    BY ConstantsAssumption, SerialsFit DEF OwnershipReceipt, U64
<1>3. /\ h \in Ledger!Holding
      /\ h.owner = caller /\ h.batch = b /\ h.serial = serial
    BY DEF HoldingOf, Ledger!Holding
<1>4. UNCHANGED <<Makers, Products, Notices>>
    BY <1>1 DEF Makers, Products, Notices
<1>5. list \in Seq(OwnershipReceipt)
    BY ListType DEF IInv, TypeOK
<1>6. ToSet(Append(list, receipt)) = ToSet(list) \cup {receipt}
    BY <1>2, <1>5, AppendSet
<1>7. /\ DOMAIN owner_receipts' = DOMAIN owner_receipts \cup {caller}
      /\ owner_receipts'[caller] = Append(list, receipt)
      /\ \A a \in DOMAIN owner_receipts :
            a # caller => owner_receipts'[a] = owner_receipts[a]
    BY <1>1 DEF PushBack, Put
<1>8. /\ caller \in DOMAIN owner_receipts => list = owner_receipts[caller]
      /\ caller \notin DOMAIN owner_receipts => ToSet(list) = {}
    BY DEF unwrap_vec, ToSet
<1> HIDE DEF list
<1>9. \A x : x \in Holdings <=>
            \E a \in DOMAIN owner_receipts :
                \E r \in ToSet(owner_receipts[a]) : x = HoldingOf(a, r)
    BY DEF Holdings
<1>10. \A x : x \in Holdings' <=>
            \E a \in DOMAIN owner_receipts' :
                \E r \in ToSet(owner_receipts'[a]) : x = HoldingOf(a, r)
    BY DEF Holdings
<1>11. h \notin Holdings
    <2> SUFFICES ASSUME NEW a \in DOMAIN owner_receipts,
                        NEW r \in ToSet(owner_receipts[a]), h = HoldingOf(a, r)
                 PROVE  FALSE
        BY <1>9
    <2>1. a = caller /\ r.batch_id = b /\ r.serial_number = serial
        BY <1>3 DEF HoldingOf
    <2>2. r \in OwnershipReceipt
        BY <2>1, <1>5, <1>8 DEF ToSet
    <2>3. r = receipt
        BY <2>1, <2>2 DEF OwnershipReceipt
    <2> QED BY <1>1, <1>8, <2>1, <2>3
<1> HIDE DEF receipt
<1>12. Holdings' = Holdings \cup {h}
    <2> HIDE DEF h
    <2>1. ASSUME NEW x \in Holdings PROVE x \in Holdings'
        <3>1. PICK a \in DOMAIN owner_receipts :
                \E r \in ToSet(owner_receipts[a]) : x = HoldingOf(a, r)
            BY <1>9
        <3>2. ToSet(owner_receipts[a]) \subseteq ToSet(owner_receipts'[a])
            BY <1>6, <1>7, <1>8
        <3> QED BY <1>7, <1>10, <3>1, <3>2
    <2>2. h \in Holdings'
        BY <1>6, <1>7, <1>10 DEF h
    <2>3. ASSUME NEW x \in Holdings' PROVE x \in Holdings \/ x = h
        <3>1. PICK a \in DOMAIN owner_receipts' :
                \E r \in ToSet(owner_receipts'[a]) : x = HoldingOf(a, r)
            BY <1>10
        <3>2. CASE a = caller
            BY <1>6, <1>7, <1>8, <1>9, <3>1, <3>2 DEF h
        <3>3. CASE a # caller
            BY <1>7, <1>9, <3>1, <3>3
        <3> QED BY <3>2, <3>3
    <2> QED BY <2>1, <2>2, <2>3
<1>13. \E p \in Products : p.batch = b /\ serial \in Ledger!Serials(p)
    <2> DEFINE p == ProductOf(batches[b])
    <2>1. /\ p.batch = b
          /\ p.first = batches[b].serial_range_start
          /\ p.last = batches[b].serial_range_end
        BY <1>1 DEF ProductOf, IInv, IndexesConsistent, BatchIndex
    <2>2. p.first \in Int /\ p.last \in Int
        BY <2>1, <1>1, ConstantsAssumption DEF IInv, TypeOK, IsMap, Batch, U64
    <2>3. serial \in Ledger!Serials(p)
        BY <2>1, <2>2, <1>1, <1>2 DEF Ledger!Serials, InBatch, serial_in_range
    <2> QED BY <2>1, <2>3, <1>1 DEF Products
<1> HIDE DEF h
<1>14. Ledger!Hold(h)
    BY <1>3, <1>11, <1>12, <1>13 DEF Ledger!Hold
<1> QED BY <1>3, <1>4, <1>14 DEF Ledger!Next

\* The contract implements the provenance ledger: facts are only ever added, one
\* per transaction, each admissible against those already there; initialize adds
\* none.
THEOREM LedgerImplemented == Spec => ImplementsLedger
<1>1. Init => Ledger!Init
    BY DEF Init, EmptyMap, Ledger!Init, Makers, Products, Notices, Holdings
<1>2. IInv /\ [Next]_vars => [Ledger!Next]_Ledger!vars
    <2> SUFFICES ASSUME IInv, [Next]_vars PROVE [Ledger!Next]_Ledger!vars
        OBVIOUS
    <2>1. ASSUME UNCHANGED <<manufacturer_by_addr, batches, recalls, owner_receipts>>
          PROVE  UNCHANGED Ledger!vars
        BY <2>1 DEF Ledger!vars, Makers, Products, Notices, Holdings
    <2>2. CASE \E a \in Address : initialize(a)
        BY <2>1, <2>2 DEF initialize
    <2>3. CASE \E a, m \in Address, name \in Name :
                    register_manufacturer(a, m, name)
        BY <2>3, RegisterManufacturerAdmits
    <2>4. CASE \E m \in Address, b \in BatchId, name \in Name,
                  start, end \in Serial, date \in ManufacturedDate :
                    register_batch(m, b, name, start, end, date)
        BY <2>4, RegisterBatchProduces
    <2>5. CASE \E m \in Address, b \in BatchId, severity \in Severity,
                  message \in MessageHash, start, end \in Serial :
                    issue_recall(m, b, severity, message, start, end)
        BY <2>5, IssueRecallRecalls
    <2>6. CASE \E caller \in Address, b \in BatchId, serial \in Serial :
                    register_ownership_receipt(caller, b, serial)
        BY <2>6, RegisterReceiptHolds
    <2>7. CASE UNCHANGED vars
        BY <2>1, <2>7 DEF vars, manufacturerVars, batchVars, recallVars
    <2> QED BY <2>2, <2>3, <2>4, <2>5, <2>6, <2>7 DEF Next
<1> QED BY <1>1, <1>2, Invariant, PTL DEF Spec, ImplementsLedger, Ledger!Spec

-----------------------------------------------------------------------------
(* Recalls are immutable *)

\* What a recall was issued as it stays, and the list of a batch's recalls only
\* grows at its end: no call withdraws, edits or reorders a recall (contract.rs
\* issue_recall; README.md "an immutable, on-chain recall").
RecallStorageAppendOnly ==
    /\ \A id \in DOMAIN recalls :
        id \in DOMAIN recalls' /\ recalls'[id] = recalls[id]
    /\ \A b \in BatchId :
        IsPrefix(unwrap_vec(recall_ids_by_batch, b),
                 unwrap_vec(recall_ids_by_batch, b)')

\* issue_recall writes under an id that no recall has.
LEMMA IssueRecallAppends ==
    ASSUME IInv, NEW m \in Address, NEW b \in BatchId,
           NEW severity \in Severity, NEW message \in MessageHash,
           NEW start \in Serial, NEW end \in Serial,
           issue_recall(m, b, severity, message, start, end)
    PROVE  RecallStorageAppendOnly
<1> DEFINE id == next_recall_id
           ids(x) == unwrap_vec(recall_ids_by_batch, x)
<1>1. PICK recall :
        /\ recalls' = Put(recalls, id, recall)
        /\ recall_ids_by_batch' = PushBack(recall_ids_by_batch, b, id)
    BY DEF issue_recall
<1>2. id \in U64 /\ \A i \in DOMAIN recalls : i # id
    BY ConstantsAssumption
       DEF IInv, TypeOK, IsMap, IndexesConsistent, RecallIndex, U64
<1>3. ASSUME NEW i \in DOMAIN recalls
      PROVE  i \in DOMAIN recalls' /\ recalls'[i] = recalls[i]
    BY <1>1, <1>2 DEF Put
<1>4. ASSUME NEW x \in BatchId
      PROVE  IsPrefix(ids(x), ids(x)')
    <2>1. ids(x) \in Seq(U64)
        BY ListType DEF IInv, TypeOK
    <2>2. CASE x = b
        <3>1. ids(x)' = Append(ids(x), id)
            BY <2>2, <1>1 DEF PushBack, Put, unwrap_vec
        <3> HIDE DEF ids, id
        <3> QED BY <2>1, <3>1, <1>2 DEF IsPrefix
    <2>3. CASE x # b
        <3>1. ids(x)' = ids(x)
            BY <2>3, <1>1 DEF PushBack, Put, unwrap_vec
        <3> HIDE DEF ids
        <3> QED BY <2>1, <3>1 DEF IsPrefix
    <2> QED BY <2>2, <2>3
<1> QED BY <1>3, <1>4 DEF RecallStorageAppendOnly

\* No step changes, withdraws or reorders a recall.
THEOREM RecallStorageAlwaysAppendOnly == Spec => [][RecallStorageAppendOnly]_vars
<1>1. ASSUME IInv, [Next]_vars PROVE RecallStorageAppendOnly
    <2>1. CASE UNCHANGED <<recalls, recall_ids_by_batch>>
        <3>1. ASSUME NEW b \in BatchId
              PROVE  IsPrefix(unwrap_vec(recall_ids_by_batch, b),
                              unwrap_vec(recall_ids_by_batch, b)')
            <4>1. unwrap_vec(recall_ids_by_batch, b) \in Seq(U64)
                BY <1>1, ListType DEF IInv, TypeOK
            <4>2. unwrap_vec(recall_ids_by_batch, b)'
                    = unwrap_vec(recall_ids_by_batch, b)
                BY <2>1 DEF unwrap_vec
            <4> QED BY <4>1, <4>2 DEF IsPrefix
        <3> QED BY <2>1, <3>1 DEF RecallStorageAppendOnly
    <2>2. CASE \E a \in Address : initialize(a)
        BY <2>1, <2>2 DEF initialize
    <2>3. CASE \E a, m \in Address, name \in Name :
                    register_manufacturer(a, m, name)
        BY <2>1, <2>3 DEF register_manufacturer, recallVars
    <2>4. CASE \E m \in Address, b \in BatchId, name \in Name,
                  start, end \in Serial, date \in ManufacturedDate :
                    register_batch(m, b, name, start, end, date)
        BY <2>1, <2>4 DEF register_batch, recallVars
    <2>5. CASE \E m \in Address, b \in BatchId, severity \in Severity,
                  message \in MessageHash, start, end \in Serial :
                    issue_recall(m, b, severity, message, start, end)
        BY <2>5, <1>1, IssueRecallAppends
    <2>6. CASE \E caller \in Address, b \in BatchId, serial \in Serial :
                    register_ownership_receipt(caller, b, serial)
        BY <2>1, <2>6 DEF register_ownership_receipt, recallVars
    <2>7. CASE UNCHANGED vars
        BY <2>1, <2>7 DEF vars, recallVars
    <2> QED BY <1>1, <2>2, <2>3, <2>4, <2>5, <2>6, <2>7 DEF Next
<1> QED BY <1>1, Invariant, PTL DEF Spec

-----------------------------------------------------------------------------
(* Loops: what a function defined round by round computes *)

\* Induction up to L: the prover has no induction over predicates, but a set
\* closed under the successor is the whole interval by its cardinality.
LEMMA IntervalInduction ==
    ASSUME NEW L \in Nat, NEW S, 0 \in S, \A n \in 1..L : n - 1 \in S => n \in S
    PROVE  \A n \in 0..L : n \in S
<1> DEFINE D == {n \in 1..L : \A i \in 0..n : i \in S}
           k == Cardinality(D)
<1>1. IsFiniteSet(1..L) /\ D \subseteq 1..L
    BY FS_Interval
<1>2. IsFiniteSet(D) /\ k \in Nat
    BY <1>1, FS_Subset, FS_CardinalityType
<1>3. D \subseteq 1..k
    <2> SUFFICES ASSUME NEW n \in D PROVE n <= k
        OBVIOUS
    <2>1. 1..n \subseteq D /\ n \in Nat
        OBVIOUS
    <2>2. Cardinality(1..n) <= k
        BY <2>1, <1>2, FS_Subset
    <2>3. Cardinality(1..n) = n
        BY <2>1, FS_Interval
    <2> QED BY <2>2, <2>3
<1>4. D = 1..k
    <2>1. IsFiniteSet(1..k) /\ Cardinality(1..k) = k
        BY <1>2, FS_Interval
    <2> QED BY <2>1, <1>2, <1>3, FS_Subset
<1>5. k >= L
    <2> SUFFICES ASSUME k < L PROVE FALSE
        BY <1>2
    <2>1. \A i \in 0..k : i \in S
        <3>1. CASE k = 0
            BY <3>1
        <3>2. CASE k # 0
            BY <3>2, <1>2, <1>4
        <3> QED BY <3>1, <3>2
    <2>2. k + 1 \in D
        BY <2>1, <1>2
    <2> QED BY <2>2, <1>2, <1>4
<1> QED
    <2>1. CASE L = 0
        BY <2>1
    <2>2. CASE L # 0
        <3>1. L \in D
            BY <2>2, <1>2, <1>4, <1>5
        <3> QED BY <3>1
    <2> QED BY <2>1, <2>2

\* The values f takes along a loop of L rounds: f[n] is the state after n.
Iterates(f, L, T, init, step) ==
    /\ f \in [0..L -> T]
    /\ f[0] = init
    /\ \A n \in 1..L : f[n] = step[n][f[n - 1]]

\* A function defined step by step over an interval exists.
LEMMA StepByStep ==
    ASSUME NEW L \in Nat, NEW T, NEW init \in T, NEW step \in [1..L -> [T -> T]]
    PROVE  \E f : Iterates(f, L, T, init, step)
<1> DEFINE S == {n \in 0..L : \E f : Iterates(f, n, T, init, step)}
<1>1. 0 \in S
    <2>1. Iterates([i \in 0..0 |-> init], 0, T, init, step)
        BY DEF Iterates
    <2> QED BY <2>1
<1>2. ASSUME NEW n \in 1..L, n - 1 \in S
      PROVE  n \in S
    <2>1. PICK f : Iterates(f, n - 1, T, init, step)
        BY <1>2
    <2> DEFINE g == [i \in 0..n |-> IF i = n THEN step[n][f[n - 1]] ELSE f[i]]
    <2>2. /\ f \in [0..(n - 1) -> T] /\ f[0] = init
          /\ \A i \in 1..(n - 1) : f[i] = step[i][f[i - 1]]
        BY <2>1 DEF Iterates
    <2>3. f[n - 1] \in T /\ step[n][f[n - 1]] \in T
        BY <2>2
    <2>4. g \in [0..n -> T]
        BY <2>2, <2>3
    <2>5. g[0] = init /\ \A i \in 1..n : g[i] = step[i][g[i - 1]]
        BY <2>2
    <2>6. Iterates(g, n, T, init, step)
        BY <2>4, <2>5 DEF Iterates
    <2> QED BY <2>6
<1>3. \A n \in 0..L : n \in S
    <2> HIDE DEF S
    <2> QED BY <1>1, <1>2, IntervalInduction
<1> QED BY <1>3

-----------------------------------------------------------------------------
(* What the reads return *)

\* The records under a list of ids.
RecordsOf(ids, map) == [i \in DOMAIN ids |-> map[ids[i]]]

\* The loop over a list of ids, all of which have records.
LEMMA RecordsOfPresent ==
    ASSUME NEW K, NEW V, NEW ids \in Seq(K), NEW map,
           \A i \in DOMAIN ids : ids[i] \in DOMAIN map /\ map[ids[i]] \in V
    PROVE  Records(ids, map) = RecordsOf(ids, map)
<1> DEFINE L == Len(ids)
           T == Seq(V)
           empty == <<>>
           upto(n) == [i \in 1..n |-> map[ids[i]]]
           step == [n \in 1..L |-> [list \in Seq(V) |-> Append(list, map[ids[n]])]]
           Equation(f) ==
                f = [n \in 0..L |-> IF n = 0 THEN <<>>
                                    ELSE IF ids[n] \in DOMAIN map
                                         THEN Append(f[n - 1], map[ids[n]])
                                         ELSE f[n - 1]]
           found == CHOOSE f : Equation(f)
<1>1. L \in Nat /\ DOMAIN ids = 1..L
    OBVIOUS
<1>2. Records(ids, map) = found[L]
    BY DEF Records
<1>3. \E f : Equation(f)
    <2>1. step \in [1..L -> [T -> T]] /\ empty \in T
        BY <1>1
    <2>2. \A n \in 1..L, list \in T :
            step[n][list] = Append(list, map[ids[n]])
        OBVIOUS
    <2> HIDE DEF step, L, T, empty
    <2>3. PICK f : Iterates(f, L, T, empty, step)
        BY <2>1, <1>1, StepByStep
    <2>4. /\ f \in [0..L -> T] /\ f[0] = empty
          /\ \A n \in 1..L : f[n] = step[n][f[n - 1]]
        BY <2>3 DEF Iterates
    <2>5. ASSUME NEW n \in 1..L
          PROVE  /\ step[n][f[n - 1]] = Append(f[n - 1], map[ids[n]])
                 /\ ids[n] \in DOMAIN map
        <3>1. f[n - 1] \in T
            BY <1>1, <2>4
        <3>2. ids[n] \in DOMAIN map
            BY <1>1
        <3> QED BY <3>1, <3>2, <2>2
    <2> DEFINE g == [n \in 0..L |-> IF n = 0 THEN <<>>
                                    ELSE IF ids[n] \in DOMAIN map
                                         THEN Append(f[n - 1], map[ids[n]])
                                         ELSE f[n - 1]]
    <2>6. ASSUME NEW n \in 0..L PROVE f[n] = g[n]
        <3>1. CASE n = 0
            BY <3>1, <2>4 DEF empty
        <3>2. CASE n \in 1..L
            BY <3>2, <2>4, <2>5
        <3> QED BY <3>1, <3>2, <1>1
    <2> HIDE DEF g
    <2>7. f = g
        <3>1. g = [n \in 0..L |-> g[n]]
            BY DEF g
        <3> QED BY <2>4, <2>6, <3>1
    <2> QED BY <2>7 DEF g
<1>4. Equation(found)
    <2> HIDE DEF Equation
    <2> QED BY <1>3
<1> HIDE DEF found, L
<1>5. /\ found[0] = <<>>
      /\ \A n \in 1..L : found[n] = Append(found[n - 1], map[ids[n]])
    <2>1. \A n \in 1..L : ids[n] \in DOMAIN map
        BY <1>1
    <2> QED BY <1>1, <1>4, <2>1
<1> DEFINE S == {n \in 0..L : found[n] = upto(n)}
<1>6. 0 \in S
    BY <1>5, <1>1
<1>7. ASSUME NEW n \in 1..L, n - 1 \in S
      PROVE  n \in S
    <2>1. found[n] = Append(upto(n - 1), map[ids[n]])
        BY <1>5, <1>7
    <2>2. upto(n - 1) \in Seq(V) /\ Len(upto(n - 1)) = n - 1
        BY <1>1
    <2>3. Append(upto(n - 1), map[ids[n]]) = upto(n)
        BY <2>2, <1>1
    <2>4. found[n] = upto(n)
        BY <2>1, <2>3
    <2> QED BY <2>4
<1>8. L \in S
    <2> HIDE DEF S
    <2>1. \A n \in 0..L : n \in S
        BY <1>1, <1>6, <1>7, IntervalInduction
    <2> QED BY <2>1, <1>1
<1> QED BY <1>1, <1>2, <1>8 DEF RecordsOf

\* What a reader of a batch's recalls gets: no id is skipped.
LEMMA RecallsRead ==
    IInv => \A b \in BatchId :
                LET ids == unwrap_vec(recall_ids_by_batch, b)
                IN  /\ ids \in Seq(U64)
                    /\ \A i \in DOMAIN ids : ids[i] \in DOMAIN recalls
                    /\ get_recalls_for_batch(b) = RecordsOf(ids, recalls)
<1> SUFFICES ASSUME IInv, NEW b \in BatchId
             PROVE  LET ids == unwrap_vec(recall_ids_by_batch, b)
                    IN  /\ ids \in Seq(U64)
                        /\ \A i \in DOMAIN ids : ids[i] \in DOMAIN recalls
                        /\ get_recalls_for_batch(b) = RecordsOf(ids, recalls)
    OBVIOUS
<1> DEFINE ids == unwrap_vec(recall_ids_by_batch, b)
<1>1. ids \in Seq(U64)
    BY ListType DEF IInv, TypeOK
<1>2. ToSet(ids) \subseteq DOMAIN recalls
    BY DEF IInv, IndexesConsistent, RecallIndex, RecallsOf
<1>3. \A i \in DOMAIN ids : ids[i] \in DOMAIN recalls /\ recalls[ids[i]] \in Recall
    <2> HIDE DEF ids
    <2> QED BY <1>2 DEF IInv, TypeOK, IsMap, ToSet
<1>4. get_recalls_for_batch(b) = RecordsOf(ids, recalls)
    <2> HIDE DEF ids
    <2>1. Records(ids, recalls) = RecordsOf(ids, recalls)
        BY <1>1, <1>3, RecordsOfPresent
    <2> QED BY <2>1 DEF get_recalls_for_batch, ids
<1> QED BY <1>1, <1>3, <1>4

\* A list read through a longer list of ids extends the list read before.
LEMMA ReadsExtend ==
    ASSUME NEW ids \in Seq(U64), NEW longer \in Seq(U64), IsPrefix(ids, longer),
           NEW map, NEW map2,
           \A i \in DOMAIN ids : map2[ids[i]] = map[ids[i]]
    PROVE  IsPrefix(RecordsOf(ids, map), RecordsOf(longer, map2))
<1> DEFINE n == Len(ids)
           s == [i \in DOMAIN ids |-> map[ids[i]]]
           t == [i \in DOMAIN longer |-> map2[longer[i]]]
<1>1. /\ n \in Nat /\ n <= Len(longer) /\ Len(longer) \in Nat
      /\ SubSeq(ids, 1, n) = SubSeq(longer, 1, n)
      /\ DOMAIN ids = 1..n /\ DOMAIN longer = 1..Len(longer)
    BY DEF IsPrefix
<1>2. \A i \in 1..n : ids[i] = longer[i]
    BY <1>1
<1>3. Len(s) = n /\ Len(t) = Len(longer)
    BY <1>1
<1>4. \A i \in 1..n : s[i] = t[i]
    BY <1>1, <1>2
<1>5. SubSeq(s, 1, n) = SubSeq(t, 1, n)
    BY <1>1, <1>3, <1>4
<1> QED BY <1>1, <1>3, <1>5 DEF IsPrefix, RecordsOf

\* The list of a batch's recalls that a reader gets only grows at its end.
THEOREM RecallsAlwaysAppendOnly == Spec => RecallsAppendOnly
<1> DEFINE Ids(b) == unwrap_vec(recall_ids_by_batch, b)
           ReadsAll ==
                \A b \in BatchId :
                    /\ Ids(b) \in Seq(U64)
                    /\ \A i \in DOMAIN Ids(b) : Ids(b)[i] \in DOMAIN recalls
                    /\ get_recalls_for_batch(b) = RecordsOf(Ids(b), recalls)
<1>1. IInv => ReadsAll
    BY RecallsRead
<1>2. ASSUME ReadsAll, ReadsAll', RecallStorageAppendOnly, NEW b \in BatchId
      PROVE  IsPrefix(get_recalls_for_batch(b), get_recalls_for_batch(b)')
    <2>1. IsPrefix(Ids(b), Ids(b)')
        BY <1>2 DEF RecallStorageAppendOnly
    <2>2. \A i \in DOMAIN Ids(b) : recalls'[Ids(b)[i]] = recalls[Ids(b)[i]]
        BY <1>2 DEF RecallStorageAppendOnly
    <2>3. IsPrefix(RecordsOf(Ids(b), recalls), RecordsOf(Ids(b)', recalls'))
        <3>1. Ids(b) \in Seq(U64) /\ Ids(b)' \in Seq(U64)
            BY <1>2
        <3> HIDE DEF Ids
        <3> QED BY <2>1, <2>2, <3>1, ReadsExtend
    <2> QED BY <2>3, <1>2
<1>3. ASSUME ReadsAll, ReadsAll', [RecallStorageAppendOnly]_vars
      PROVE  [\A b \in BatchId :
                IsPrefix(get_recalls_for_batch(b), get_recalls_for_batch(b)')]_vars
    <2> HIDE DEF ReadsAll
    <2> QED BY <1>2, <1>3
<1> QED
    <2> HIDE DEF ReadsAll
    <2> QED BY <1>1, <1>3, Invariant, RecallStorageAlwaysAppendOnly, PTL
            DEF RecallsAppendOnly

-----------------------------------------------------------------------------
(* get_my_recalls *)

\* A round of the loop of get_my_recalls over the recalls of one receipt's batch.
RecallRound(list, receipt) ==
    [n \in 1..Len(list) |->
        [acc \in Seq(Recall) |->
            IF Covers(list[n], receipt) /\ ~Contains(acc, list[n])
            THEN Append(acc, list[n]) ELSE acc]]

\* AddRecallsOf is that loop.
LEMMA AddRecallsLoop ==
    ASSUME NEW receipt, NEW list \in Seq(Recall),
           list = get_recalls_for_batch(receipt.batch_id),
           NEW result \in Seq(Recall)
    PROVE  \E acc : /\ Iterates(acc, Len(list), Seq(Recall), result,
                                RecallRound(list, receipt))
                    /\ AddRecallsOf(result, receipt) = acc[Len(list)]
<1> DEFINE L == Len(list)
           T == Seq(Recall)
           step == RecallRound(list, receipt)
           Body(f) ==
                [n \in 0..L |->
                    IF n = 0 THEN result
                    ELSE IF Covers(list[n], receipt) /\ ~Contains(f[n - 1], list[n])
                         THEN Append(f[n - 1], list[n])
                         ELSE f[n - 1]]
           found == CHOOSE f : f = Body(f)
<1>1. L \in Nat /\ \A n \in 1..L : list[n] \in Recall
    OBVIOUS
<1>2. AddRecallsOf(result, receipt) = found[L]
    BY DEF AddRecallsOf
<1>3. step \in [1..L -> [T -> T]]
    BY <1>1 DEF RecallRound
<1>4. \A n \in 1..L, acc \in T :
        step[n][acc] = IF Covers(list[n], receipt) /\ ~Contains(acc, list[n])
                       THEN Append(acc, list[n]) ELSE acc
    BY DEF RecallRound
<1> HIDE DEF L, T, step
<1>5. \E f : f = Body(f)
    <2>1. PICK f : Iterates(f, L, T, result, step)
        BY <1>1, <1>3, StepByStep DEF T
    <2>2. /\ f \in [0..L -> T] /\ f[0] = result
          /\ \A n \in 1..L : f[n] = step[n][f[n - 1]]
        BY <2>1 DEF Iterates
    <2>3. ASSUME NEW n \in 0..L PROVE f[n] = Body(f)[n]
        <3>1. CASE n = 0
            BY <3>1, <2>2
        <3>2. CASE n \in 1..L
            <4>1. f[n - 1] \in T
                BY <3>2, <2>2, <1>1
            <4> QED BY <4>1, <3>2, <2>2, <1>4
        <3> QED BY <3>1, <3>2, <1>1
    <2> DEFINE g == Body(f)
    <2>4. g = [n \in 0..L |-> g[n]]
        OBVIOUS
    <2>5. f = g
        <3> HIDE DEF g
        <3> QED BY <2>2, <2>3, <2>4 DEF g
    <2> QED BY <2>5
<1>6. found = Body(found)
    <2> HIDE DEF Body
    <2> QED BY <1>5
<1> HIDE DEF found
<1> DEFINE S == {n \in 0..L : found[n] \in T}
<1>7. found[0] = result
    BY <1>1, <1>6
<1>8. ASSUME NEW n \in 1..L, found[n - 1] \in T
      PROVE  found[n] = step[n][found[n - 1]]
    <2>1. found[n] = Body(found)[n]
        <3> HIDE DEF Body
        <3> QED BY <1>6
    <2>2. Body(found)[n] = IF /\ Covers(list[n], receipt)
                              /\ ~Contains(found[n - 1], list[n])
                           THEN Append(found[n - 1], list[n]) ELSE found[n - 1]
        BY <1>1
    <2>3. step[n][found[n - 1]]
            = IF Covers(list[n], receipt) /\ ~Contains(found[n - 1], list[n])
              THEN Append(found[n - 1], list[n]) ELSE found[n - 1]
        BY <1>8, <1>4
    <2> QED BY <2>1, <2>2, <2>3
<1>9. \A n \in 0..L : n \in S
    <2>1. 0 \in S
        BY <1>7, <1>1 DEF T
    <2>2. ASSUME NEW n \in 1..L, n - 1 \in S
          PROVE  n \in S
        BY <2>2, <1>8, <1>3
    <2> HIDE DEF S
    <2> QED BY <2>1, <2>2, <1>1, IntervalInduction
<1>10. Iterates(found, L, T, result, step)
    <2>1. found \in [0..L -> T]
        <3>1. found = [n \in 0..L |-> found[n]]
            BY <1>6
        <3> QED BY <1>9, <3>1
    <2>2. \A n \in 1..L : found[n - 1] \in T
        BY <1>9, <1>1
    <2> QED BY <2>1, <2>2, <1>7, <1>8 DEF Iterates
<1> QED BY <1>2, <1>10 DEF L, T, step

\* The elements of list up to n that cover the receipt's serial.
CoveringUpTo(list, receipt, n) ==
    {list[i] : i \in {j \in 1..n : Covers(list[j], receipt)}}

\* One round adds the n-th recall if it covers the serial, and keeps the result
\* without duplicates.
LEMMA RecallRoundEnumerates ==
    ASSUME NEW receipt, NEW list \in Seq(Recall), NEW n \in 1..Len(list),
           NEW acc \in Seq(Recall), NEW set,
           Enumerates(acc, set \cup CoveringUpTo(list, receipt, n - 1))
    PROVE  Enumerates(RecallRound(list, receipt)[n][acc],
                      set \cup CoveringUpTo(list, receipt, n))
<1> DEFINE r == list[n]
           before == set \cup CoveringUpTo(list, receipt, n - 1)
           after == set \cup CoveringUpTo(list, receipt, n)
<1>1. n \in Nat /\ r \in Recall
    OBVIOUS
<1>2. RecallRound(list, receipt)[n][acc]
        = IF Covers(r, receipt) /\ ~Contains(acc, r) THEN Append(acc, r) ELSE acc
    BY DEF RecallRound
<1>3. CASE ~Covers(r, receipt)
    <2>1. CoveringUpTo(list, receipt, n) = CoveringUpTo(list, receipt, n - 1)
        BY <1>3, <1>1 DEF CoveringUpTo
    <2> QED BY <2>1, <1>2, <1>3
<1>4. CASE Covers(r, receipt)
    <2>1. CoveringUpTo(list, receipt, n)
            = CoveringUpTo(list, receipt, n - 1) \cup {r}
        BY <1>4, <1>1 DEF CoveringUpTo
    <2>2. after = before \cup {r}
        BY <2>1
    <2> HIDE DEF before, after
    <2>3. Contains(acc, r) <=> r \in before
        BY DEF Contains, Enumerates, ToSet, before
    <2>4. CASE Contains(acc, r)
        <3>1. after = before
            BY <2>2, <2>3, <2>4
        <3> QED BY <3>1, <1>2, <2>4 DEF after, before
    <2>5. CASE ~Contains(acc, r)
        <3>1. Enumerates(Append(acc, r), before \cup {r})
            BY <2>3, <2>5, <1>1, AppendEnumerates DEF before
        <3> QED BY <3>1, <2>2, <1>2, <1>4, <2>5 DEF after
    <2> QED BY <2>4, <2>5
<1> QED BY <1>3, <1>4

\* Adding the recalls of one receipt.
LEMMA AddRecallsEnumerates ==
    ASSUME NEW receipt, NEW list \in Seq(Recall),
           list = get_recalls_for_batch(receipt.batch_id),
           NEW result \in Seq(Recall)
    PROVE  /\ AddRecallsOf(result, receipt) \in Seq(Recall)
           /\ \A set : Enumerates(result, set) =>
                Enumerates(AddRecallsOf(result, receipt),
                           set \cup {r \in ToSet(list) : Covers(r, receipt)})
<1> DEFINE L == Len(list)
           step == RecallRound(list, receipt)
<1>1. PICK acc : /\ Iterates(acc, L, Seq(Recall), result, step)
                 /\ AddRecallsOf(result, receipt) = acc[L]
    BY AddRecallsLoop
<1>2. /\ L \in Nat /\ acc[0] = result
      /\ \A n \in 0..L : acc[n] \in Seq(Recall)
      /\ \A n \in 1..L : acc[n] = step[n][acc[n - 1]]
    BY <1>1 DEF Iterates
<1>3. ASSUME NEW set, Enumerates(result, set)
      PROVE  Enumerates(acc[L], set \cup {r \in ToSet(list) : Covers(r, receipt)})
    <2> DEFINE upto(n) == set \cup CoveringUpTo(list, receipt, n)
               S == {n \in 0..L : Enumerates(acc[n], upto(n))}
    <2>1. 0 \in S
        <3>1. upto(0) = set
            BY DEF CoveringUpTo
        <3> HIDE DEF upto
        <3> QED BY <3>1, <1>2, <1>3
    <2>2. ASSUME NEW n \in 1..L, n - 1 \in S
          PROVE  n \in S
        <3>1. acc[n - 1] \in Seq(Recall) /\ Enumerates(acc[n - 1], upto(n - 1))
            BY <2>2, <1>2
        <3>2. Enumerates(step[n][acc[n - 1]], upto(n))
            BY <3>1, RecallRoundEnumerates
        <3> QED BY <3>2, <1>2
    <2>3. Enumerates(acc[L], upto(L))
        <3> HIDE DEF S
        <3>1. \A n \in 0..L : n \in S
            BY <2>1, <2>2, <1>2, IntervalInduction
        <3>2. L \in S
            BY <3>1, <1>2
        <3> HIDE DEF upto
        <3> QED BY <3>2 DEF S
    <2>4. CoveringUpTo(list, receipt, L) = {r \in ToSet(list) : Covers(r, receipt)}
        BY DEF CoveringUpTo, ToSet
    <2> QED BY <2>3, <2>4
<1>4. acc[L] \in Seq(Recall)
    BY <1>2
<1> HIDE DEF L, step
<1> QED BY <1>1, <1>3, <1>4

\* A round of get_my_recalls over the receipts.
ReceiptRound(receipts) ==
    [n \in 1..Len(receipts) |->
        [acc \in Seq(Recall) |-> AddRecallsOf(acc, receipts[n])]]

\* The reads of the receipts' batches are well-typed lists of what the batch has.
LEMMA ReceiptRead ==
    ASSUME IInv, NEW receipt \in OwnershipReceipt
    PROVE  LET list == get_recalls_for_batch(receipt.batch_id)
           IN  /\ list \in Seq(Recall)
               /\ ToSet(list) = {recalls[id] : id \in RecallsOf(receipt.batch_id)}
<1> DEFINE b == receipt.batch_id
           ids == unwrap_vec(recall_ids_by_batch, b)
           list == get_recalls_for_batch(b)
<1>1. b \in BatchId
    BY DEF OwnershipReceipt
<1>2. /\ ids \in Seq(U64) /\ \A i \in DOMAIN ids : ids[i] \in DOMAIN recalls
      /\ list = RecordsOf(ids, recalls)
    BY <1>1, RecallsRead
<1>3. ToSet(ids) = RecallsOf(b)
    BY <1>1 DEF IInv, IndexesConsistent, RecallIndex
<1>4. \A id \in DOMAIN recalls : recalls[id] \in Recall
    BY DEF IInv, TypeOK, IsMap
<1> HIDE DEF b, ids, list
<1>5. list = [i \in 1..Len(ids) |-> recalls[ids[i]]] /\ DOMAIN ids = 1..Len(ids)
    BY <1>2 DEF RecordsOf
<1>6. list \in Seq(Recall)
    BY <1>2, <1>4, <1>5
<1>7. ToSet(list) = {recalls[id] : id \in ToSet(ids)}
    BY <1>5 DEF ToSet
<1> QED BY <1>3, <1>6, <1>7 DEF list, b

\* get_my_recalls is that loop.
LEMMA MyRecallsLoop ==
    ASSUME NEW caller, NEW receipts,
           receipts = unwrap_vec(owner_receipts, caller), Len(receipts) \in Nat,
           \A n \in 1..Len(receipts) : \A acc \in Seq(Recall) :
                AddRecallsOf(acc, receipts[n]) \in Seq(Recall)
    PROVE  \E acc : /\ Iterates(acc, Len(receipts), Seq(Recall), <<>>,
                                ReceiptRound(receipts))
                    /\ get_my_recalls(caller) = acc[Len(receipts)]
<1> DEFINE L == Len(receipts)
           T == Seq(Recall)
           empty == <<>>
           step == ReceiptRound(receipts)
           Body(f) == [n \in 0..L |-> IF n = 0 THEN <<>>
                                      ELSE AddRecallsOf(f[n - 1], receipts[n])]
           found == CHOOSE f : f = Body(f)
<1>1. L \in Nat /\ empty \in T
    OBVIOUS
<1>2. get_my_recalls(caller) = found[L]
    BY DEF get_my_recalls
<1>3. step \in [1..L -> [T -> T]]
    BY <1>1 DEF ReceiptRound
<1>4. \A n \in 1..L, acc \in T : step[n][acc] = AddRecallsOf(acc, receipts[n])
    BY DEF ReceiptRound
<1> HIDE DEF L, T, step
<1>5. \E f : f = Body(f)
    <2>1. PICK f : Iterates(f, L, T, empty, step)
        <3> HIDE DEF empty
        <3> QED BY <1>1, <1>3, StepByStep
    <2>2. /\ f \in [0..L -> T] /\ f[0] = <<>>
          /\ \A n \in 1..L : f[n] = step[n][f[n - 1]]
        BY <2>1 DEF Iterates
    <2>3. ASSUME NEW n \in 0..L PROVE f[n] = Body(f)[n]
        <3>1. CASE n = 0
            BY <3>1, <2>2
        <3>2. CASE n \in 1..L
            <4>1. f[n - 1] \in T
                BY <3>2, <2>2, <1>1
            <4> QED BY <4>1, <3>2, <2>2, <1>4
        <3> QED BY <3>1, <3>2, <1>1
    <2> DEFINE g == Body(f)
    <2>4. g = [n \in 0..L |-> g[n]]
        OBVIOUS
    <2>5. f = g
        <3> HIDE DEF g
        <3> QED BY <2>2, <2>3, <2>4 DEF g
    <2> QED BY <2>5
<1>6. found = Body(found)
    <2> HIDE DEF Body
    <2> QED BY <1>5
<1> HIDE DEF found
<1> DEFINE S == {n \in 0..L : found[n] \in T}
<1>7. found[0] = <<>>
    BY <1>1, <1>6
<1>8. ASSUME NEW n \in 1..L, found[n - 1] \in T
      PROVE  found[n] = step[n][found[n - 1]]
    <2>1. found[n] = Body(found)[n]
        <3> HIDE DEF Body
        <3> QED BY <1>6
    <2>2. Body(found)[n] = AddRecallsOf(found[n - 1], receipts[n])
        BY <1>1
    <2> QED BY <2>1, <2>2, <1>8, <1>4
<1>9. \A n \in 0..L : n \in S
    <2>1. 0 \in S
        BY <1>7, <1>1
    <2>2. ASSUME NEW n \in 1..L, n - 1 \in S
          PROVE  n \in S
        BY <2>2, <1>8, <1>3
    <2> HIDE DEF S
    <2> QED BY <2>1, <2>2, <1>1, IntervalInduction
<1>10. Iterates(found, L, T, <<>>, step)
    <2>1. found \in [0..L -> T]
        <3>1. found = [n \in 0..L |-> found[n]]
            BY <1>6
        <3> QED BY <1>9, <3>1
    <2>2. \A n \in 1..L : found[n - 1] \in T
        BY <1>9, <1>1
    <2> QED BY <2>1, <2>2, <1>7, <1>8 DEF Iterates
<1> QED BY <1>2, <1>10 DEF L, T, step

\* The recalls that cover a receipt.
CoveringOf(receipt) ==
    {r \in {recalls[id] : id \in RecallsOf(receipt.batch_id)} : Covers(r, receipt)}

\* get_my_recalls returns each recall that covers one of the receipts, once.
LEMMA MyRecallsEnumerate ==
    ASSUME IInv, NEW a, NEW receipts \in Seq(OwnershipReceipt),
           receipts = unwrap_vec(owner_receipts, a)
    PROVE  Enumerates(get_my_recalls(a),
                      UNION {CoveringOf(receipts[i]) : i \in DOMAIN receipts})
<1> DEFINE L == Len(receipts)
           step == ReceiptRound(receipts)
           upto(n) == UNION {CoveringOf(receipts[i]) : i \in 1..n}
<1>1. /\ L \in Nat /\ DOMAIN receipts = 1..L
      /\ \A n \in 1..L : receipts[n] \in OwnershipReceipt
    OBVIOUS
<1>2. ASSUME NEW n \in 1..L, NEW acc \in Seq(Recall)
      PROVE  /\ AddRecallsOf(acc, receipts[n]) \in Seq(Recall)
             /\ \A set : Enumerates(acc, set) =>
                    Enumerates(AddRecallsOf(acc, receipts[n]),
                               set \cup CoveringOf(receipts[n]))
    <2> DEFINE receipt == receipts[n]
               list == get_recalls_for_batch(receipt.batch_id)
    <2>1. receipt \in OwnershipReceipt
        BY <1>1
    <2> HIDE DEF receipt
    <2>2. /\ list \in Seq(Recall)
          /\ ToSet(list) = {recalls[id] : id \in RecallsOf(receipt.batch_id)}
        BY <2>1, ReceiptRead
    <2>3. {r \in ToSet(list) : Covers(r, receipt)} = CoveringOf(receipt)
        BY <2>2 DEF CoveringOf
    <2>4. /\ AddRecallsOf(acc, receipt) \in Seq(Recall)
          /\ \A set : Enumerates(acc, set) =>
                Enumerates(AddRecallsOf(acc, receipt),
                           set \cup {r \in ToSet(list) : Covers(r, receipt)})
        BY <2>2, AddRecallsEnumerates
    <2> QED BY <2>3, <2>4 DEF receipt
<1>3. PICK acc : /\ Iterates(acc, L, Seq(Recall), <<>>, step)
                 /\ get_my_recalls(a) = acc[L]
    BY <1>1, <1>2, MyRecallsLoop
<1>4. /\ acc[0] = <<>> /\ \A n \in 0..L : acc[n] \in Seq(Recall)
      /\ \A n \in 1..L : acc[n] = step[n][acc[n - 1]]
    BY <1>3 DEF Iterates
<1> DEFINE S == {n \in 0..L : Enumerates(acc[n], upto(n))}
<1>5. 0 \in S
    <2>1. upto(0) = {}
        OBVIOUS
    <2>2. Enumerates(<<>>, {})
        BY DEF Enumerates, ToSet, IsOneToOne
    <2>3. Enumerates(acc[0], upto(0))
        BY <2>1, <2>2, <1>4
    <2> HIDE DEF upto
    <2> QED BY <2>3, <1>1
<1>6. ASSUME NEW n \in 1..L, n - 1 \in S
      PROVE  n \in S
    <2>1. acc[n - 1] \in Seq(Recall) /\ Enumerates(acc[n - 1], upto(n - 1))
        BY <1>6, <1>4, <1>1
    <2>2. acc[n] = AddRecallsOf(acc[n - 1], receipts[n])
        BY <2>1, <1>4 DEF ReceiptRound
    <2>3. upto(n) = upto(n - 1) \cup CoveringOf(receipts[n])
        <3>1. 1..n = 1..(n - 1) \cup {n}
            BY <1>1
        <3> QED BY <3>1
    <2> HIDE DEF upto
    <2>4. Enumerates(acc[n], upto(n))
        BY <2>1, <2>2, <2>3, <1>2
    <2> QED BY <2>4, <1>1
<1>7. Enumerates(acc[L], upto(L))
    <2> HIDE DEF S
    <2>1. \A n \in 0..L : n \in S
        BY <1>1, <1>5, <1>6, IntervalInduction
    <2>2. L \in S
        BY <2>1, <1>1
    <2> HIDE DEF upto
    <2> QED BY <2>2 DEF S
<1> QED BY <1>1, <1>3, <1>7

\* What get_my_recalls returns is exact: every recall that covers a serial the
\* caller has a receipt for, once, and no other, whenever receipt and recall came
\* (contract.rs get_my_recalls).
THEOREM MyRecallsAlwaysExact == Spec => []MyRecallsExact
<1>1. ASSUME IInv, NEW a \in Address
      PROVE  LET receipts == ToSet(unwrap_vec(owner_receipts, a))
                 covering == {id \in DOMAIN recalls :
                                \E r \in receipts :
                                    /\ r.batch_id = recalls[id].batch_id
                                    /\ r.serial_number
                                        \in recalls[id].affected_serial_start
                                             ..recalls[id].affected_serial_end}
             IN  Enumerates(get_my_recalls(a), {recalls[id] : id \in covering})
    <2> DEFINE receipts == unwrap_vec(owner_receipts, a)
               covers(id, r) ==
                    /\ r.batch_id = recalls[id].batch_id
                    /\ r.serial_number \in recalls[id].affected_serial_start
                                            ..recalls[id].affected_serial_end
               covering == {id \in DOMAIN recalls :
                                \E r \in ToSet(receipts) : covers(id, r)}
               found == UNION {CoveringOf(receipts[i]) : i \in DOMAIN receipts}
    <2>1. receipts \in Seq(OwnershipReceipt)
        BY <1>1, ListType DEF IInv, TypeOK
    <2>2. \A r \in ToSet(receipts) : r \in OwnershipReceipt
        <3> HIDE DEF receipts
        <3> QED BY <2>1 DEF ToSet
    <2>3. \A id \in DOMAIN recalls : recalls[id] \in Recall
        BY <1>1 DEF IInv, TypeOK, IsMap
    <2>4. Enumerates(get_my_recalls(a), found)
        <3> HIDE DEF receipts
        <3>1. receipts = unwrap_vec(owner_receipts, a)
            BY DEF receipts
        <3> QED BY <1>1, <2>1, <3>1, MyRecallsEnumerate
    <2> HIDE DEF receipts
    <2>5. ASSUME NEW id \in DOMAIN recalls, NEW r \in ToSet(receipts)
          PROVE  covers(id, r) <=>
                    r.batch_id = recalls[id].batch_id /\ Covers(recalls[id], r)
        <3>1. /\ r.serial_number \in Int
              /\ recalls[id].affected_serial_start \in Int
              /\ recalls[id].affected_serial_end \in Int
            BY <2>2, <2>3, ConstantsAssumption DEF OwnershipReceipt, Recall, U64
        <3> QED BY <3>1 DEF Covers, serial_in_range
    <2>6. \A r \in ToSet(receipts) :
            CoveringOf(r) = {recalls[id] : id \in {i \in DOMAIN recalls : covers(i, r)}}
        BY <2>5 DEF CoveringOf, RecallsOf
    <2>7. found = UNION {CoveringOf(r) : r \in ToSet(receipts)}
        BY DEF ToSet
    <2> HIDE DEF covers, found
    <2>8. found = {recalls[id] : id \in covering}
        BY <2>6, <2>7
    <2> QED BY <2>4, <2>8 DEF covers, receipts
<1>2. IInv => MyRecallsExact
    BY <1>1 DEF MyRecallsExact
<1> QED BY <1>2, Invariant, PTL

=============================================================================
