---------------------------- MODULE IndexerProofs ----------------------------
(***************************************************************************)
(* Theorems about the chain indexer, for any accounts, owners and batches, *)
(* any start ledger, limit of a page and retention of the node, and any    *)
(* numbers of events, faults and crashes.                                  *)
(***************************************************************************)
EXTENDS IndexerRefinement, SequenceTheorems, FiniteSetTheorems, TLAPS

\* A set of positions with all that come before them is an initial stretch.
LEMMA InitialStretch ==
    ASSUME NEW N \in Nat, NEW S \in SUBSET (1..N),
           \A i \in S : \A j \in 1..i : j \in S
    PROVE  Cardinality(S) \in 0..N /\ S = 1..Cardinality(S)
<1>1. /\ IsFiniteSet(1..N) /\ Cardinality(1..N) = N
    BY FS_Interval
<1>2. /\ IsFiniteSet(S) /\ Cardinality(S) <= N
    <2>1. S \in SUBSET (1..N)
        OBVIOUS
    <2>2. IsFiniteSet(S) /\ Cardinality(S) <= Cardinality(1..N)
        BY <2>1, <1>1, FS_Subset
    <2> QED BY <2>2, <1>1
<1>3. Cardinality(S) \in Nat
    BY <1>2, FS_CardinalityType
<1> DEFINE n == Cardinality(S)
<1>4. S \subseteq 1..n
    <2> SUFFICES ASSUME NEW i \in S
                 PROVE  i <= n
        OBVIOUS
    <2>1. 1..i \subseteq S /\ i \in Nat
        OBVIOUS
    <2>2. Cardinality(1..i) <= n
        BY <2>1, <1>2, FS_Subset
    <2>3. Cardinality(1..i) = i
        BY <2>1, FS_Interval
    <2> QED BY <2>2, <2>3
<1>5. IsFiniteSet(1..n) /\ Cardinality(1..n) = n
    BY <1>3, FS_Interval
<1>6. S = 1..n
    BY <1>4, <1>5, FS_Subset
<1> QED BY <1>2, <1>3, <1>6

\* What a published event is.
LEMMA PublishedFacts ==
    ASSUME NEW t, NEW e
    PROVE  e \in Published(t) <=>
                \E i \in DOMAIN chain : chain[i].event = e /\ e.type = t
BY DEF Published

\* The fields of an event by its type.
LEMMA EventFacts ==
    ASSUME NEW e \in Event
    PROVE  /\ e.type \in {"ManufacturerRegistered", "BatchRegistered", "RecallIssued",
                          "OwnershipRegistered"}
           /\ e.type = "ManufacturerRegistered" =>
                e \in [type : {"ManufacturerRegistered"}, manufacturer : Account,
                       manufacturerId : Nat \ {0}]
           /\ e.type = "BatchRegistered" =>
                e \in [type : {"BatchRegistered"}, manufacturer : Account, batchId : BatchId]
           /\ e.type = "RecallIssued" =>
                e \in [type : {"RecallIssued"}, batchId : BatchId, recallId : Nat \ {0}]
           /\ e.type = "OwnershipRegistered" =>
                e \in [type : {"OwnershipRegistered"}, owner : Owner, batchId : BatchId]
BY DEF Event

\* The entries of the chain.
LEMMA ChainFacts ==
    ASSUME ChainOK
    PROVE  /\ Len(chain) \in Nat /\ DOMAIN chain = 1..Len(chain)
           /\ \A i \in DOMAIN chain :
                /\ chain[i] \in Entry
                /\ chain[i].event \in Event
                /\ chain[i].ledger \in Nat /\ chain[i].ledger \in 1..MaxLedger
<1>1. chain \in Seq(Entry)
    BY DEF ChainOK
<1>2. /\ Len(chain) \in Nat /\ DOMAIN chain = 1..Len(chain)
      /\ chain \in [1..Len(chain) -> Entry]
    BY <1>1, LenProperties
<1>3. \A i \in DOMAIN chain : chain[i] \in Entry
    BY <1>2
<1>4. \A i \in DOMAIN chain : chain[i].event \in Event /\ chain[i].ledger \in 1..MaxLedger
    BY <1>3 DEF Entry
<1>5. \A i \in DOMAIN chain : chain[i].ledger \in Nat
    BY <1>4, ConstantsAssumption
<1> QED BY <1>2, <1>3, <1>4, <1>5

\* The events up to a ledger are an initial stretch of the chain.
LEMMA EventsUpToFacts ==
    ASSUME ChainOK, NEW ledger \in Int
    PROVE  /\ Cardinality(EventsUpTo(ledger)) \in 0..Len(chain)
           /\ EventsUpTo(ledger) = 1..Cardinality(EventsUpTo(ledger))
<1>1. Len(chain) \in Nat /\ DOMAIN chain = 1..Len(chain)
    BY ChainFacts
<1>2. \A i, j \in DOMAIN chain : i <= j => chain[i].ledger <= chain[j].ledger
    BY DEF ChainOK
<1>3. \A i \in DOMAIN chain : chain[i].ledger \in Int
    BY ChainFacts
<1>4. ASSUME NEW i \in EventsUpTo(ledger), NEW j \in 1..i
      PROVE  j \in EventsUpTo(ledger)
    <2>1. i \in DOMAIN chain /\ j \in DOMAIN chain /\ j <= i /\ chain[i].ledger <= ledger
        BY <1>1 DEF EventsUpTo
    <2> QED BY <2>1, <1>2, <1>3 DEF EventsUpTo
<1>5. EventsUpTo(ledger) \in SUBSET (1..Len(chain))
    BY <1>1 DEF EventsUpTo
<1> QED BY <1>1, <1>4, <1>5, InitialStretch

-----------------------------------------------------------------------------
(* What is accounted for stays accounted for *)

\* The chain goes on, the tables and the losses grow.
Grows ==
    /\ DOMAIN chain \subseteq DOMAIN chain'
    /\ \A i \in DOMAIN chain : chain'[i] = chain[i]
    /\ manufacturers \subseteq manufacturers'
    /\ DOMAIN batches \subseteq DOMAIN batches'
    /\ DOMAIN recalls \subseteq DOMAIN recalls'
    /\ receipts \subseteq receipts'
    /\ lost \subseteq lost'

LEMMA AccountedForStays ==
    ASSUME Grows, lost \subseteq DOMAIN chain, NEW i, AccountedFor(i)
    PROVE  AccountedFor(i)'
<1>1. i \in DOMAIN chain /\ i \in DOMAIN chain' /\ chain'[i] = chain[i]
    BY DEF AccountedFor, Grows
<1>2. CASE Mirrored(chain[i].event)
    <2>1. Mirrored(chain[i].event)'
        BY <1>1, <1>2 DEF Mirrored, Grows
    <2> QED BY <2>1, <1>1 DEF AccountedFor
<1>3. CASE \E j \in lost : DependsOn(chain[i].event, chain[j].event)
    <2>1. PICK j \in lost : DependsOn(chain[i].event, chain[j].event)
        BY <1>3
    <2>2. j \in lost' /\ chain'[j] = chain[j]
        BY DEF Grows
    <2>3. BatchEvents \subseteq BatchEvents'
        <3> SUFFICES ASSUME NEW b \in BatchEvents PROVE b \in BatchEvents'
            OBVIOUS
        <3>1. PICK k \in DOMAIN chain : chain[k].event = b /\ b.type = "BatchRegistered"
            BY PublishedFacts DEF BatchEvents
        <3> QED BY <3>1 DEF BatchEvents, Published, Grows
    <2>4. DependsOn(chain[i].event, chain[j].event)'
        BY <1>1, <2>1, <2>2, <2>3 DEF DependsOn
    <2> QED BY <2>2, <2>4, <1>1 DEF AccountedFor
<1> QED BY <1>2, <1>3 DEF AccountedFor

-----------------------------------------------------------------------------
(* The chain *)

\* One of a set is in it.
LEMMA SomeFacts ==
    ASSUME NEW S
    PROVE  Some(S) \subseteq S
<1>1. CASE S = {}
    BY <1>1 DEF Some
<1>2. CASE S # {}
    <2>1. (CHOOSE x \in S : TRUE) \in S
        BY <1>2
    <2> QED BY <2>1, <1>2 DEF Some
<1> QED BY <1>1, <1>2

\* A new event keeps the order of the chain, has a subject of its own and comes after the
\* one it is about.
LEMMA PossibleFacts ==
    ASSUME ChainOK, CountersOK, NEW e \in PossibleEvents
    PROVE  /\ e \in Event
           /\ \A i \in DOMAIN chain : ~SameSubject(e, chain[i].event)
           /\ e.type \in {"BatchRegistered", "RecallIssued"} =>
                \E j \in DOMAIN chain : Announces(chain[j].event, e)
           /\ e.type = "ManufacturerRegistered" =>
                /\ e.manufacturer \notin Accounts
                /\ e.manufacturerId = Cardinality(Accounts) + 1
           /\ e.type = "RecallIssued" => e.recallId = Cardinality(Published("RecallIssued")) + 1
           /\ e.type = "OwnershipRegistered" => \E f \in BatchEvents : f.batchId = e.batchId
<1>1. /\ Cardinality(Accounts) \in Nat
      /\ Cardinality(Published("RecallIssued")) \in Nat
    BY FS_CardinalityType DEF CountersOK
<1>2. \A i \in DOMAIN chain : chain[i].event \in Event
    BY ChainFacts
<1>3. CASE e \in NewManufacturers
    <2>1. PICK m \in Account \ Accounts :
            e = [type |-> "ManufacturerRegistered", manufacturer |-> m,
                 manufacturerId |-> Cardinality(Accounts) + 1]
        BY <1>3, SomeFacts DEF NewManufacturers
    <2>2. /\ e.type = "ManufacturerRegistered" /\ e.manufacturer = m
          /\ e.manufacturerId = Cardinality(Accounts) + 1 /\ e \in Event
        BY <2>1, <1>1 DEF Event
    <2>3. ASSUME NEW i \in DOMAIN chain, chain[i].event.type = "ManufacturerRegistered"
          PROVE  /\ chain[i].event.manufacturer # m
                 /\ chain[i].event.manufacturerId # Cardinality(Accounts) + 1
        <3>1. chain[i].event \in Published("ManufacturerRegistered")
            BY <2>3 DEF Published
        <3>2. chain[i].event.manufacturer \in Accounts
            BY <3>1 DEF Accounts
        <3>3. chain[i].event.manufacturerId <= Cardinality(Accounts)
            BY <3>1 DEF CountersOK
        <3>4. chain[i].event.manufacturerId \in Nat
            BY <2>3, <1>2, EventFacts
        <3> QED BY <3>2, <3>3, <3>4, <1>1
    <2> QED BY <2>1, <2>2, <2>3 DEF SameSubject
<1>4. CASE e \in NewBatches
    <2>1. PICK m \in Accounts, b \in BatchId \ {f.batchId : f \in BatchEvents} :
            e = [type |-> "BatchRegistered", manufacturer |-> m, batchId |-> b]
        <3> DEFINE S == BatchId \ {f.batchId : f \in BatchEvents}
        <3>1. PICK m \in Accounts, b \in Some(S) :
                e = [type |-> "BatchRegistered", manufacturer |-> m, batchId |-> b]
            BY <1>4 DEF NewBatches
        <3>2. b \in S
            BY SomeFacts
        <3> QED BY <3>1, <3>2
    <2>2. PICK j \in DOMAIN chain : /\ chain[j].event.type = "ManufacturerRegistered"
                                    /\ chain[j].event.manufacturer = m
        BY <2>1 DEF Accounts, Published
    <2>3. m \in Account
        BY <2>2, <1>2, EventFacts
    <2>4. /\ e.type = "BatchRegistered" /\ e.manufacturer = m /\ e.batchId = b
          /\ e \in Event
        BY <2>1, <2>3 DEF Event
    <2>5. \A i \in DOMAIN chain : chain[i].event.type = "BatchRegistered" =>
            chain[i].event.batchId # b
        BY <2>1 DEF BatchEvents, Published
    <2> QED BY <2>2, <2>4, <2>5 DEF SameSubject, Announces
<1>5. CASE e \in NewRecalls
    <2>1. PICK f \in BatchEvents :
            e = [type |-> "RecallIssued", batchId |-> f.batchId,
                 recallId |-> Cardinality(Published("RecallIssued")) + 1]
        BY <1>5 DEF NewRecalls
    <2>2. PICK j \in DOMAIN chain : chain[j].event = f /\ f.type = "BatchRegistered"
        BY <2>1, PublishedFacts DEF BatchEvents
    <2>3. f.batchId \in BatchId
        BY <2>2, <1>2, EventFacts
    <2>4. /\ e.type = "RecallIssued" /\ e.batchId = f.batchId
          /\ e.recallId = Cardinality(Published("RecallIssued")) + 1 /\ e \in Event
        BY <2>1, <2>3, <1>1 DEF Event
    <2>5. ASSUME NEW i \in DOMAIN chain, chain[i].event.type = "RecallIssued"
          PROVE  chain[i].event.recallId # Cardinality(Published("RecallIssued")) + 1
        <3>1. chain[i].event \in Published("RecallIssued")
            BY <2>5 DEF Published
        <3>2. chain[i].event.recallId <= Cardinality(Published("RecallIssued"))
            BY <3>1 DEF CountersOK
        <3>3. chain[i].event.recallId \in Nat
            BY <2>5, <1>2, EventFacts
        <3> QED BY <3>2, <3>3, <1>1
    <2> QED BY <2>2, <2>4, <2>5 DEF SameSubject, Announces
<1>6. CASE e \in NewReceipts
    <2>1. PICK o \in Owner, f \in BatchEvents :
            /\ e = [type |-> "OwnershipRegistered", owner |-> o, batchId |-> f.batchId]
            /\ e \notin Published("OwnershipRegistered")
        BY <1>6 DEF NewReceipts
    <2>2. PICK j \in DOMAIN chain : chain[j].event = f /\ f.type = "BatchRegistered"
        BY <2>1, PublishedFacts DEF BatchEvents
    <2>3. f.batchId \in BatchId
        BY <2>2, <1>2, EventFacts
    <2>4. e.type = "OwnershipRegistered" /\ e.batchId = f.batchId /\ e \in Event
        BY <2>1, <2>3 DEF Event
    <2>5. \A i \in DOMAIN chain : chain[i].event # e
        BY <2>1, <2>4, PublishedFacts
    <2> QED BY <2>1, <2>4, <2>5 DEF SameSubject
<1> QED BY <1>3, <1>4, <1>5, <1>6 DEF PossibleEvents

\* The numbers a poll compares.
LEMMA PollFacts ==
    ASSUME IInv
    PROVE  /\ latest \in Nat /\ cursor \in Nat /\ nextCursor \in Nat
           /\ savedCursor \in Nat \cup {None} /\ START_LEDGER \in Nat
           /\ Len(page) \in Nat /\ DOMAIN page = 1..Len(page)
           /\ \A k \in DOMAIN page : page[k] \in Entry /\ page[k].ledger \in Nat
           /\ pc = "handleEvent" =>
                /\ Len(page) \in 1..Len(page) /\ 1 \in 1..Len(page)
                /\ Head(page) = page[1] /\ Last(page) = page[Len(page)]
<1>1. TypeOK /\ page \in Seq(Entry)
    BY DEF IInv, MirrorSound, PollOK
<1>2. START_LEDGER \in Nat /\ MaxLedger \in Nat
    BY ConstantsAssumption
<1>3. LedgerNumber \subseteq Nat
    BY <1>2 DEF LedgerNumber
<1>4. latest \in Nat
    BY <1>1, <1>2 DEF TypeOK
<1>5. cursor \in Nat /\ nextCursor \in Nat /\ savedCursor \in Nat \cup {None}
    BY <1>1, <1>3 DEF TypeOK
<1>6. /\ Len(page) \in Nat /\ DOMAIN page = 1..Len(page)
      /\ \A k \in DOMAIN page : page[k] \in Entry
    BY <1>1, LenProperties
<1>7. \A k \in DOMAIN page : page[k].ledger \in Nat
    <2> SUFFICES ASSUME NEW k \in DOMAIN page PROVE page[k].ledger \in Nat
        OBVIOUS
    <2>1. page[k].ledger \in 1..MaxLedger
        BY <1>6 DEF Entry
    <2> QED BY <2>1, <1>2
<1>8. pc = "handleEvent" => page # <<>>
    BY <1>1 DEF TypeOK
<1>9. page # <<>> => Len(page) >= 1 /\ Head(page) = page[1] /\ Last(page) = page[Len(page)]
    BY <1>1, <1>6 DEF Last
<1> QED BY <1>2, <1>4, <1>5, <1>6, <1>7, <1>8, <1>9

\* What a poll knows of the events up to its cursors, new ones in later ledgers leave so.
LEMMA PollStays ==
    ASSUME IInv, Grows, latest' \in Nat, latest <= latest', Len(chain) <= Len(chain'),
           Len(chain') \in Nat,
           \A i \in DOMAIN chain' \ DOMAIN chain : chain'[i].ledger = latest + 1,
           UNCHANGED <<savedCursor, process>>
    PROVE  /\ PollOK'
           /\ savedCursor' # None =>
                AccountedUpTo(savedCursor)' /\ AccountedUpTo(START_LEDGER)'
<1>1. UNCHANGED <<savedCursor, pc, cursor, page, nextCursor>>
    BY DEF process
<1>2. /\ latest \in Nat /\ cursor \in Nat /\ nextCursor \in Nat
      /\ savedCursor \in Nat \cup {None} /\ START_LEDGER \in Nat /\ Len(page) \in Nat
    BY PollFacts
<1>3. /\ lost \subseteq DOMAIN chain /\ PollOK /\ ChainOK
      /\ savedCursor # None => AccountedUpTo(savedCursor) /\ AccountedUpTo(START_LEDGER)
    BY DEF IInv
<1>4. Len(chain) \in Nat
    BY <1>3, ChainFacts
<1>5. \A i : AccountedFor(i) => AccountedFor(i)'
    BY <1>3, AccountedForStays
<1>6. ASSUME NEW L \in Nat, L <= latest, NEW i \in EventsUpTo(L)'
      PROVE  i \in EventsUpTo(L)
    <2>1. i \in DOMAIN chain' /\ chain'[i].ledger <= L
        BY <1>6 DEF EventsUpTo
    <2>2. i \in DOMAIN chain
        BY <2>1, <1>2, <1>6
    <2> QED BY <2>1, <2>2 DEF EventsUpTo, Grows
<1>7. \A L \in Nat : AccountedUpTo(L) => AccountedUpTo(L)'
    <2> SUFFICES ASSUME NEW L \in Nat, AccountedUpTo(L)
                 PROVE  AccountedUpTo(L)'
        OBVIOUS
    <2>1. L <= latest /\ L <= latest'
        BY <1>2 DEF AccountedUpTo
    <2> QED BY <2>1, <1>5, <1>6 DEF AccountedUpTo
<1>8. ASSUME pc = "handleEvent", NEW n \in 0..Len(chain), PageFollows(n)
      PROVE  PageFollows(n)' /\ n \in 0..Len(chain')
    <2>1. /\ n + Len(page) <= Len(chain) /\ \A k \in DOMAIN page : page[k] = chain[n + k]
          /\ \A i \in 1..n : AccountedFor(i)
          /\ \A i \in EventsUpTo(Last(page).ledger) : i > n + Len(page) => AccountedFor(i)
        BY <1>8 DEF PageFollows
    <2>2. n + Len(page) <= Len(chain') /\ n \in 0..Len(chain')
        BY <2>1, <1>2, <1>4
    <2>3. \A k \in DOMAIN page : page[k] = chain'[n + k]
        <3> SUFFICES ASSUME NEW k \in DOMAIN page PROVE page[k] = chain'[n + k]
            OBVIOUS
        <3>1. n + k \in DOMAIN chain
            BY <2>1, <1>2, <1>3, <1>4, ChainFacts, PollFacts
        <3> QED BY <3>1, <2>1 DEF Grows
    <2>4. /\ Last(page).ledger \in Nat /\ Last(page).ledger <= latest
        BY <1>3, <1>8, PollFacts DEF PollOK
    <2>5. \A i \in EventsUpTo(Last(page).ledger)' : i \in EventsUpTo(Last(page).ledger)
        <3> DEFINE L == Last(page).ledger
        <3>1. Last(page)' = Last(page)
            BY <1>1 DEF Last
        <3>2. \A i : i \in EventsUpTo(L)' <=> i \in DOMAIN chain' /\ chain'[i].ledger <= L
            BY <3>1 DEF EventsUpTo
        <3>3. \A i \in DOMAIN chain' : chain'[i].ledger <= L => i \in DOMAIN chain
            BY <2>4, <1>2
        <3> QED BY <3>2, <3>3 DEF EventsUpTo, Grows
    <2> QED BY <2>1, <2>2, <2>3, <2>5, <1>1, <1>5 DEF PageFollows
<1>9. PollOK'
    <2>1. pc' = "getEvents" /\ savedCursor' # None => AccountedUpTo(cursor)'
        <3>1. AccountedUpTo(cursor) => \A i \in DOMAIN chain' :
                chain'[i].ledger <= cursor => AccountedFor(i)'
            BY <1>2, <1>7 DEF AccountedUpTo, EventsUpTo
        <3>2. AccountedUpTo(cursor) => cursor <= latest'
            BY <1>2 DEF AccountedUpTo
        <3> QED BY <3>1, <3>2, <1>1, <1>3 DEF PollOK, AccountedUpTo, EventsUpTo
    <2>2. pc' = "writeCursor" => AccountedUpTo(nextCursor)'
        <3>1. AccountedUpTo(nextCursor) => \A i \in DOMAIN chain' :
                chain'[i].ledger <= nextCursor => AccountedFor(i)'
            BY <1>2, <1>7 DEF AccountedUpTo, EventsUpTo
        <3>2. AccountedUpTo(nextCursor) => nextCursor <= latest'
            BY <1>2 DEF AccountedUpTo
        <3> QED BY <3>1, <3>2, <1>1, <1>3 DEF PollOK, AccountedUpTo, EventsUpTo
    <2>3. pc' = "handleEvent" =>
            /\ \E n \in 0..Len(chain') : PageFollows(n)'
            /\ cursor' <= nextCursor' /\ nextCursor' <= Head(page').ledger
            /\ Last(page').ledger <= latest'
        <3>1. Last(page') = Last(page) /\ Head(page') = Head(page)
            BY <1>1 DEF Last
        <3>2. pc = "handleEvent" => Last(page).ledger \in Nat /\ Last(page).ledger <= latest
            BY <1>3, PollFacts DEF PollOK
        <3> QED BY <3>1, <3>2, <1>1, <1>2, <1>3, <1>8 DEF PollOK
    <2> QED BY <2>1, <2>2, <2>3, <1>1, <1>3 DEF PollOK
<1>10. savedCursor' # None => AccountedUpTo(savedCursor)' /\ AccountedUpTo(START_LEDGER)'
    <2>1. savedCursor \in Nat /\ AccountedUpTo(savedCursor) => \A i \in DOMAIN chain' :
            chain'[i].ledger <= savedCursor => AccountedFor(i)'
        BY <1>7 DEF AccountedUpTo, EventsUpTo
    <2>2. savedCursor \in Nat /\ AccountedUpTo(savedCursor) => savedCursor <= latest'
        BY <1>2 DEF AccountedUpTo
    <2> QED BY <2>1, <2>2, <1>1, <1>2, <1>3, <1>7 DEF AccountedUpTo, EventsUpTo
<1> QED BY <1>9, <1>10

\* A step of the chain leaves the tables as they are, and the rows have their events still.
LEMMA TablesStay ==
    ASSUME IInv, Grows, ChainOK', latest' \in 0..MaxLedger, Len(chain') <= MaxEvents,
           UNCHANGED <<tables, savedCursor, process, lost>>
    PROVE  MirrorSound' /\ lost' \subseteq DOMAIN chain' /\ RowsHaveCause'
<1>1. UNCHANGED <<manufacturers, batches, recalls, receipts, savedCursor, pc, cursor, page,
                  nextCursor, lost>>
    BY DEF tables, process
<1>2. /\ MirrorSound /\ TypeOK /\ ConstraintsHold /\ lost \subseteq DOMAIN chain
      /\ RowsHaveCause
    BY DEF IInv, MirrorSound
<1>3. TypeOK'
    BY <1>1, <1>2 DEF TypeOK
<1>4. ConstraintsHold'
    BY <1>1, <1>2 DEF ConstraintsHold, RowsOf
<1>5. \A t : Published(t) \subseteq Published(t)'
    BY DEF Published, Grows
<1>6. BatchEvents \subseteq BatchEvents'
    BY <1>5 DEF BatchEvents
<1>7. \A b : RowsOf(batches[b])' = RowsOf(batches[b])
    BY <1>1 DEF RowsOf
<1>8. MirrorSound'
    BY <1>1, <1>2, <1>3, <1>4, <1>5, <1>6, <1>7 DEF MirrorSound
<1>9. lost' \subseteq DOMAIN chain'
    BY <1>1, <1>2 DEF Grows
<1>10. RowsHaveCause'
    BY <1>1, <1>2 DEF RowsHaveCause, Grows
<1> QED BY <1>8, <1>9, <1>10

LEMMA CloseLedgerKeeps ==
    ASSUME IInv, CloseLedger \/ UNCHANGED vars
    PROVE  IInv'
<1>1. /\ chain' = chain /\ latest' \in {latest, latest + 1}
      /\ latest' = latest + 1 => latest < MaxLedger
      /\ UNCHANGED <<tables, savedCursor, process, lost>>
    BY PollFacts DEF CloseLedger, vars, chainVars
<1>2. UNCHANGED <<manufacturers, batches, recalls, receipts>>
    BY <1>1 DEF tables
<1>3. MirrorSound /\ TypeOK /\ ChainOK /\ CountersOK
    BY DEF IInv, MirrorSound
<1>4. /\ latest \in Nat /\ latest \in 0..MaxLedger /\ Len(chain) <= MaxEvents
      /\ MaxLedger \in Nat
    BY <1>3, ConstantsAssumption, PollFacts DEF TypeOK
<1>5. latest' \in Nat /\ latest <= latest' /\ latest' \in 0..MaxLedger
    BY <1>1, <1>4
<1>6. Grows
    BY <1>1, <1>2 DEF Grows
<1>7. ChainOK'
    <2>1. \A i \in DOMAIN chain : chain[i].ledger <= latest' + 1
        BY <1>3, <1>4, <1>5, ChainFacts DEF ChainOK
    <2> QED BY <2>1, <1>1, <1>3 DEF ChainOK
<1>8. CountersOK'
    BY <1>1, <1>3 DEF CountersOK, Accounts, Published
<1>9. Len(chain) \in Nat /\ Len(chain') = Len(chain)
    BY <1>1, <1>3, ChainFacts
<1>10. MirrorSound' /\ lost' \subseteq DOMAIN chain' /\ RowsHaveCause'
    BY <1>1, <1>4, <1>5, <1>6, <1>7, TablesStay
<1>11. /\ PollOK'
       /\ savedCursor' # None =>
            AccountedUpTo(savedCursor)' /\ AccountedUpTo(START_LEDGER)'
    BY <1>1, <1>5, <1>6, <1>9, PollStays
<1> QED BY <1>7, <1>8, <1>10, <1>11 DEF IInv

\* What is published: an event more, of its type.
LEMMA PublishedGrows ==
    ASSUME ChainOK, NEW e, NEW l, chain' = Append(chain, [ledger |-> l, event |-> e]), NEW t
    PROVE  Published(t)' = IF e.type = t THEN Published(t) \cup {e} ELSE Published(t)
<1> DEFINE n == Len(chain)
<1>1. n \in Nat /\ DOMAIN chain = 1..n
    BY ChainFacts
<1>2. /\ DOMAIN chain' = 1..(n + 1) /\ chain'[n + 1].event = e
      /\ \A i \in 1..n : chain'[i] = chain[i]
    BY <1>1
<1>3. \A i : i \in 1..(n + 1) <=> i \in 1..n \/ i = n + 1
    BY <1>1
<1> HIDE DEF n
<1> SUFFICES ASSUME NEW f
             PROVE  f \in Published(t)' <=> f \in Published(t) \/ (f = e /\ e.type = t)
    OBVIOUS
<1>4. f \in Published(t)' <=> \E i \in DOMAIN chain' : chain'[i].event = f /\ f.type = t
    BY DEF Published
<1> QED BY <1>1, <1>2, <1>3, <1>4, PublishedFacts

LEMMA PublishEventKeeps ==
    ASSUME IInv, PublishEvent
    PROVE  IInv'
<1>1. MirrorSound /\ TypeOK /\ ChainOK /\ CountersOK
    BY DEF IInv, MirrorSound
<1>2. PICK e \in PossibleEvents : chain' = Append(chain, [ledger |-> latest + 1, event |-> e])
    BY DEF PublishEvent
<1>3. /\ latest' = latest /\ Len(chain) < MaxEvents /\ latest < MaxLedger
      /\ UNCHANGED <<tables, savedCursor, process, lost>>
    BY DEF PublishEvent
<1>4. UNCHANGED <<manufacturers, batches, recalls, receipts>>
    BY <1>3 DEF tables
<1>5. latest \in Nat /\ latest \in 0..MaxLedger /\ MaxLedger \in Nat /\ MaxEvents \in Nat
    BY <1>1, ConstantsAssumption, PollFacts DEF TypeOK
<1>6. /\ e \in Event
      /\ \A i \in DOMAIN chain : ~SameSubject(e, chain[i].event)
      /\ e.type \in {"BatchRegistered", "RecallIssued"} =>
            \E j \in DOMAIN chain : Announces(chain[j].event, e)
      /\ e.type = "ManufacturerRegistered" =>
            /\ e.manufacturer \notin Accounts
            /\ e.manufacturerId = Cardinality(Accounts) + 1
      /\ e.type = "RecallIssued" => e.recallId = Cardinality(Published("RecallIssued")) + 1
    BY <1>1, PossibleFacts
<1> DEFINE entry == [ledger |-> latest + 1, event |-> e]
           n == Len(chain)
<1>7. entry \in Entry
    BY <1>3, <1>5, <1>6 DEF Entry
<1>8. /\ n \in Nat /\ DOMAIN chain = 1..n /\ chain \in Seq(Entry)
      /\ chain' \in Seq(Entry) /\ Len(chain') = n + 1 /\ DOMAIN chain' = 1..(n + 1)
      /\ \A i \in 1..n : chain'[i] = chain[i]
      /\ chain'[n + 1] = entry
    <2>1. n \in Nat /\ DOMAIN chain = 1..n /\ chain \in Seq(Entry)
        BY <1>1, ChainFacts DEF ChainOK
    <2>2. chain' \in Seq(Entry) /\ Len(chain') = n + 1 /\ chain'[n + 1] = entry
          /\ \A i \in 1..n : chain'[i] = chain[i]
        BY <2>1, <1>2, <1>7, AppendProperties
    <2>3. DOMAIN chain' = 1..(n + 1)
        BY <2>2, LenProperties
    <2> QED BY <2>1, <2>2, <2>3
<1>9. /\ 1..(n + 1) = (1..n) \cup {n + 1} /\ n + 1 \notin 1..n
      /\ \A i \in 1..(n + 1) : i \in 1..n \/ i = n + 1
      /\ \A i \in 1..n : i \in 1..(n + 1) /\ i \in Nat
    BY <1>8
<1>10. entry.event = e /\ entry.ledger = latest + 1
    OBVIOUS
<1> HIDE DEF entry, n
<1>11. Grows
    BY <1>3, <1>4, <1>8, <1>9 DEF Grows
<1>12. \A f, g \in Event : SameSubject(f, g) => SameSubject(g, f)
    BY DEF SameSubject
<1>13. \A i \in 1..n : chain[i].event \in Event /\ chain[i].ledger \in Nat
                        /\ chain[i].ledger <= latest + 1
    BY <1>1, <1>8, ChainFacts DEF ChainOK
<1>14. ChainOK'
    <2>1. ASSUME NEW i \in 1..(n + 1), NEW j \in 1..(n + 1)
          PROVE  /\ i <= j => chain'[i].ledger <= chain'[j].ledger
                 /\ SameSubject(chain'[i].event, chain'[j].event) => i = j
        <3>1. CASE i \in 1..n /\ j \in 1..n
            BY <3>1, <1>1, <1>8 DEF ChainOK
        <3>2. CASE i \in 1..n /\ j = n + 1
            BY <3>2, <1>6, <1>8, <1>10, <1>12, <1>13
        <3>3. CASE i = n + 1 /\ j \in 1..n
            <4>1. ~(i <= j)
                BY <3>3, <1>8
            <4> QED BY <4>1, <3>3, <1>6, <1>8, <1>10
        <3>4. CASE i = n + 1 /\ j = n + 1
            BY <3>4, <1>5, <1>8, <1>10
        <3> QED BY <3>1, <3>2, <3>3, <3>4, <1>9
    <2>2. ASSUME NEW i \in 1..(n + 1)
          PROVE  /\ chain'[i].ledger <= latest + 1
                 /\ chain'[i].event.type \in {"BatchRegistered", "RecallIssued"} =>
                        \E j \in 1..(i - 1) : Announces(chain'[j].event, chain'[i].event)
        <3>1. CASE i \in 1..n
            <4>1. \A j \in 1..(i - 1) : j \in 1..n
                BY <3>1, <1>8
            <4> QED BY <3>1, <4>1, <1>1, <1>8 DEF ChainOK
        <3>2. CASE i = n + 1
            <4>1. 1..(i - 1) = 1..n
                BY <3>2, <1>8
            <4> QED BY <3>2, <4>1, <1>5, <1>6, <1>8, <1>10
        <3> QED BY <3>1, <3>2, <1>9
    <2> QED BY <2>1, <2>2, <1>3, <1>8 DEF ChainOK
<1>15. \A t : Published(t)' = IF e.type = t THEN Published(t) \cup {e} ELSE Published(t)
    BY <1>1, <1>2, PublishedGrows
<1>16. CountersOK'
    <2>1. /\ IsFiniteSet(Accounts) /\ IsFiniteSet(Published("RecallIssued"))
          /\ Cardinality(Accounts) \in Nat /\ Cardinality(Published("RecallIssued")) \in Nat
        BY <1>1, FS_CardinalityType DEF CountersOK
    <2>2. /\ IsFiniteSet(Accounts') /\ Cardinality(Accounts)' <= n + 1
          /\ \A f \in Published("ManufacturerRegistered")' :
                f.manufacturerId <= Cardinality(Accounts)'
        <3>1. CASE e.type = "ManufacturerRegistered"
            <4>1. Accounts' = Accounts \cup {e.manufacturer}
                BY <3>1, <1>15 DEF Accounts
            <4>2. /\ IsFiniteSet(Accounts')
                  /\ Cardinality(Accounts') = Cardinality(Accounts) + 1
                BY <4>1, <3>1, <2>1, <1>6, FS_AddElement
            <4>3. \A f \in Published("ManufacturerRegistered") : f.manufacturerId \in Nat
                BY <1>13, <1>8, PublishedFacts, EventFacts
            <4>4. Cardinality(Accounts) <= n
                BY <1>1 DEF CountersOK, n
            <4>5. \A f \in Published("ManufacturerRegistered") :
                    f.manufacturerId <= Cardinality(Accounts)
                BY <1>1 DEF CountersOK
            <4> QED BY <4>2, <4>3, <4>4, <4>5, <3>1, <2>1, <1>6, <1>8, <1>15
        <3>2. CASE e.type # "ManufacturerRegistered"
            <4>1. /\ Accounts' = Accounts
                  /\ Published("ManufacturerRegistered")' = Published("ManufacturerRegistered")
                BY <3>2, <1>15 DEF Accounts
            <4>2. Cardinality(Accounts) <= n
                BY <1>1 DEF CountersOK, n
            <4>3. \A f \in Published("ManufacturerRegistered") :
                    f.manufacturerId <= Cardinality(Accounts)
                BY <1>1 DEF CountersOK
            <4> QED BY <4>1, <4>2, <4>3, <2>1, <1>8
        <3> QED BY <3>1, <3>2
    <2>3. /\ IsFiniteSet(Published("RecallIssued")')
          /\ Cardinality(Published("RecallIssued")') <= n + 1
          /\ \A f \in Published("RecallIssued")' :
                f.recallId <= Cardinality(Published("RecallIssued")')
        <3> DEFINE R == Published("RecallIssued")
        <3>1. Cardinality(R) <= n /\ \A f \in R : f.recallId <= Cardinality(R)
            BY <1>1 DEF CountersOK, n
        <3>2. CASE e.type = "RecallIssued"
            <4>1. R' = R \cup {e}
                BY <3>2, <1>15
            <4>2. e \notin R
                <5>1. \A i \in DOMAIN chain : chain[i].event # e
                    BY <1>6 DEF SameSubject
                <5> QED BY <5>1, PublishedFacts
            <4>3. IsFiniteSet(R') /\ Cardinality(R') = Cardinality(R) + 1
                BY <4>1, <4>2, <2>1, FS_AddElement
            <4>4. \A f \in R : f.recallId \in Nat
                BY <1>13, <1>8, PublishedFacts, EventFacts
            <4> HIDE DEF R
            <4>5. \A f \in R' : f.recallId <= Cardinality(R')
                BY <4>1, <4>3, <4>4, <3>1, <3>2, <2>1, <1>6 DEF R
            <4> QED BY <4>3, <4>5, <3>1, <2>1, <1>8 DEF R
        <3>3. CASE e.type # "RecallIssued"
            <4>1. R' = R
                BY <3>3, <1>15
            <4> QED BY <4>1, <3>1, <2>1, <1>8
        <3> QED BY <3>2, <3>3
    <2> QED BY <2>2, <2>3, <1>8 DEF CountersOK
<1>17. /\ latest' \in Nat /\ latest <= latest' /\ latest' \in 0..MaxLedger
       /\ Len(chain') <= MaxEvents /\ Len(chain) <= Len(chain') /\ Len(chain') \in Nat
    BY <1>3, <1>5, <1>8 DEF n
<1>18. \A i \in DOMAIN chain' \ DOMAIN chain : chain'[i].ledger = latest + 1
    BY <1>8, <1>9, <1>10
<1>19. MirrorSound' /\ lost' \subseteq DOMAIN chain' /\ RowsHaveCause'
    BY <1>3, <1>11, <1>14, <1>17, TablesStay
<1>20. /\ PollOK'
       /\ savedCursor' # None =>
            AccountedUpTo(savedCursor)' /\ AccountedUpTo(START_LEDGER)'
    BY <1>3, <1>11, <1>17, <1>18, PollStays
<1> QED BY <1>14, <1>16, <1>19, <1>20 DEF IInv

-----------------------------------------------------------------------------
(* handleEvent *)

\* No row that is there changes: the body of RerunChangesNothing.
RowsKept ==
    /\ manufacturers \subseteq manufacturers'
    /\ \A b \in DOMAIN batches : b \in DOMAIN batches' /\ batches'[b] = batches[b]
    /\ \A id \in DOMAIN recalls : id \in DOMAIN recalls' /\ recalls'[id] = recalls[id]
    /\ receipts \subseteq receipts'

\* What MirrorSound says of the rows, with their causes.
RowsSound ==
    /\ manufacturers \subseteq [onChainId : 0..MaxEvents, address : Account]
    /\ DOMAIN batches \subseteq BatchId
    /\ DOMAIN recalls \subseteq 1..MaxEvents
    /\ receipts \subseteq [owner : Owner, batchId : BatchId]
    /\ ConstraintsHold
    /\ \A b \in DOMAIN batches : \E e \in BatchEvents :
        /\ e.batchId = b
        /\ \A r \in RowsOf(batches[b]) : r.address = e.manufacturer
    /\ \A id \in DOMAIN recalls :
        [type |-> "RecallIssued", batchId |-> recalls[id], recallId |-> id]
            \in Published("RecallIssued")
    /\ \A r \in receipts :
        [type |-> "OwnershipRegistered", owner |-> r.owner,
         batchId |-> r.batchId] \in Published("OwnershipRegistered")
    /\ RowsHaveCause

\* The indexer handles the k-th event, with those before it accounted for.
Handling(k) ==
    /\ RowsSound /\ ChainOK /\ CountersOK /\ Len(chain) <= MaxEvents
    /\ chain' = chain /\ lost \subseteq lost' /\ lost \subseteq DOMAIN chain
    /\ k \in DOMAIN chain
    /\ \A i \in 1..(k - 1) : AccountedFor(i)

\* The row of a manufacturer that an event of the chain names.
HasCause(row) ==
    \E i \in DOMAIN chain :
        /\ chain[i].event.type = "ManufacturerRegistered"
        /\ chain[i].event.manufacturer = row.address
        /\ IF row.onChainId = 0 THEN i \in lost
                                ELSE chain[i].event.manufacturerId = row.onChainId

LEMMA RowsStay ==
    ASSUME NEW k, Handling(k), UNCHANGED <<manufacturers, batches, recalls, receipts>>
    PROVE  RowsKept /\ RowsSound'
<1>1. RowsSound /\ chain' = chain /\ lost \subseteq lost'
    BY DEF Handling
<1>2. RowsKept
    BY DEF RowsKept
<1>3. /\ \A t : Published(t)' = Published(t)
      /\ BatchEvents' = BatchEvents
    BY <1>1 DEF Published, BatchEvents
<1>4. ConstraintsHold' /\ \A b : RowsOf(batches[b])' = RowsOf(batches[b])
    BY <1>1 DEF ConstraintsHold, RowsOf, RowsSound
<1>5. RowsHaveCause'
    BY <1>1 DEF RowsHaveCause, RowsSound
<1>6. RowsSound'
    BY <1>1, <1>3, <1>4, <1>5 DEF RowsSound
<1> QED BY <1>2, <1>6

\* A row may be added to the manufacturers unless it conflicts with another.
LEMMA RowAdded ==
    ASSUME NEW k, Handling(k),
           NEW row \in [onChainId : 0..MaxEvents, address : Account], HasCause(row),
           \A r \in manufacturers :
                r.onChainId = row.onChainId \/ r.address = row.address => r = row,
           manufacturers' = manufacturers \cup {row},
           UNCHANGED <<batches, recalls, receipts>>
    PROVE  RowsKept /\ RowsSound'
<1>1. RowsSound /\ ConstraintsHold /\ chain' = chain /\ lost \subseteq lost'
    BY DEF Handling, RowsSound
<1>2. RowsKept
    BY DEF RowsKept
<1>3. \A b \in DOMAIN batches : RowsOf(batches[b])' = RowsOf(batches[b])
    <2> SUFFICES ASSUME NEW b \in DOMAIN batches
                 PROVE  row.onChainId = batches[b] => row \in manufacturers
        BY DEF RowsOf
    <2>1. PICK r \in manufacturers : r.onChainId = batches[b]
        BY <1>1 DEF ConstraintsHold, RowsOf
    <2> QED BY <2>1
<1>4. ConstraintsHold'
    BY <1>1, <1>3 DEF ConstraintsHold
<1>5. RowsHaveCause'
    BY <1>1 DEF RowsSound, RowsHaveCause, HasCause
<1>6. /\ \A t : Published(t)' = Published(t)
      /\ BatchEvents' = BatchEvents
    BY <1>1 DEF Published, BatchEvents
<1>7. RowsSound'
    BY <1>1, <1>3, <1>4, <1>5, <1>6 DEF RowsSound
<1> QED BY <1>2, <1>7

\* A manufacturer is mirrored, unless a placeholder has its address since its first
\* event was lost.
LEMMA ManufacturerHandled ==
    ASSUME NEW k, Handling(k), chain[k].event.type = "ManufacturerRegistered",
           UpsertManufacturer(chain[k].event)
    PROVE  /\ RowsKept /\ RowsSound'
           /\ \/ Mirrored(chain[k].event)'
              \/ \E j \in lost : DependsOn(chain[k].event, chain[j].event)
<1> DEFINE e == chain[k].event
           row == [onChainId |-> e.manufacturerId, address |-> e.manufacturer]
<1>1. /\ RowsSound /\ ChainOK /\ CountersOK /\ chain' = chain /\ k \in DOMAIN chain
      /\ RowsHaveCause /\ Len(chain) <= MaxEvents
    BY DEF Handling, RowsSound
<1>2. \A i \in DOMAIN chain : chain[i].event \in Event
    BY <1>1, ChainFacts
<1>3. /\ e.manufacturer \in Account /\ e.manufacturerId \in Nat \ {0}
    BY <1>1, <1>2, EventFacts
<1>4. e.manufacturerId <= MaxEvents
    <2>1. e \in Published("ManufacturerRegistered")
        BY <1>1 DEF Published
    <2>2. e.manufacturerId <= Cardinality(Accounts) /\ Cardinality(Accounts) <= Len(chain)
        BY <2>1, <1>1 DEF CountersOK
    <2>3. Cardinality(Accounts) \in Nat /\ Len(chain) \in Nat /\ MaxEvents \in Nat
        BY <1>1, FS_CardinalityType, ChainFacts, ConstantsAssumption DEF CountersOK
    <2> QED BY <2>2, <2>3, <1>1, <1>3
<1>5. row \in [onChainId : 0..MaxEvents, address : Account] /\ HasCause(row)
    <2>1. MaxEvents \in Nat
        BY ConstantsAssumption
    <2>2. row \in [onChainId : 0..MaxEvents, address : Account]
        BY <2>1, <1>3, <1>4
    <2>3. row.onChainId # 0 /\ row.address = e.manufacturer /\ row.onChainId = e.manufacturerId
        BY <1>3
    <2> QED BY <2>2, <2>3, <1>1 DEF HasCause
<1>6. ASSUME NEW r \in manufacturers, r.onChainId = e.manufacturerId
      PROVE  r = row
    <2>1. PICK i \in DOMAIN chain :
            /\ chain[i].event.type = "ManufacturerRegistered"
            /\ chain[i].event.manufacturer = r.address
            /\ chain[i].event.manufacturerId = r.onChainId
        BY <1>1, <1>3, <1>6 DEF RowsHaveCause
    <2>2. i = k
        BY <2>1, <1>1, <1>6 DEF ChainOK, SameSubject
    <2>3. r \in [onChainId : 0..MaxEvents, address : Account]
        BY <1>1 DEF RowsSound
    <2> QED BY <2>1, <2>2, <2>3, <1>6
<1>7. CASE RowsAt(e.manufacturer) \subseteq RowsOf(e.manufacturerId)
    <2>1. \A r \in manufacturers :
            r.onChainId = row.onChainId \/ r.address = row.address => r = row
        BY <1>6, <1>7 DEF RowsAt, RowsOf
    <2>2. manufacturers' = manufacturers \cup {row} /\ UNCHANGED <<batches, recalls, receipts>>
        BY <1>6, <1>7 DEF UpsertManufacturer, RowsOf
    <2>3. RowsKept /\ RowsSound'
        BY <2>1, <2>2, <1>5, RowAdded
    <2>4. Mirrored(e)'
        BY <2>2, <1>1 DEF Mirrored
    <2> QED BY <2>3, <2>4
<1>8. CASE ~(RowsAt(e.manufacturer) \subseteq RowsOf(e.manufacturerId))
    <2>1. UNCHANGED <<manufacturers, batches, recalls, receipts>>
        BY <1>8 DEF UpsertManufacturer
    <2>2. PICK r \in manufacturers : /\ r.address = e.manufacturer
                                     /\ r.onChainId # e.manufacturerId
        BY <1>8 DEF RowsAt, RowsOf
    <2>3. PICK i \in DOMAIN chain :
            /\ chain[i].event.type = "ManufacturerRegistered"
            /\ chain[i].event.manufacturer = r.address
            /\ IF r.onChainId = 0 THEN i \in lost
                                  ELSE chain[i].event.manufacturerId = r.onChainId
        BY <1>1 DEF RowsHaveCause
    <2>4. i = k
        BY <2>2, <2>3, <1>1 DEF ChainOK, SameSubject
    <2>5. k \in lost
        BY <2>2, <2>3, <2>4
    <2>6. \E j \in lost : DependsOn(chain[k].event, chain[j].event)
        BY <2>5 DEF DependsOn
    <2>7. RowsKept /\ RowsSound'
        BY <2>1, RowsStay
    <2> QED BY <2>6, <2>7
<1> QED BY <1>7, <1>8

\* An event that is about another comes after it, and so the other is accounted for.
LEMMA AnnouncedBefore ==
    ASSUME NEW k, Handling(k),
           chain[k].event.type \in {"BatchRegistered", "RecallIssued"}
    PROVE  \E i \in DOMAIN chain : /\ Announces(chain[i].event, chain[k].event)
                                   /\ AccountedFor(i)
<1>1. ChainOK /\ k \in DOMAIN chain /\ \A i \in 1..(k - 1) : AccountedFor(i)
    BY DEF Handling
<1>2. PICK i \in 1..(k - 1) : Announces(chain[i].event, chain[k].event)
    BY <1>1 DEF ChainOK
<1>3. AccountedFor(i)
    BY <1>1
<1> QED BY <1>2, <1>3 DEF AccountedFor

\* The row of a batch's manufacturer: the one that is there; or a placeholder, and then
\* the manufacturer's event was lost; or none.
LEMMA PlaceholderFacts ==
    ASSUME NEW k, Handling(k), chain[k].event.type = "BatchRegistered"
    PROVE  LET e == chain[k].event
           IN  /\ RowsAt(e.manufacturer) = {} =>
                    \E j \in lost : DependsOn(e, chain[j].event)
               /\ ManufacturerRows(e) # {} =>
                    \E row \in [onChainId : 0..MaxEvents, address : Account] :
                        /\ ManufacturerRows(e) = {row} /\ row.address = e.manufacturer
                        /\ HasCause(row)
                        /\ \A r \in manufacturers :
                            r.onChainId = row.onChainId \/ r.address = row.address => r = row
               /\ ManufacturerRows(e) = {} => RowsAt(e.manufacturer) = {}
<1> DEFINE e == chain[k].event
<1>1. /\ RowsSound /\ ChainOK /\ k \in DOMAIN chain /\ ConstraintsHold
      /\ manufacturers \subseteq [onChainId : 0..MaxEvents, address : Account]
      /\ RowsHaveCause /\ lost \subseteq DOMAIN chain
    BY DEF Handling, RowsSound
<1>2. e.manufacturer \in Account
    BY <1>1, ChainFacts, EventFacts
<1>3. PICK i \in DOMAIN chain : Announces(chain[i].event, e) /\ AccountedFor(i)
    BY AnnouncedBefore
<1>4. /\ chain[i].event.type = "ManufacturerRegistered"
      /\ chain[i].event.manufacturer = e.manufacturer
    BY <1>3 DEF Announces
<1>5. ASSUME RowsAt(e.manufacturer) = {}
      PROVE  i \in lost
    <2>1. ~Mirrored(chain[i].event)
        <3>1. \A r \in manufacturers : r.address # e.manufacturer
            BY <1>5 DEF RowsAt
        <3> QED BY <3>1, <1>4 DEF Mirrored
    <2>2. PICK j \in lost : DependsOn(chain[i].event, chain[j].event)
        BY <2>1, <1>3 DEF AccountedFor
    <2>3. chain[i].event = chain[j].event
        BY <2>2, <1>4 DEF DependsOn
    <2>4. i = j
        BY <2>3, <1>1 DEF ChainOK, SameSubject
    <2> QED BY <2>4
<1>6. DependsOn(e, chain[i].event)
    BY <1>4 DEF DependsOn
<1>7. CASE RowsAt(e.manufacturer) # {}
    <2>1. PICK row \in manufacturers : row.address = e.manufacturer
        BY <1>7 DEF RowsAt
    <2>2. RowsAt(e.manufacturer) = {row}
        BY <2>1, <1>1 DEF RowsAt, ConstraintsHold
    <2>3. HasCause(row)
        BY <1>1 DEF HasCause, RowsHaveCause
    <2>4. \A r \in manufacturers :
            r.onChainId = row.onChainId \/ r.address = row.address => r = row
        BY <1>1 DEF ConstraintsHold
    <2>5. ManufacturerRows(e) = {row}
        BY <2>2, <1>7 DEF ManufacturerRows
    <2> QED BY <2>1, <2>2, <2>3, <2>4, <2>5, <1>1, <1>7
<1>8. CASE RowsAt(e.manufacturer) = {} /\ RowsOf(0) = {}
    <2> DEFINE row == [onChainId |-> 0, address |-> e.manufacturer]
    <2>1. row \in [onChainId : 0..MaxEvents, address : Account]
        BY <1>2, ConstantsAssumption
    <2>2. ManufacturerRows(e) = {row}
        BY <1>8 DEF ManufacturerRows
    <2>3. HasCause(row)
        BY <1>4, <1>5, <1>8 DEF HasCause
    <2>4. \A r \in manufacturers :
            ~(r.onChainId = row.onChainId \/ r.address = row.address)
        BY <1>8 DEF RowsAt, RowsOf
    <2> QED BY <2>1, <2>2, <2>3, <2>4, <1>5, <1>6, <1>8
<1>9. CASE RowsAt(e.manufacturer) = {} /\ RowsOf(0) # {}
    BY <1>5, <1>6, <1>9 DEF ManufacturerRows
<1> QED BY <1>7, <1>8, <1>9

\* A handler that fails after the placeholder, or before.
LEMMA PlaceholderAdded ==
    ASSUME NEW k, Handling(k), chain[k].event.type = "BatchRegistered",
           AddPlaceholder(chain[k].event), UNCHANGED <<batches, recalls, receipts>>
    PROVE  RowsKept /\ RowsSound'
<1> DEFINE e == chain[k].event
<1>1. manufacturers' = manufacturers \cup ManufacturerRows(e)
    BY DEF AddPlaceholder
<1>2. CASE ManufacturerRows(e) = {}
    <2>1. manufacturers' = manufacturers
        BY <1>1, <1>2
    <2> QED BY <2>1, RowsStay
<1>3. CASE ManufacturerRows(e) # {}
    <2>1. PICK row \in [onChainId : 0..MaxEvents, address : Account] :
            /\ ManufacturerRows(e) = {row} /\ row.address = e.manufacturer
            /\ HasCause(row)
            /\ \A r \in manufacturers :
                r.onChainId = row.onChainId \/ r.address = row.address => r = row
        BY <1>3, PlaceholderFacts
    <2>2. manufacturers' = manufacturers \cup {row}
        BY <2>1, <1>1
    <2> QED BY <2>1, <2>2, RowAdded
<1> QED BY <1>2, <1>3

\* A batch is mirrored, with the row of its manufacturer, unless that has no row since its
\* event was lost.
LEMMA BatchHandled ==
    ASSUME NEW k, Handling(k), chain[k].event.type = "BatchRegistered",
           UpsertBatch(chain[k].event)
    PROVE  /\ RowsKept /\ RowsSound'
           /\ \/ Mirrored(chain[k].event)'
              \/ \E j \in lost : DependsOn(chain[k].event, chain[j].event)
<1> DEFINE e == chain[k].event
<1>1. /\ RowsSound /\ ChainOK /\ chain' = chain /\ k \in DOMAIN chain /\ ConstraintsHold
      /\ lost \subseteq lost'
      /\ manufacturers \subseteq [onChainId : 0..MaxEvents, address : Account]
    BY DEF Handling, RowsSound
<1>2. e.batchId \in BatchId
    BY <1>1, ChainFacts, EventFacts
<1>3. CASE ManufacturerRows(e) = {}
    <2>1. UNCHANGED <<manufacturers, batches, recalls, receipts>>
        BY <1>3 DEF UpsertBatch, AddPlaceholder
    <2>2. \E j \in lost : DependsOn(e, chain[j].event)
        BY <1>3, PlaceholderFacts
    <2> QED BY <2>1, <2>2, RowsStay
<1>4. CASE ManufacturerRows(e) # {}
    <2>1. PICK row \in [onChainId : 0..MaxEvents, address : Account] :
            /\ ManufacturerRows(e) = {row} /\ row.address = e.manufacturer
            /\ HasCause(row)
            /\ \A r \in manufacturers :
                r.onChainId = row.onChainId \/ r.address = row.address => r = row
        BY <1>4, PlaceholderFacts
    <2>2. manufacturers' = manufacturers \cup {row} /\ UNCHANGED <<recalls, receipts>>
        BY <2>1 DEF UpsertBatch, AddPlaceholder
    <2>3. batches' = [b \in DOMAIN batches \cup {e.batchId} |->
                        IF b = e.batchId THEN row.onChainId ELSE batches[b]]
        <3>1. (CHOOSE r \in ManufacturerRows(e) : TRUE) = row
            BY <2>1
        <3> QED BY <3>1, <1>4 DEF UpsertBatch
    <2>4. DOMAIN batches' = DOMAIN batches \cup {e.batchId} /\ batches'[e.batchId] = row.onChainId
        BY <2>3
    <2>5. ASSUME NEW b \in DOMAIN batches
          PROVE  batches'[b] = batches[b]
        <3>1. CASE b = e.batchId
            <4>1. PICK f \in BatchEvents :
                    f.batchId = b /\ \A r \in RowsOf(batches[b]) : r.address = f.manufacturer
                BY <1>1 DEF RowsSound
            <4>2. f = e
                <5>1. PICK i \in DOMAIN chain :
                        chain[i].event = f /\ f.type = "BatchRegistered"
                    BY PublishedFacts DEF BatchEvents
                <5>2. SameSubject(chain[i].event, chain[k].event)
                    BY <5>1, <4>1, <3>1 DEF SameSubject
                <5> QED BY <5>1, <5>2, <1>1 DEF ChainOK
            <4>3. PICK r \in manufacturers : r.onChainId = batches[b]
                BY <1>1 DEF ConstraintsHold, RowsOf
            <4>4. r.address = e.manufacturer
                BY <4>1, <4>2, <4>3 DEF RowsOf
            <4>5. r = row
                BY <4>4, <2>1
            <4> QED BY <4>3, <4>5, <2>4, <3>1
        <3>2. CASE b # e.batchId
            BY <3>2, <2>3
        <3> QED BY <3>1, <3>2
    <2>6. \A b \in DOMAIN batches : RowsOf(batches[b])' = RowsOf(batches[b])
        <3> SUFFICES ASSUME NEW b \in DOMAIN batches
                     PROVE  row.onChainId = batches[b] => row \in manufacturers
            BY <2>2, <2>5 DEF RowsOf
        <3>1. PICK r \in manufacturers : r.onChainId = batches[b]
            BY <1>1 DEF ConstraintsHold, RowsOf
        <3> QED BY <3>1, <2>1
    <2>7. \A b : b = e.batchId => RowsOf(batches[b])' = {row}
        BY <2>1, <2>2, <2>4 DEF RowsOf
    <2>8. RowsKept
        BY <2>2, <2>4, <2>5 DEF RowsKept
    <2>9. ConstraintsHold'
        <3>1. \A r, s \in manufacturers' :
                r.onChainId = s.onChainId \/ r.address = s.address => r = s
            BY <1>1, <2>1, <2>2 DEF ConstraintsHold
        <3>2. \A b \in DOMAIN batches' : RowsOf(batches[b])' # {}
            BY <1>1, <2>4, <2>6, <2>7 DEF ConstraintsHold
        <3>3. \A id \in DOMAIN recalls' : recalls'[id] \in DOMAIN batches'
            BY <1>1, <2>2, <2>4 DEF ConstraintsHold
        <3> QED BY <3>1, <3>2, <3>3 DEF ConstraintsHold
    <2>10. RowsHaveCause'
        BY <1>1, <2>1, <2>2 DEF RowsSound, RowsHaveCause, HasCause
    <2>11. /\ \A t : Published(t)' = Published(t)
           /\ BatchEvents' = BatchEvents
        BY <1>1 DEF Published, BatchEvents
    <2>12. \A b \in DOMAIN batches' : \E f \in BatchEvents' :
            /\ f.batchId = b
            /\ \A r \in RowsOf(batches[b])' : r.address = f.manufacturer
        <3>1. e \in BatchEvents
            BY <1>1 DEF BatchEvents, Published
        <3>2. \A b \in DOMAIN batches : \E f \in BatchEvents :
                f.batchId = b /\ \A r \in RowsOf(batches[b]) : r.address = f.manufacturer
            BY <1>1 DEF RowsSound
        <3>3. ASSUME NEW b \in DOMAIN batches
              PROVE  \E f \in BatchEvents' :
                        f.batchId = b /\ \A r \in RowsOf(batches[b])' : r.address = f.manufacturer
            BY <3>2, <2>6, <2>11
        <3>4. ASSUME NEW b, b = e.batchId
              PROVE  \E f \in BatchEvents' :
                        f.batchId = b /\ \A r \in RowsOf(batches[b])' : r.address = f.manufacturer
            BY <3>1, <3>4, <2>1, <2>7, <2>11
        <3> QED BY <3>3, <3>4, <2>4
    <2>13. RowsSound'
        BY <1>1, <1>2, <2>2, <2>4, <2>9, <2>10, <2>11, <2>12 DEF RowsSound
    <2>14. Mirrored(e)'
        BY <2>4, <1>1 DEF Mirrored
    <2> QED BY <2>8, <2>13, <2>14
<1> QED BY <1>3, <1>4

\* A recall is mirrored, unless its batch is not, for an event that was lost.
LEMMA RecallHandled ==
    ASSUME NEW k, Handling(k), chain[k].event.type = "RecallIssued",
           UpsertRecall(chain[k].event)
    PROVE  /\ RowsKept /\ RowsSound'
           /\ \/ Mirrored(chain[k].event)'
              \/ \E j \in lost : DependsOn(chain[k].event, chain[j].event)
<1> DEFINE e == chain[k].event
<1>1. /\ RowsSound /\ ChainOK /\ CountersOK /\ chain' = chain /\ k \in DOMAIN chain
      /\ Len(chain) <= MaxEvents /\ UNCHANGED <<manufacturers, batches, receipts>>
      /\ lost \subseteq lost'
    BY DEF Handling, UpsertRecall
<1>2. CASE e.batchId \notin DOMAIN batches
    <2>1. UNCHANGED <<manufacturers, batches, recalls, receipts>>
        BY <1>1, <1>2 DEF UpsertRecall
    <2>2. PICK i \in DOMAIN chain : Announces(chain[i].event, e) /\ AccountedFor(i)
        BY AnnouncedBefore
    <2>3. /\ chain[i].event.type = "BatchRegistered" /\ chain[i].event.batchId = e.batchId
          /\ chain[i].event \in BatchEvents
        BY <2>2 DEF Announces, BatchEvents, Published
    <2>4. ~Mirrored(chain[i].event)
        BY <2>3, <1>2 DEF Mirrored
    <2>5. PICK j \in lost : DependsOn(chain[i].event, chain[j].event)
        BY <2>2, <2>4 DEF AccountedFor
    <2>6. DependsOn(e, chain[j].event)
        BY <2>3, <2>5 DEF DependsOn
    <2> QED BY <2>1, <2>6, RowsStay
<1>3. CASE e.batchId \in DOMAIN batches
    <2>1. recalls' = [id \in DOMAIN recalls \cup {e.recallId} |->
                        IF id = e.recallId THEN e.batchId ELSE recalls[id]]
        BY <1>3 DEF UpsertRecall
    <2>2. DOMAIN recalls' = DOMAIN recalls \cup {e.recallId} /\ recalls'[e.recallId] = e.batchId
        BY <2>1
    <2>3. e \in Published("RecallIssued")
        BY <1>1 DEF Published
    <2>4. e \in [type : {"RecallIssued"}, batchId : BatchId, recallId : Nat \ {0}]
        BY <1>1, ChainFacts, EventFacts
    <2>5. e.recallId \in 1..MaxEvents
        <3>1. e.recallId <= Cardinality(Published("RecallIssued"))
            BY <2>3, <1>1 DEF CountersOK
        <3>2. Cardinality(Published("RecallIssued")) <= Len(chain)
            BY <1>1 DEF CountersOK
        <3>3. Cardinality(Published("RecallIssued")) \in Nat /\ Len(chain) \in Nat
              /\ MaxEvents \in Nat
            BY <1>1, FS_CardinalityType, ChainFacts, ConstantsAssumption DEF CountersOK
        <3>4. e.recallId \in Nat \ {0}
            BY <2>4
        <3> QED BY <3>1, <3>2, <3>3, <3>4, <1>1
    <2>6. ASSUME NEW id \in DOMAIN recalls
          PROVE  recalls'[id] = recalls[id]
        <3>1. CASE id = e.recallId
            <4> DEFINE f == [type |-> "RecallIssued", batchId |-> recalls[id], recallId |-> id]
            <4>1. f \in Published("RecallIssued")
                BY <1>1 DEF RowsSound
            <4>2. PICK i \in DOMAIN chain : chain[i].event = f
                BY <4>1, PublishedFacts
            <4>3. SameSubject(chain[i].event, chain[k].event)
                BY <4>2, <3>1 DEF SameSubject
            <4>4. f = e
                BY <4>2, <4>3, <1>1 DEF ChainOK
            <4>5. f.batchId = recalls[id]
                OBVIOUS
            <4> QED BY <4>4, <4>5, <2>2, <3>1
        <3>2. CASE id # e.recallId
            BY <3>2, <2>1
        <3> QED BY <3>1, <3>2
    <2>7. RowsKept
        BY <1>1, <2>2, <2>6 DEF RowsKept
    <2>8. /\ \A t : Published(t)' = Published(t)
          /\ BatchEvents' = BatchEvents /\ \A b : RowsOf(batches[b])' = RowsOf(batches[b])
        BY <1>1 DEF Published, BatchEvents, RowsOf
    <2>9. ConstraintsHold'
        <3>1. ConstraintsHold
            BY <1>1 DEF RowsSound
        <3>2. \A id \in DOMAIN recalls' : recalls'[id] \in DOMAIN batches'
            BY <3>1, <1>1, <1>3, <2>2, <2>6 DEF ConstraintsHold
        <3> QED BY <3>1, <3>2, <1>1, <2>8 DEF ConstraintsHold
    <2>10. \A id \in DOMAIN recalls' :
            [type |-> "RecallIssued", batchId |-> recalls'[id], recallId |-> id]
                \in Published("RecallIssued")'
        <3> SUFFICES ASSUME NEW id \in DOMAIN recalls'
                     PROVE  [type |-> "RecallIssued", batchId |-> recalls'[id], recallId |-> id]
                                \in Published("RecallIssued")
            BY <2>8
        <3>1. CASE id \in DOMAIN recalls
            BY <3>1, <2>6, <1>1 DEF RowsSound
        <3>2. CASE id = e.recallId
            <4>1. e = [type |-> "RecallIssued", batchId |-> e.batchId, recallId |-> e.recallId]
                BY <2>4
            <4> HIDE DEF e
            <4> QED BY <4>1, <3>2, <2>2, <2>3
        <3> QED BY <3>1, <3>2, <2>2
    <2>11. RowsHaveCause'
        BY <1>1 DEF RowsSound, RowsHaveCause
    <2>12. RowsSound'
        BY <1>1, <2>2, <2>5, <2>8, <2>9, <2>10, <2>11 DEF RowsSound
    <2>13. Mirrored(e)'
        BY <2>2, <1>1 DEF Mirrored
    <2> QED BY <2>7, <2>12, <2>13
<1> QED BY <1>2, <1>3

\* A receipt is mirrored.
LEMMA ReceiptHandled ==
    ASSUME NEW k, Handling(k), chain[k].event.type = "OwnershipRegistered",
           CreateReceipt(chain[k].event)
    PROVE  RowsKept /\ RowsSound' /\ Mirrored(chain[k].event)'
<1> DEFINE e == chain[k].event
           row == [owner |-> e.owner, batchId |-> e.batchId]
<1>1. /\ RowsSound /\ ChainOK /\ chain' = chain /\ k \in DOMAIN chain /\ lost \subseteq lost'
      /\ receipts' = receipts \cup {row} /\ UNCHANGED <<manufacturers, batches, recalls>>
    BY DEF Handling, CreateReceipt
<1>2. e \in [type : {"OwnershipRegistered"}, owner : Owner, batchId : BatchId]
    BY <1>1, ChainFacts, EventFacts
<1>3. RowsKept
    BY <1>1 DEF RowsKept
<1>4. /\ \A t : Published(t)' = Published(t)
      /\ BatchEvents' = BatchEvents /\ \A b : RowsOf(batches[b])' = RowsOf(batches[b])
    BY <1>1 DEF Published, BatchEvents, RowsOf
<1>5. ConstraintsHold' /\ RowsHaveCause'
    BY <1>1, <1>4 DEF RowsSound, ConstraintsHold, RowsHaveCause
<1>6. \A r \in receipts' :
        [type |-> "OwnershipRegistered", owner |-> r.owner, batchId |-> r.batchId]
            \in Published("OwnershipRegistered")'
    <2> SUFFICES ASSUME NEW r \in receipts'
                 PROVE  [type |-> "OwnershipRegistered", owner |-> r.owner,
                         batchId |-> r.batchId] \in Published("OwnershipRegistered")
        BY <1>4
    <2>1. CASE r \in receipts
        BY <2>1, <1>1 DEF RowsSound
    <2>2. CASE r = row
        <3>1. e \in Published("OwnershipRegistered")
            BY <1>1 DEF Published
        <3>2. e = [type |-> "OwnershipRegistered", owner |-> e.owner, batchId |-> e.batchId]
            BY <1>2
        <3>3. r.owner = e.owner /\ r.batchId = e.batchId
            BY <2>2
        <3> HIDE DEF e
        <3> QED BY <3>1, <3>2, <3>3
    <2> QED BY <2>1, <2>2, <1>1
<1>7. row \in [owner : Owner, batchId : BatchId]
    BY <1>2
<1>8. RowsSound'
    BY <1>1, <1>4, <1>5, <1>6, <1>7 DEF RowsSound
<1>9. Mirrored(e)'
    BY <1>1 DEF Mirrored
<1> QED BY <1>3, <1>8, <1>9

\* A handler that succeeds accounts for its event.
LEMMA EventHandled ==
    ASSUME NEW k, Handling(k), handleEvent(chain[k].event)
    PROVE  /\ RowsKept /\ RowsSound'
           /\ \/ Mirrored(chain[k].event)'
              \/ \E j \in lost : DependsOn(chain[k].event, chain[j].event)
<1>1. chain[k].event \in Event
    BY ChainFacts DEF Handling
<1>2. CASE chain[k].event.type = "ManufacturerRegistered"
    BY <1>2, ManufacturerHandled DEF handleEvent
<1>3. CASE chain[k].event.type = "BatchRegistered"
    BY <1>3, BatchHandled DEF handleEvent
<1>4. CASE chain[k].event.type = "RecallIssued"
    BY <1>4, RecallHandled DEF handleEvent
<1>5. CASE chain[k].event.type = "OwnershipRegistered"
    BY <1>5, ReceiptHandled DEF handleEvent
<1> QED BY <1>1, <1>2, <1>3, <1>4, <1>5, EventFacts

\* A handler that fails leaves the rows sound.
LEMMA EventFailed ==
    ASSUME NEW k, Handling(k), handleEventFails(chain[k].event)
    PROVE  RowsKept /\ RowsSound'
<1>1. CASE UNCHANGED tables
    BY <1>1, RowsStay DEF tables
<1>2. CASE /\ chain[k].event.type = "BatchRegistered"
           /\ AddPlaceholder(chain[k].event)
           /\ UNCHANGED <<batches, recalls, receipts>>
    BY <1>2, PlaceholderAdded
<1> QED BY <1>1, <1>2 DEF handleEventFails

-----------------------------------------------------------------------------
(* The steps of the indexer *)

\* The invariant has the rows sound.
LEMMA InvRows ==
    ASSUME IInv
    PROVE  RowsSound
BY DEF IInv, MirrorSound, TypeOK, RowsSound

\* Tables that no step touches stay sound.
LEMMA RowsUntouched ==
    ASSUME IInv, UNCHANGED chainVars, UNCHANGED tables, lost \subseteq lost'
    PROVE  RowsKept /\ RowsSound'
<1>1. /\ RowsSound /\ chain' = chain /\ UNCHANGED <<manufacturers, batches, recalls, receipts>>
    BY InvRows DEF chainVars, tables
<1>2. RowsKept
    BY <1>1 DEF RowsKept
<1>3. /\ \A t : Published(t)' = Published(t)
      /\ BatchEvents' = BatchEvents
    BY <1>1 DEF Published, BatchEvents
<1>4. ConstraintsHold' /\ \A b : RowsOf(batches[b])' = RowsOf(batches[b])
    BY <1>1 DEF ConstraintsHold, RowsOf, RowsSound
<1>5. RowsHaveCause'
    BY <1>1 DEF RowsHaveCause, RowsSound
<1>6. RowsSound'
    BY <1>1, <1>3, <1>4, <1>5 DEF RowsSound
<1> QED BY <1>2, <1>6

\* A step that keeps the rows keeps what is accounted for.
LEMMA AccountsKept ==
    ASSUME IInv, UNCHANGED chainVars, RowsKept, lost \subseteq lost'
    PROVE  /\ \A i : AccountedFor(i) => AccountedFor(i)'
           /\ \A L : AccountedUpTo(L) => AccountedUpTo(L)'
           /\ savedCursor' = savedCursor /\ savedCursor' # None =>
                AccountedUpTo(savedCursor)' /\ AccountedUpTo(START_LEDGER)'
<1>1. /\ chain' = chain /\ latest' = latest /\ lost \subseteq DOMAIN chain
      /\ savedCursor # None => AccountedUpTo(savedCursor) /\ AccountedUpTo(START_LEDGER)
    BY DEF chainVars, IInv
<1>2. Grows
    BY <1>1 DEF Grows, RowsKept
<1>3. \A i : AccountedFor(i) => AccountedFor(i)'
    BY <1>1, <1>2, AccountedForStays
<1>4. \A L : AccountedUpTo(L) => AccountedUpTo(L)'
    BY <1>1, <1>3 DEF AccountedUpTo, EventsUpTo
<1>5. savedCursor' = savedCursor /\ AccountedUpTo(savedCursor) => AccountedUpTo(savedCursor)'
    BY <1>1, <1>3 DEF AccountedUpTo, EventsUpTo
<1> QED BY <1>1, <1>3, <1>4, <1>5

\* What a step of the indexer has to keep.
LEMMA StepKeeps ==
    ASSUME IInv, UNCHANGED chainVars, RowsSound', lost' \subseteq DOMAIN chain,
           savedCursor' \in LedgerNumber \cup {None},
           pc' \in {"down", "readCursor", "getEvents", "handleEvent", "writeCursor"},
           cursor' \in LedgerNumber, nextCursor' \in LedgerNumber,
           pc' = "handleEvent" => page' # <<>>,
           PollOK',
           savedCursor' # None => AccountedUpTo(savedCursor)' /\ AccountedUpTo(START_LEDGER)'
    PROVE  IInv'
<1>1. chain' = chain /\ latest' = latest /\ TypeOK /\ ChainOK /\ CountersOK
    BY DEF chainVars, IInv, MirrorSound
<1>2. TypeOK'
    BY <1>1 DEF TypeOK, RowsSound
<1>3. MirrorSound' /\ RowsHaveCause'
    BY <1>2 DEF MirrorSound, RowsSound
<1>4. ChainOK' /\ CountersOK' /\ lost' \subseteq DOMAIN chain'
    BY <1>1 DEF ChainOK, CountersOK, Accounts, Published
<1> QED BY <1>3, <1>4 DEF IInv

LEMMA LedgerFacts ==
    ASSUME IInv
    PROVE  /\ latest \in LedgerNumber /\ START_LEDGER \in LedgerNumber
           /\ 1..MaxLedger \subseteq LedgerNumber /\ 0 \in LedgerNumber
           /\ cursor \in LedgerNumber /\ nextCursor \in LedgerNumber
           /\ savedCursor \in LedgerNumber \cup {None}
BY ConstantsAssumption DEF IInv, MirrorSound, TypeOK, LedgerNumber

\* Start and getEventsFails: nothing but the place in the poll changes.
LEMMA PlaceKeeps ==
    ASSUME IInv, UNCHANGED <<chainVars, tables, savedCursor, cursor, page, nextCursor, lost>>,
           pc' = "readCursor"
    PROVE  IInv'
<1>1. RowsKept /\ RowsSound'
    BY RowsUntouched
<1>2. savedCursor' # None => AccountedUpTo(savedCursor)' /\ AccountedUpTo(START_LEDGER)'
    BY <1>1, AccountsKept
<1>3. PollOK'
    BY DEF PollOK, IInv
<1>4. lost' \subseteq DOMAIN chain
    BY DEF IInv
<1> QED BY <1>1, <1>2, <1>3, <1>4, LedgerFacts, StepKeeps

LEMMA ReadCursorKeeps ==
    ASSUME IInv, readCursor
    PROVE  IInv'
<1>1. /\ UNCHANGED chainVars /\ UNCHANGED tables
      /\ UNCHANGED <<savedCursor, page, nextCursor>>
      /\ pc' = "getEvents" /\ cursor' = CursorToRead
      /\ lost' = IF savedCursor = None THEN lost \cup EventsUpTo(cursor') ELSE lost
    BY DEF readCursor
<1>2. /\ lost \subseteq DOMAIN chain /\ page \in Seq(Entry)
      /\ savedCursor # None => AccountedUpTo(savedCursor) /\ AccountedUpTo(START_LEDGER)
    BY DEF IInv, PollOK
<1>3. /\ latest \in Nat /\ savedCursor \in Nat \cup {None} /\ START_LEDGER \in Nat
    BY PollFacts
<1>4. cursor' \in LedgerNumber /\ START_LEDGER <= cursor'
    BY <1>1, <1>3, LedgerFacts DEF CursorToRead
<1>5. lost \subseteq lost' /\ lost' \subseteq DOMAIN chain
    BY <1>1, <1>2 DEF EventsUpTo
<1>6. RowsKept /\ RowsSound'
    BY <1>1, <1>5, RowsUntouched
<1>7. /\ \A L : AccountedUpTo(L) => AccountedUpTo(L)'
      /\ savedCursor' # None => AccountedUpTo(savedCursor)' /\ AccountedUpTo(START_LEDGER)'
    BY <1>1, <1>5, <1>6, AccountsKept
<1>8. savedCursor' # None => AccountedUpTo(cursor)'
    <2> SUFFICES ASSUME savedCursor # None
                 PROVE  AccountedUpTo(cursor)'
        BY <1>1
    <2>1. cursor' \in {START_LEDGER, savedCursor}
        BY <1>1 DEF CursorToRead
    <2>2. cursor' = START_LEDGER => AccountedUpTo(cursor)'
        BY <1>2, <1>7 DEF AccountedUpTo, EventsUpTo
    <2>3. cursor' = savedCursor => AccountedUpTo(cursor)'
        BY <1>1, <1>7 DEF AccountedUpTo, EventsUpTo
    <2> QED BY <2>1, <2>2, <2>3
<1>9. PollOK'
    BY <1>1, <1>2, <1>4, <1>8 DEF PollOK
<1> QED BY <1>1, <1>4, <1>5, <1>6, <1>7, <1>9, LedgerFacts, StepKeeps

LEMMA WriteCursorKeeps ==
    ASSUME IInv, writeCursor
    PROVE  IInv'
<1>1. /\ UNCHANGED chainVars /\ UNCHANGED tables
      /\ UNCHANGED <<cursor, page, nextCursor, lost>>
      /\ pc = "writeCursor" /\ pc' = "readCursor" /\ savedCursor' = CursorToWrite
    BY DEF writeCursor
<1>2. /\ lost' \subseteq DOMAIN chain /\ page \in Seq(Entry)
      /\ START_LEDGER <= cursor /\ cursor <= nextCursor /\ AccountedUpTo(nextCursor)
    BY <1>1 DEF IInv, PollOK
<1>3. /\ latest \in Nat /\ START_LEDGER \in Nat /\ cursor \in Nat /\ nextCursor \in Nat
    BY PollFacts
<1>4. savedCursor' = nextCursor
    BY <1>1, <1>2, <1>3 DEF CursorToWrite
<1>5. RowsKept /\ RowsSound'
    BY <1>1, RowsUntouched
<1>6. \A L : AccountedUpTo(L) => AccountedUpTo(L)'
    BY <1>1, <1>5, AccountsKept
<1>7. AccountedUpTo(START_LEDGER)
    <2>1. START_LEDGER <= nextCursor /\ START_LEDGER <= latest
        BY <1>2, <1>3 DEF AccountedUpTo
    <2>2. \A i \in DOMAIN chain : chain[i].ledger \in Nat
        BY ChainFacts DEF IInv
    <2> QED BY <2>1, <2>2, <1>2, <1>3 DEF AccountedUpTo, EventsUpTo
<1>8. AccountedUpTo(savedCursor)'
    BY <1>2, <1>4, <1>6 DEF AccountedUpTo, EventsUpTo
<1>9. PollOK'
    BY <1>1, <1>2 DEF PollOK
<1> QED BY <1>1, <1>2, <1>4, <1>5, <1>6, <1>7, <1>8, <1>9, LedgerFacts, StepKeeps

\* The head of the page is the first event not yet accounted for.
LEMMA HeadFacts ==
    ASSUME IInv, pc = "handleEvent", chain' = chain, lost \subseteq lost'
    PROVE  \E n \in 0..Len(chain) :
            /\ PageFollows(n) /\ n + 1 \in DOMAIN chain
            /\ Head(page) = chain[n + 1] /\ Handling(n + 1)
<1>1. PICK n \in 0..Len(chain) : PageFollows(n)
    BY DEF IInv, PollOK
<1>2. /\ ChainOK /\ CountersOK /\ lost \subseteq DOMAIN chain /\ Len(chain) <= MaxEvents
    BY DEF IInv, MirrorSound, TypeOK
<1>3. /\ n + Len(page) <= Len(chain) /\ \A k \in DOMAIN page : page[k] = chain[n + k]
      /\ \A i \in 1..n : AccountedFor(i)
    BY <1>1 DEF PageFollows
<1>4. n + 1 \in DOMAIN chain /\ Head(page) = chain[n + 1] /\ (n + 1) - 1 = n
    <2>1. Len(page) \in Nat /\ Len(page) >= 1 /\ 1 \in DOMAIN page /\ Head(page) = page[1]
        BY PollFacts
    <2>2. Len(chain) \in Nat /\ DOMAIN chain = 1..Len(chain)
        BY <1>2, ChainFacts
    <2> QED BY <2>1, <2>2, <1>3
<1>5. Handling(n + 1)
    BY <1>2, <1>3, <1>4, InvRows DEF Handling
<1> QED BY <1>1, <1>4, <1>5

\* The page moves on when its head is accounted for.
LEMMA PageAdvances ==
    ASSUME IInv, pc = "handleEvent", Processed, RowsKept, lost \subseteq lost',
           NEW n \in 0..Len(chain), PageFollows(n), Head(page) = chain[n + 1],
           AccountedFor(n + 1)'
    PROVE  /\ PollOK'
           /\ savedCursor' # None => AccountedUpTo(savedCursor)' /\ AccountedUpTo(START_LEDGER)'
           /\ pc' \in {"handleEvent", "writeCursor"}
           /\ cursor' \in LedgerNumber /\ nextCursor' \in LedgerNumber
           /\ savedCursor' = savedCursor
           /\ pc' = "handleEvent" => page' # <<>>
<1>1. /\ UNCHANGED chainVars /\ chain' = chain /\ latest' = latest
      /\ savedCursor' = savedCursor /\ cursor' = cursor /\ page' = Tail(page)
      /\ pc' = IF page' = <<>> THEN "writeCursor" ELSE "handleEvent"
    BY DEF Processed, AfterEvent, chainVars
<1>2. /\ ChainOK /\ page \in Seq(Entry) /\ START_LEDGER <= cursor
      /\ cursor <= nextCursor /\ nextCursor <= Head(page).ledger
      /\ Last(page).ledger <= latest
    BY DEF IInv, PollOK
<1>3. /\ latest \in Nat /\ cursor \in Nat /\ nextCursor \in Nat /\ START_LEDGER \in Nat
      /\ Len(page) \in Nat /\ Len(page) >= 1 /\ DOMAIN page = 1..Len(page)
      /\ Last(page) = page[Len(page)] /\ Head(page) = page[1]
      /\ \A k \in DOMAIN page : page[k] \in Entry /\ page[k].ledger \in Nat
    BY PollFacts
<1>4. /\ Len(chain) \in Nat /\ DOMAIN chain = 1..Len(chain)
      /\ \A i \in DOMAIN chain : chain[i].ledger \in Nat /\ chain[i].ledger \in 1..MaxLedger
      /\ \A i, j \in DOMAIN chain : i <= j => chain[i].ledger <= chain[j].ledger
    BY <1>2, ChainFacts DEF ChainOK
<1>5. /\ n + Len(page) <= Len(chain) /\ \A k \in DOMAIN page : page[k] = chain[n + k]
      /\ \A i \in 1..n : AccountedFor(i)
      /\ \A i \in EventsUpTo(Last(page).ledger) : i > n + Len(page) => AccountedFor(i)
    BY DEF PageFollows
<1>6. /\ \A i : AccountedFor(i) => AccountedFor(i)'
      /\ savedCursor' # None => AccountedUpTo(savedCursor)' /\ AccountedUpTo(START_LEDGER)'
    BY <1>1, AccountsKept
<1>7. page # <<>>
    BY <1>2, <1>3, EmptySeq
<1>8. /\ page' \in Seq(Entry) /\ Len(page') = Len(page) - 1
      /\ \A k \in 1..Len(page') : page'[k] = page[k + 1]
    BY <1>1, <1>2, <1>7, HeadTailProperties
<1>9. nextCursor' = Head(page).ledger
    <2>1. nextCursor' = IF Head(page).ledger > nextCursor THEN Head(page).ledger ELSE nextCursor
        BY DEF Processed
    <2> QED BY <2>1, <1>2, <1>3
<1>10. n + 1 \in DOMAIN chain /\ nextCursor' \in 1..MaxLedger /\ nextCursor' = chain[n + 1].ledger
    BY <1>3, <1>4, <1>5, <1>9
<1>11. /\ cursor' \in LedgerNumber /\ nextCursor' \in LedgerNumber /\ cursor' <= nextCursor'
       /\ START_LEDGER <= cursor'
    BY <1>1, <1>2, <1>3, <1>9, <1>10, LedgerFacts
<1>12. \A i \in 1..(n + 1) : AccountedFor(i)'
    BY <1>5, <1>6
<1>13. \A i \in DOMAIN chain : chain[i].ledger <= Last(page).ledger /\ i > n + Len(page) =>
            AccountedFor(i)'
    BY <1>5, <1>6 DEF EventsUpTo
<1>14. CASE page' = <<>>
    <2>1. Len(page) = 1 /\ Last(page) = Head(page)
        <3>1. Len(page') = 0
            BY <1>14, EmptySeq
        <3>2. Len(page) \in Nat /\ Len(page') = Len(page) - 1
            BY <1>3, <1>8
        <3>3. Len(page) = 1
            BY <3>1, <3>2
        <3>4. Last(page) = page[1]
            BY <3>3, <1>3
        <3> QED BY <3>3, <3>4, <1>3
    <2>2. nextCursor' <= latest'
        BY <2>1, <1>1, <1>2, <1>9
    <2>3. \A i \in DOMAIN chain : chain[i].ledger <= nextCursor' => AccountedFor(i)'
        BY <2>1, <1>3, <1>4, <1>9, <1>12, <1>13
    <2>4. AccountedUpTo(nextCursor)'
        BY <2>2, <2>3, <1>1 DEF AccountedUpTo, EventsUpTo
    <2>5. PollOK'
        BY <2>4, <1>1, <1>8, <1>11, <1>14 DEF PollOK
    <2> QED BY <2>5, <1>1, <1>6, <1>11, <1>14
<1>15. CASE page' # <<>>
    <2>1. /\ Len(page') \in Nat /\ Len(page') >= 1 /\ DOMAIN page' = 1..Len(page')
        BY <1>3, <1>8, <1>15, EmptySeq, LenProperties
    <2>2. Last(page') = Last(page) /\ Head(page') = page[2]
        <3>1. Last(page') = page'[Len(page')] /\ Head(page') = page'[1]
            BY <1>8 DEF Last
        <3> QED BY <3>1, <2>1, <1>3, <1>8
    <2>3. PageFollows(n + 1)'
        <3>1. (n + 1) + Len(page') <= Len(chain')
            BY <2>1, <1>1, <1>3, <1>4, <1>5, <1>8
        <3>2. \A k \in DOMAIN page' : page'[k] = chain'[(n + 1) + k]
            <4> SUFFICES ASSUME NEW k \in DOMAIN page'
                         PROVE  page'[k] = chain[(n + 1) + k]
                BY <1>1
            <4>1. k + 1 \in DOMAIN page /\ page'[k] = page[k + 1] /\ k \in Nat
                BY <2>1, <1>3, <1>8
            <4>2. page[k + 1] = chain[n + (k + 1)]
                BY <4>1, <1>5
            <4>3. n + (k + 1) = (n + 1) + k
                BY <4>1
            <4> QED BY <4>1, <4>2, <4>3
        <3>3. \A i \in EventsUpTo(Last(page).ledger)' : i > (n + 1) + Len(page') => AccountedFor(i)'
            <4>1. Last(page)' = Last(page) /\ (n + 1) + Len(page') = n + Len(page)
                BY <2>1, <2>2, <1>3, <1>8
            <4> HIDE DEF AccountedFor
            <4> QED BY <4>1, <1>1, <1>13 DEF EventsUpTo
        <3> QED BY <3>1, <3>2, <3>3, <1>12 DEF PageFollows
    <2>4. nextCursor' <= Head(page').ledger
        <3>1. 2 \in DOMAIN page
            BY <2>1, <1>3, <1>8
        <3>2. n + 2 \in DOMAIN chain /\ page[2] = chain[n + 2]
            BY <3>1, <1>3, <1>4, <1>5
        <3> QED BY <3>2, <2>2, <1>4, <1>10
    <2>5. n + 1 \in 0..Len(chain') /\ Last(page').ledger <= latest'
        BY <2>2, <1>1, <1>2, <1>4, <1>10
    <2>6. PollOK'
        BY <2>3, <2>4, <2>5, <1>1, <1>8, <1>11, <1>15 DEF PollOK
    <2> QED BY <2>6, <1>1, <1>6, <1>11, <1>15
<1> QED BY <1>14, <1>15

LEMMA HandleNextKeeps ==
    ASSUME IInv, HandleNext
    PROVE  IInv' /\ RowsKept
<1>1. /\ pc = "handleEvent" /\ handleEvent(Head(page).event) /\ Processed /\ lost' = lost
    BY DEF HandleNext
<1>2. UNCHANGED chainVars /\ chain' = chain
    BY <1>1 DEF Processed, chainVars
<1>3. PICK n \in 0..Len(chain) : /\ PageFollows(n) /\ n + 1 \in DOMAIN chain
                                 /\ Head(page) = chain[n + 1] /\ Handling(n + 1)
    BY <1>1, <1>2, HeadFacts
<1>4. /\ RowsKept /\ RowsSound'
      /\ \/ Mirrored(chain[n + 1].event)'
         \/ \E j \in lost : DependsOn(chain[n + 1].event, chain[j].event)
    BY <1>1, <1>3, EventHandled
<1>5. AccountedFor(n + 1)'
    <2>1. CASE Mirrored(chain[n + 1].event)'
        BY <2>1, <1>2, <1>3 DEF AccountedFor
    <2>2. CASE \E j \in lost : DependsOn(chain[n + 1].event, chain[j].event)
        <3>1. AccountedFor(n + 1)
            BY <2>2, <1>3 DEF AccountedFor
        <3> QED BY <3>1, <1>1, <1>2, <1>4, AccountsKept
    <2> QED BY <2>1, <2>2, <1>4
<1>6. lost' \subseteq DOMAIN chain
    BY <1>1 DEF IInv
<1> QED BY <1>1, <1>2, <1>3, <1>4, <1>5, <1>6, LedgerFacts, PageAdvances, StepKeeps

LEMMA HandleNextFailsKeeps ==
    ASSUME IInv, HandleNextFails
    PROVE  IInv' /\ RowsKept
<1>1. /\ pc = "handleEvent" /\ handleEventFails(Head(page).event) /\ Processed
      /\ lost' = lost \cup {i \in DOMAIN chain : chain[i] = Head(page)}
    BY DEF HandleNextFails
<1>2. UNCHANGED chainVars /\ chain' = chain
    BY <1>1 DEF Processed, chainVars
<1>3. lost \subseteq lost' /\ lost' \subseteq DOMAIN chain
    BY <1>1 DEF IInv
<1>4. PICK n \in 0..Len(chain) : /\ PageFollows(n) /\ n + 1 \in DOMAIN chain
                                 /\ Head(page) = chain[n + 1] /\ Handling(n + 1)
    BY <1>1, <1>2, <1>3, HeadFacts
<1>5. RowsKept /\ RowsSound'
    BY <1>1, <1>4, EventFailed
<1>6. AccountedFor(n + 1)'
    <2>1. n + 1 \in lost'
        BY <1>1, <1>4
    <2>2. DependsOn(chain[n + 1].event, chain[n + 1].event)'
        BY DEF DependsOn
    <2> QED BY <2>1, <2>2, <1>2, <1>4 DEF AccountedFor
<1> QED BY <1>1, <1>2, <1>3, <1>4, <1>5, <1>6, LedgerFacts, PageAdvances, StepKeeps

LEMMA CrashKeeps ==
    ASSUME IInv, Crash
    PROVE  IInv' /\ RowsKept
<1>1. /\ UNCHANGED chainVars /\ chain' = chain
      /\ UNCHANGED <<savedCursor, lost>>
      /\ pc' = "down" /\ cursor' = 0 /\ page' = <<>> /\ nextCursor' = 0
      /\ IF pc = "handleEvent" THEN handleEventFails(Head(page).event) ELSE UNCHANGED tables
    BY DEF Crash, chainVars
<1>2. RowsKept /\ RowsSound'
    <2>1. CASE pc = "handleEvent"
        <3>1. PICK n \in 0..Len(chain) : Head(page) = chain[n + 1] /\ Handling(n + 1)
            BY <2>1, <1>1, HeadFacts
        <3> QED BY <3>1, <2>1, <1>1, EventFailed
    <2>2. CASE pc # "handleEvent"
        BY <2>2, <1>1, RowsUntouched
    <2> QED BY <2>1, <2>2
<1>3. savedCursor' # None => AccountedUpTo(savedCursor)' /\ AccountedUpTo(START_LEDGER)'
    BY <1>1, <1>2, AccountsKept
<1>4. PollOK'
    BY <1>1, EmptySeq DEF PollOK
<1>5. lost' \subseteq DOMAIN chain
    BY <1>1 DEF IInv
<1> QED BY <1>1, <1>2, <1>3, <1>4, <1>5, LedgerFacts, StepKeeps

\* A page is the stretch of the closed ledgers after the cursor; what it passes over is
\* accounted for as lost.
LEMMA GetEventsKeeps ==
    ASSUME IInv, getEvents
    PROVE  IInv'
<1>1. /\ UNCHANGED chainVars /\ chain' = chain /\ latest' = latest
      /\ UNCHANGED tables /\ savedCursor' = savedCursor /\ cursor' = cursor
      /\ pc = "getEvents" /\ Served(cursor + 1) /\ page' = EventsFrom(cursor + 1)
      /\ nextCursor' = IF page' = <<>> THEN latest ELSE cursor
      /\ pc' = IF page' = <<>> THEN "writeCursor" ELSE "handleEvent"
      /\ lost' = lost \cup PassedOver
    BY DEF getEvents, chainVars
<1>2. /\ ChainOK /\ lost \subseteq DOMAIN chain /\ START_LEDGER <= cursor
      /\ savedCursor # None => AccountedUpTo(cursor)
    BY <1>1 DEF IInv, PollOK
<1>3. /\ latest \in Nat /\ cursor \in Nat /\ START_LEDGER \in Nat
    BY PollFacts
<1>4. /\ Len(chain) \in Nat /\ DOMAIN chain = 1..Len(chain)
      /\ \A i \in DOMAIN chain : chain[i] \in Entry /\ chain[i].ledger \in Nat
      /\ \A i, j \in DOMAIN chain : i <= j => chain[i].ledger <= chain[j].ledger
      /\ \A i, j \in DOMAIN chain : chain[i] = chain[j] => i = j
    BY <1>2, ChainFacts DEF ChainOK, SameSubject
<1>5. cursor < latest
    <2>1. Retention \in Nat /\ cursor + 1 \in (latest - Retention + 1)..latest
        BY <1>1, ConstantsAssumption DEF Served
    <2> QED BY <2>1, <1>3
<1>6. PICK n, c, m : /\ n = Cardinality(EventsUpTo(cursor))
                     /\ c = Cardinality(EventsUpTo(latest))
                     /\ m = IF n + Limit < c THEN n + Limit ELSE c
    OBVIOUS
<1>7. /\ n \in 0..Len(chain) /\ EventsUpTo(cursor) = 1..n
      /\ c \in 0..Len(chain) /\ EventsUpTo(latest) = 1..c
    BY <1>2, <1>3, <1>6, EventsUpToFacts
<1>8. \A i \in DOMAIN chain : /\ i \in 1..n <=> chain[i].ledger <= cursor
                              /\ i \in 1..c <=> chain[i].ledger <= latest
    BY <1>7 DEF EventsUpTo
<1>9. n <= c
    <2>1. CASE n = 0
        BY <2>1, <1>7
    <2>2. CASE n # 0
        <3>1. n \in DOMAIN chain /\ n \in 1..n
            BY <2>2, <1>4, <1>7
        <3>2. chain[n].ledger <= cursor
            BY <3>1, <1>8
        <3>3. chain[n].ledger <= latest
            BY <3>1, <3>2, <1>3, <1>4, <1>5
        <3>4. n \in 1..c
            BY <3>1, <3>3, <1>8
        <3> QED BY <3>4, <1>7
    <2> QED BY <2>1, <2>2
<1>10. page' = SubSeq(chain, n + 1, m)
    <2>1. (cursor + 1) - 1 = cursor
        BY <1>3
    <2> QED BY <2>1, <1>1, <1>6 DEF EventsFrom
<1>11. /\ n \in Nat /\ c \in Nat /\ m \in n..c /\ m \in Nat /\ c <= Len(chain)
       /\ m = n => c = n
    BY <1>4, <1>6, <1>7, <1>9, ConstantsAssumption
<1>12. /\ page' \in Seq(Entry) /\ Len(page') = m - n
       /\ \A k \in 1..(m - n) : page'[k] = chain[n + k]
    <2>1. \A i \in (n + 1)..m : chain[i] \in Entry
        BY <1>4, <1>11
    <2>2. /\ page' \in Seq(Entry)
          /\ Len(page') = IF n + 1 <= m THEN m - (n + 1) + 1 ELSE 0
          /\ \A k \in 1..(m - (n + 1) + 1) : page'[k] = chain[(n + 1) + k - 1]
        BY <2>1, <1>10, <1>11, SubSeqProperties
    <2>3. m - (n + 1) + 1 = m - n /\ \A k \in Int : (n + 1) + k - 1 = n + k
        BY <1>11
    <2>4. Len(page') = m - n
        <3>1. CASE n + 1 <= m
            BY <3>1, <2>2, <2>3
        <3>2. CASE ~(n + 1 <= m)
            <4>1. m = n /\ m - n = 0
                BY <3>2, <1>11
            <4> QED BY <4>1, <3>2, <2>2
        <3> QED BY <3>1, <3>2
    <2>5. ASSUME NEW k \in 1..(m - n)
          PROVE  page'[k] = chain[n + k]
        <3>1. k \in 1..(m - (n + 1) + 1) /\ k \in Int
            BY <2>3, <1>11
        <3>2. page'[k] = chain[(n + 1) + k - 1]
            BY <3>1, <2>2
        <3> QED BY <3>1, <3>2, <2>3
    <2> QED BY <2>2, <2>4, <2>5
<1>13. lost \subseteq lost' /\ lost' \subseteq DOMAIN chain
    BY <1>1, <1>2 DEF PassedOver, EventsUpTo
<1>14. RowsKept /\ RowsSound'
    BY <1>1, <1>13, RowsUntouched
<1>15. /\ \A i : AccountedFor(i) => AccountedFor(i)'
       /\ savedCursor' # None => AccountedUpTo(savedCursor)' /\ AccountedUpTo(START_LEDGER)'
    BY <1>1, <1>13, <1>14, AccountsKept
<1>16. \A i \in PassedOver : AccountedFor(i)'
    <2> SUFFICES ASSUME NEW i \in PassedOver
                 PROVE  AccountedFor(i)'
        OBVIOUS
    <2>1. i \in lost' /\ i \in DOMAIN chain'
        BY <1>1, <1>13
    <2>2. DependsOn(chain[i].event, chain[i].event)'
        BY DEF DependsOn
    <2> QED BY <2>1, <2>2 DEF AccountedFor
<1>17. CASE page' = <<>>
    <2>1. m = n
        <3>1. Len(page') = 0
            BY <1>17, EmptySeq
        <3> QED BY <3>1, <1>11, <1>12
    <2>2. \A i \in DOMAIN chain : chain[i].ledger <= latest => AccountedFor(i)'
        <3> SUFFICES ASSUME NEW i \in DOMAIN chain, chain[i].ledger <= latest
                     PROVE  AccountedFor(i)'
            OBVIOUS
        <3>1. chain[i].ledger <= cursor /\ i \in EventsUpTo(cursor)
            BY <2>1, <1>8, <1>11 DEF EventsUpTo
        <3>2. CASE savedCursor # None
            BY <3>1, <3>2, <1>2, <1>15 DEF AccountedUpTo
        <3>3. CASE savedCursor = None
            <4>1. i \in PassedOver
                BY <3>1, <3>3, <1>17 DEF PassedOver
            <4> QED BY <4>1, <1>16
        <3> QED BY <3>2, <3>3
    <2>3. nextCursor' = latest /\ pc' = "writeCursor"
        BY <1>1, <1>17
    <2>4. AccountedUpTo(nextCursor)'
        <3>1. nextCursor' <= latest'
            BY <2>3, <1>1, <1>3
        <3> QED BY <3>1, <2>2, <2>3, <1>1 DEF AccountedUpTo, EventsUpTo
    <2>5. PollOK'
        BY <2>3, <2>4, <1>1, <1>2, <1>3, <1>5, <1>12 DEF PollOK
    <2> QED BY <2>3, <2>5, <1>1, <1>13, <1>14, <1>15, LedgerFacts, StepKeeps
<1>18. CASE page' # <<>>
    <2>1. Len(page') # 0
        BY <1>12, <1>18, EmptySeq
    <2>2. /\ n < m /\ m \in DOMAIN chain /\ n + 1 \in DOMAIN chain
          /\ DOMAIN page' = 1..(m - n)
        BY <2>1, <1>4, <1>11, <1>12, LenProperties
    <2>3. Last(page') = chain[m] /\ Head(page') = chain[n + 1]
        <3>1. Last(page') = page'[Len(page')] /\ Head(page') = page'[1]
            BY <1>12 DEF Last
        <3>2. m - n \in 1..(m - n) /\ 1 \in 1..(m - n) /\ n + (m - n) = m
            BY <2>2, <1>11
        <3> QED BY <3>1, <3>2, <1>12
    <2>4. nextCursor' = cursor /\ pc' = "handleEvent"
        BY <1>1, <1>18
    <2>5. \A i \in 1..n : AccountedFor(i)'
        <3> SUFFICES ASSUME NEW i \in 1..n
                     PROVE  AccountedFor(i)'
            OBVIOUS
        <3>1. i \in DOMAIN chain /\ chain[i].ledger <= cursor /\ i \in EventsUpTo(cursor)
            BY <1>4, <1>7, <1>8, <1>11
        <3>2. CASE savedCursor # None
            BY <3>1, <3>2, <1>2, <1>15 DEF AccountedUpTo
        <3>3. CASE savedCursor = None
            <4>1. chain[i].ledger <= chain[m].ledger
                BY <3>1, <2>2, <1>4, <1>11
            <4>2. i \in PassedOver
                BY <3>1, <3>3, <4>1, <2>3, <1>18 DEF PassedOver, EventsUpTo
            <4> QED BY <4>2, <1>16
        <3> QED BY <3>2, <3>3
    <2>6. \A i \in DOMAIN chain : chain[i].ledger <= chain[m].ledger /\ i > m => AccountedFor(i)'
        <3> SUFFICES ASSUME NEW i \in DOMAIN chain, chain[i].ledger <= chain[m].ledger, i > m
                     PROVE  i \in PassedOver
            BY <1>16
        <3>1. ~(chain[i].ledger <= cursor)
            BY <2>2, <1>4, <1>8, <1>11
        <3>2. chain[i] \notin Range(page')
            <4> SUFFICES ASSUME NEW k \in 1..(m - n), chain[i] = page'[k]
                         PROVE  FALSE
                BY <2>2 DEF Range
            <4>1. n + k \in DOMAIN chain /\ n + k <= m /\ chain[i] = chain[n + k]
                BY <2>2, <1>4, <1>11, <1>12
            <4> QED BY <4>1, <1>4, <1>11
        <3> QED BY <3>1, <3>2, <2>3, <1>18 DEF PassedOver, EventsUpTo
    <2>7. PageFollows(n)'
        <3>1. n + Len(page') = m /\ m <= Len(chain')
            BY <1>1, <1>4, <1>11, <1>12
        <3>2. \A k \in DOMAIN page' : page'[k] = chain'[n + k]
            BY <2>2, <1>1, <1>12
        <3>3. \A i \in EventsUpTo(Last(page).ledger)' : i > n + Len(page') => AccountedFor(i)'
            <4> HIDE DEF AccountedFor
            <4>1. Last(page)' = chain[m]
                BY <2>3 DEF Last
            <4> QED BY <4>1, <3>1, <2>6, <1>1 DEF EventsUpTo
        <3> QED BY <3>1, <3>2, <3>3, <2>5 DEF PageFollows
    <2>8. cursor' <= nextCursor' /\ nextCursor' <= Head(page').ledger
        <3>1. ~(chain[n + 1].ledger <= cursor)
            BY <2>2, <1>8, <1>11
        <3> QED BY <3>1, <2>2, <2>3, <2>4, <1>1, <1>3, <1>4
    <2>9. Last(page').ledger <= latest'
        <3>1. m \in 1..c
            BY <2>2, <1>11
        <3> QED BY <3>1, <2>2, <2>3, <1>1, <1>8
    <2>10. PollOK'
        <3>1. n \in 0..Len(chain')
            BY <1>1, <1>7
        <3> QED BY <3>1, <2>4, <2>7, <2>8, <2>9, <1>1, <1>2, <1>12 DEF PollOK
    <2> QED BY <2>4, <2>10, <1>1, <1>13, <1>14, <1>15, <1>18, LedgerFacts, StepKeeps
<1> QED BY <1>17, <1>18

LEMMA Initial ==
    ASSUME Init
    PROVE  IInv
<1>1. /\ chain = <<>> /\ latest = 0 /\ manufacturers = {} /\ batches = [b \in {} |-> None]
      /\ recalls = [id \in {} |-> None] /\ receipts = {} /\ savedCursor = None
      /\ pc = "down" /\ cursor = 0 /\ page = <<>> /\ nextCursor = 0 /\ lost = {}
    BY DEF Init
<1>2. /\ MaxEvents \in Nat /\ MaxLedger \in Nat /\ START_LEDGER \in Nat
    BY ConstantsAssumption
<1>3. Len(chain) = 0 /\ DOMAIN chain = {} /\ chain \in Seq(Entry) /\ page \in Seq(Entry)
    BY <1>1, EmptySeq
<1>4. DOMAIN batches = {} /\ DOMAIN recalls = {}
    BY <1>1
<1>5. \A t : Published(t) = {}
    BY <1>3 DEF Published
<1>6. Accounts = {} /\ IsFiniteSet({}) /\ Cardinality({}) = 0
    BY <1>5, FS_EmptySet DEF Accounts
<1>7. TypeOK
    BY <1>1, <1>2, <1>3, <1>4 DEF TypeOK, LedgerNumber
<1>8. MirrorSound
    BY <1>1, <1>4, <1>7 DEF MirrorSound, ConstraintsHold
<1>9. ChainOK
    BY <1>3 DEF ChainOK
<1>10. CountersOK
    <2>1. \A t : ~\E e : e \in Published(t)
        BY <1>5
    <2>2. /\ IsFiniteSet(Accounts) /\ Cardinality(Accounts) = 0
          /\ IsFiniteSet(Published("RecallIssued"))
          /\ Cardinality(Published("RecallIssued")) = 0
        BY <1>5, <1>6
    <2> QED BY <2>1, <2>2, <1>3 DEF CountersOK
<1>11. RowsHaveCause /\ PollOK
    BY <1>1, <1>3 DEF RowsHaveCause, PollOK
<1> QED BY <1>1, <1>8, <1>9, <1>10, <1>11 DEF IInv

\* Every step keeps the invariant, and every row.
LEMMA NextKeeps ==
    ASSUME IInv, [Next]_vars
    PROVE  IInv' /\ RowsKept
<1>1. CASE PublishEvent
    BY <1>1, PublishEventKeeps DEF PublishEvent, RowsKept, tables
<1>2. CASE CloseLedger \/ UNCHANGED vars
    BY <1>2, CloseLedgerKeeps DEF CloseLedger, vars, RowsKept, tables
<1>3. CASE Start
    BY <1>3, PlaceKeeps DEF Start, RowsKept, tables
<1>4. CASE readCursor
    BY <1>4, ReadCursorKeeps DEF readCursor, RowsKept, tables
<1>5. CASE getEvents
    BY <1>5, GetEventsKeeps DEF getEvents, RowsKept, tables
<1>6. CASE getEventsFails
    BY <1>6, PlaceKeeps DEF getEventsFails, RowsKept, tables
<1>7. CASE HandleNext
    BY <1>7, HandleNextKeeps
<1>8. CASE HandleNextFails
    BY <1>8, HandleNextFailsKeeps
<1>9. CASE writeCursor
    BY <1>9, WriteCursorKeeps DEF writeCursor, RowsKept, tables
<1>10. CASE Crash
    BY <1>10, CrashKeeps
<1> QED BY <1>1, <1>2, <1>3, <1>4, <1>5, <1>6, <1>7, <1>8, <1>9, <1>10 DEF Next

-----------------------------------------------------------------------------
(* Mirror is implemented *)

\* The facts are read off the chain, the rows of the mirror off the tables.
LEMMA FactsStay ==
    ASSUME chain' = chain
    PROVE  UNCHANGED Tables!facts
BY DEF Tables!facts, Products, Notices, Holdings, BatchEvents, Published

\* A batch keeps the row of its manufacturer.
LEMMA MakerStays ==
    ASSUME ConstraintsHold, ConstraintsHold', RowsKept, NEW b \in DOMAIN batches
    PROVE  /\ b \in DOMAIN batches'
           /\ RowsOf(batches[b])' = RowsOf(batches[b])
<1>1. /\ b \in DOMAIN batches' /\ batches'[b] = batches[b]
      /\ manufacturers \subseteq manufacturers'
    BY DEF RowsKept
<1>2. RowsOf(batches[b]) # {}
    BY DEF ConstraintsHold
<1>3. \A r, s \in manufacturers' : r.onChainId = s.onChainId => r = s
    BY DEF ConstraintsHold
<1> QED BY <1>1, <1>2, <1>3 DEF RowsOf

LEMMA ProductRowsStay ==
    ASSUME ConstraintsHold, ConstraintsHold', RowsKept, DOMAIN batches' = DOMAIN batches
    PROVE  ProductRows' = ProductRows
<1>1. \A b \in DOMAIN batches : RowsOf(batches[b])' = RowsOf(batches[b])
    BY MakerStays
<1>2. ASSUME NEW p \in [batch : DOMAIN batches, maker : Account]
      PROVE  RowsOf(batches[p.batch])' = RowsOf(batches[p.batch])
    BY <1>1
<1> QED BY <1>2 DEF ProductRows

\* A placeholder, or another manufacturer, is nothing to the mirror.
LEMMA MakersAlone ==
    ASSUME IInv, IInv', RowsKept, chain' = chain, UNCHANGED <<batches, recalls, receipts>>
    PROVE  UNCHANGED Tables!vars
<1>1. ConstraintsHold /\ ConstraintsHold'
    BY DEF IInv, MirrorSound
<1>2. ProductRows' = ProductRows
    BY <1>1, ProductRowsStay
<1>3. NoticeRows' = NoticeRows /\ HoldingRows' = HoldingRows
    BY DEF NoticeRows, HoldingRows
<1> QED BY <1>2, <1>3, FactsStay DEF Tables!vars, Tables!rows

\* The maker on record of an indexed batch is the one of its event.
MakersTrue ==
    \A e \in BatchEvents : e.batchId \in DOMAIN batches =>
        \A m : [batch |-> e.batchId, maker |-> m] \in ProductRows <=> m = e.manufacturer

LEMMA MakersAreTrue ==
    MirrorSound /\ ChainOK => MakersTrue
<1> SUFFICES ASSUME MirrorSound, ChainOK, NEW e \in BatchEvents, e.batchId \in DOMAIN batches,
                    NEW m
             PROVE  [batch |-> e.batchId, maker |-> m] \in ProductRows <=> m = e.manufacturer
    BY DEF MakersTrue
<1>1. /\ e \in Event /\ e.type = "BatchRegistered"
      /\ \A f \in BatchEvents : f.batchId = e.batchId => f = e
    <2>1. \A f \in BatchEvents :
            \E i \in DOMAIN chain : chain[i].event = f /\ f.type = "BatchRegistered"
        BY PublishedFacts DEF BatchEvents
    <2>2. \A i, j \in DOMAIN chain : SameSubject(chain[i].event, chain[j].event) => i = j
        BY DEF ChainOK
    <2>3. \A i \in DOMAIN chain : chain[i].event \in Event
        BY ChainFacts
    <2> QED BY <2>1, <2>2, <2>3 DEF SameSubject
<1>2. e.manufacturer \in Account
    BY <1>1, EventFacts
<1>3. /\ RowsOf(batches[e.batchId]) # {}
      /\ \A r \in RowsOf(batches[e.batchId]) : r.address = e.manufacturer
    BY <1>1 DEF MirrorSound, ConstraintsHold
<1> QED BY <1>2, <1>3 DEF ProductRows

LEMMA BatchMirrored ==
    ASSUME IInv, IInv', RowsKept, chain' = chain, NEW e \in BatchEvents, UpsertBatch(e)
    PROVE  [Tables!Next]_Tables!vars
<1>1. /\ MirrorSound /\ MirrorSound' /\ ConstraintsHold /\ ConstraintsHold'
      /\ ChainOK /\ ChainOK'
    BY DEF IInv, MirrorSound
<1>2. UNCHANGED <<recalls, receipts>>
    BY DEF UpsertBatch
<1>3. /\ UNCHANGED Tables!facts /\ NoticeRows' = NoticeRows /\ HoldingRows' = HoldingRows
    BY <1>2, FactsStay DEF NoticeRows, HoldingRows
<1>4. CASE DOMAIN batches' = DOMAIN batches
    BY <1>1, <1>3, <1>4, ProductRowsStay DEF Tables!vars, Tables!rows
<1>5. CASE DOMAIN batches' # DOMAIN batches
    <2>1. DOMAIN batches' = DOMAIN batches \cup {e.batchId} /\ e.batchId \notin DOMAIN batches
        BY <1>5 DEF UpsertBatch
    <2> DEFINE p == [batch |-> e.batchId, maker |-> e.manufacturer]
    <2>2. p \in Products
        BY DEF Products
    <2>3. BatchEvents' = BatchEvents
        BY DEF BatchEvents, Published
    <2>4. \A m : [batch |-> e.batchId, maker |-> m] \in ProductRows' <=> m = e.manufacturer
        <3>1. MakersTrue'
            BY <1>1, MakersAreTrue, PTL
        <3> QED BY <3>1, <2>1, <2>3 DEF MakersTrue
    <2>5. ProductRows' = ProductRows \cup {p}
        <3>1. \A q \in ProductRows' \cup ProductRows : q = [batch |-> q.batch, maker |-> q.maker]
            BY DEF ProductRows
        <3>2. \A b \in DOMAIN batches : RowsOf(batches[b])' = RowsOf(batches[b])
            BY <1>1, MakerStays
        <3>3. \A q \in [batch : DOMAIN batches, maker : Account] :
                q \in ProductRows' <=> q \in ProductRows
            BY <3>2, <2>1 DEF ProductRows
        <3>4. ProductRows \subseteq [batch : DOMAIN batches, maker : Account]
            BY DEF ProductRows
        <3>5. \A q \in ProductRows' : \/ q \in [batch : DOMAIN batches, maker : Account]
                                      \/ q.batch = e.batchId
            BY <2>1 DEF ProductRows
        <3>6. \A q \in ProductRows' : q.batch = e.batchId => q = p
            BY <3>1, <2>4
        <3>7. p \in ProductRows'
            BY <2>4
        <3> QED BY <3>3, <3>4, <3>5, <3>6, <3>7
    <2>6. Tables!CopyProduct(p)
        BY <1>3, <2>5 DEF Tables!CopyProduct
    <2> QED BY <2>2, <2>6 DEF Tables!Next
<1> QED BY <1>4, <1>5

LEMMA RecallMirrored ==
    ASSUME IInv, IInv', RowsKept, chain' = chain, NEW e \in Published("RecallIssued"),
           UpsertRecall(e)
    PROVE  [Tables!Next]_Tables!vars
<1>1. UNCHANGED <<manufacturers, batches, receipts>>
    BY DEF UpsertRecall
<1>2. UNCHANGED Tables!facts /\ ProductRows' = ProductRows /\ HoldingRows' = HoldingRows
    BY <1>1, FactsStay DEF ProductRows, RowsOf, HoldingRows
<1>3. CASE recalls' = recalls
    BY <1>2, <1>3 DEF NoticeRows, Tables!vars, Tables!rows
<1>4. CASE recalls' # recalls
    <2> DEFINE n == [number |-> e.recallId, batch |-> e.batchId]
    <2>1. /\ e.batchId \in DOMAIN batches
          /\ recalls' = [id \in DOMAIN recalls \cup {e.recallId} |->
                            IF id = e.recallId THEN e.batchId ELSE recalls[id]]
        BY <1>4 DEF UpsertRecall
    <2>2. NoticeRows' = NoticeRows \cup {n}
        <3>1. \A id \in DOMAIN recalls : recalls'[id] = recalls[id]
            BY DEF RowsKept
        <3>2. /\ DOMAIN recalls' = DOMAIN recalls \cup {e.recallId}
              /\ recalls'[e.recallId] = e.batchId
            BY <2>1
        <3> QED BY <3>1, <3>2 DEF NoticeRows
    <2>3. n \in Notices
        BY DEF Notices
    <2>4. \E p \in ProductRows : p.batch = n.batch
        <3>1. PICK r \in RowsOf(batches[e.batchId]) : TRUE
            BY <2>1 DEF IInv, MirrorSound, ConstraintsHold
        <3>2. r.address \in Account
            BY <3>1 DEF IInv, MirrorSound, TypeOK, RowsOf
        <3>3. [batch |-> e.batchId, maker |-> r.address] \in ProductRows
            BY <2>1, <3>1, <3>2 DEF ProductRows
        <3> QED BY <3>3
    <2>5. Tables!CopyNotice(n)
        BY <1>2, <2>2, <2>4 DEF Tables!CopyNotice
    <2> QED BY <2>3, <2>5 DEF Tables!Next
<1> QED BY <1>3, <1>4

LEMMA ReceiptMirrored ==
    ASSUME chain' = chain, NEW e \in Published("OwnershipRegistered"), CreateReceipt(e)
    PROVE  Tables!Next
<1> DEFINE h == [owner |-> e.owner, batch |-> e.batchId]
<1>1. /\ UNCHANGED <<manufacturers, batches, recalls>>
      /\ receipts' = receipts \cup {[owner |-> e.owner, batchId |-> e.batchId]}
    BY DEF CreateReceipt
<1>2. UNCHANGED Tables!facts /\ ProductRows' = ProductRows /\ NoticeRows' = NoticeRows
    BY <1>1, FactsStay DEF ProductRows, RowsOf, NoticeRows
<1>3. HoldingRows' = HoldingRows \cup {h}
    <2> DEFINE H(r) == [owner |-> r.owner, batch |-> r.batchId]
               row == [owner |-> e.owner, batchId |-> e.batchId]
    <2>1. HoldingRows = {H(r) : r \in receipts} /\ HoldingRows' = {H(r) : r \in receipts'}
        BY DEF HoldingRows
    <2>2. H(row) = h /\ receipts' = receipts \cup {row}
        BY <1>1
    <2> HIDE DEF H, row, h
    <2> QED BY <2>1, <2>2
<1>4. h \in Holdings
    BY DEF Holdings
<1>5. Tables!CopyHolding(h)
    BY <1>2, <1>3 DEF Tables!CopyHolding
<1> QED BY <1>4, <1>5 DEF Tables!Next

LEMMA HandleNextMirrors ==
    ASSUME IInv, IInv', RowsKept, HandleNext
    PROVE  [Tables!Next]_Tables!vars
<1>1. /\ pc = "handleEvent" /\ handleEvent(Head(page).event)
      /\ chain' = chain /\ lost' = lost
    BY DEF HandleNext, Processed, chainVars
<1>2. PICK i \in DOMAIN chain : Head(page) = chain[i]
    BY <1>1, HeadFacts
<1> DEFINE e == chain[i].event
<1>3. /\ e \in Event /\ e \in Published(e.type) /\ handleEvent(e)
    BY <1>1, <1>2, ChainFacts, PublishedFacts DEF IInv
<1> HIDE DEF e
<1>4. CASE e.type = "ManufacturerRegistered"
    <2>1. UNCHANGED <<batches, recalls, receipts>>
        BY <1>3, <1>4 DEF handleEvent, UpsertManufacturer
    <2> QED BY <2>1, <1>1, MakersAlone
<1>5. CASE e.type = "BatchRegistered"
    <2>1. e \in BatchEvents /\ UpsertBatch(e)
        BY <1>3, <1>5 DEF handleEvent, BatchEvents
    <2> QED BY <2>1, <1>1, BatchMirrored
<1>6. CASE e.type = "RecallIssued"
    <2>1. e \in Published("RecallIssued") /\ UpsertRecall(e)
        BY <1>3, <1>6 DEF handleEvent
    <2> QED BY <2>1, <1>1, RecallMirrored
<1>7. CASE e.type = "OwnershipRegistered"
    <2>1. e \in Published("OwnershipRegistered") /\ CreateReceipt(e)
        BY <1>3, <1>7 DEF handleEvent
    <2> QED BY <2>1, <1>1, ReceiptMirrored
<1> QED BY <1>3, <1>4, <1>5, <1>6, <1>7, EventFacts

LEMMA FailureMirrors ==
    ASSUME IInv, IInv', RowsKept, HandleNextFails \/ Crash
    PROVE  UNCHANGED Tables!vars
<1>1. /\ chain' = chain
      /\ \/ \E e : handleEventFails(e)
         \/ UNCHANGED tables
    BY DEF HandleNextFails, Crash, Processed, chainVars
<1>2. UNCHANGED <<batches, recalls, receipts>>
    BY <1>1 DEF handleEventFails, tables
<1> QED BY <1>1, <1>2, MakersAlone

LEMMA PublishEventMirrors ==
    ASSUME IInv, PublishEvent
    PROVE  [Tables!Next]_Tables!vars
<1>1. /\ ChainOK /\ CountersOK /\ Len(chain) < MaxEvents
      /\ UNCHANGED <<manufacturers, batches, recalls, receipts>>
    BY DEF IInv, PublishEvent, tables
<1>2. PICK e \in PossibleEvents : chain' = Append(chain, [ledger |-> latest + 1, event |-> e])
    BY DEF PublishEvent
<1>3. \A t : Published(t)' = IF e.type = t THEN Published(t) \cup {e} ELSE Published(t)
    BY <1>1, <1>2, PublishedGrows
<1>4. UNCHANGED Tables!rows
    BY <1>1 DEF Tables!rows, ProductRows, RowsOf, NoticeRows, HoldingRows
<1>5. /\ e \in Event
      /\ \A i \in DOMAIN chain : ~SameSubject(e, chain[i].event)
      /\ e.type \in {"BatchRegistered", "RecallIssued"} =>
            \E j \in DOMAIN chain : Announces(chain[j].event, e)
      /\ e.type = "RecallIssued" => e.recallId = Cardinality(Published("RecallIssued")) + 1
      /\ e.type = "OwnershipRegistered" => \E f \in BatchEvents : f.batchId = e.batchId
    BY <1>1, <1>2, PossibleFacts
<1>6. CASE e.type = "ManufacturerRegistered"
    <2>1. /\ Published("BatchRegistered")' = Published("BatchRegistered")
          /\ Published("RecallIssued")' = Published("RecallIssued")
          /\ Published("OwnershipRegistered")' = Published("OwnershipRegistered")
        BY <1>3, <1>6
    <2> QED BY <1>4, <2>1 DEF Tables!vars, Tables!facts, Products, Notices, Holdings, BatchEvents
<1>7. CASE e.type = "BatchRegistered"
    <2> DEFINE P(f) == [batch |-> f.batchId, maker |-> f.manufacturer]
    <2>1. /\ BatchEvents' = BatchEvents \cup {e}
          /\ Published("RecallIssued")' = Published("RecallIssued")
          /\ Published("OwnershipRegistered")' = Published("OwnershipRegistered")
        BY <1>3, <1>7 DEF BatchEvents
    <2>2. Products = {P(f) : f \in BatchEvents} /\ Products' = {P(f) : f \in BatchEvents'}
        BY DEF Products
    <2>3. /\ P(e) \in Tables!Product
          /\ \A f : P(f).batch = f.batchId
        BY <1>5, <1>7, EventFacts DEF Tables!Product
    <2>4. \A f \in BatchEvents : f.batchId # e.batchId
        BY <1>5, <1>7, PublishedFacts DEF BatchEvents, SameSubject
    <2> HIDE DEF P
    <2>5. Tables!Produce(P(e))
        <3>1. Products' = Products \cup {P(e)}
            BY <2>1, <2>2
        <3>2. \A q \in Products : q.batch # P(e).batch
            BY <2>2, <2>3, <2>4
        <3>3. UNCHANGED <<Notices, Holdings>>
            BY <2>1 DEF Notices, Holdings
        <3> QED BY <3>1, <3>2, <3>3, <1>4 DEF Tables!Produce
    <2> QED BY <2>3, <2>5 DEF Tables!Next
<1>8. ASSUME e.type \in {"RecallIssued", "OwnershipRegistered"}
      PROVE  /\ Products' = Products
             /\ \E p \in Products : p.batch = e.batchId
    <2>1. BatchEvents' = BatchEvents
        BY <1>3, <1>8 DEF BatchEvents
    <2>2. \E f \in BatchEvents : f.batchId = e.batchId
        <3>1. CASE e.type = "RecallIssued"
            BY <3>1, <1>5, PublishedFacts DEF Announces, BatchEvents
        <3>2. CASE e.type = "OwnershipRegistered"
            BY <3>2, <1>5
        <3> QED BY <3>1, <3>2, <1>8
    <2>3. Products' = Products
        BY <2>1 DEF Products
    <2>4. PICK f \in BatchEvents : f.batchId = e.batchId
        BY <2>2
    <2>5. [batch |-> f.batchId, maker |-> f.manufacturer] \in Products
        BY DEF Products
    <2> QED BY <2>3, <2>4, <2>5
<1>9. CASE e.type = "RecallIssued"
    <2> DEFINE N(f) == [number |-> f.recallId, batch |-> f.batchId]
               R == Published("RecallIssued")
    <2>1. /\ R' = R \cup {e}
          /\ Published("OwnershipRegistered")' = Published("OwnershipRegistered")
        BY <1>3, <1>9
    <2>2. Notices = {N(f) : f \in R} /\ Notices' = {N(f) : f \in R'}
        BY DEF Notices
    <2>3. e.recallId \in 1..MaxEvents
        <3>1. Cardinality(R) \in Nat /\ Cardinality(R) <= Len(chain) /\ Len(chain) \in Nat
            BY <1>1, ChainFacts, FS_CardinalityType DEF CountersOK
        <3> QED BY <3>1, <1>1, <1>5, <1>9, ConstantsAssumption
    <2>4. /\ N(e) \in Tables!Notice
          /\ \A f : N(f).number = f.recallId /\ N(f).batch = f.batchId
        BY <2>3, <1>5, <1>9, EventFacts DEF Tables!Notice
    <2>5. \A f \in R : f.recallId # e.recallId
        BY <1>5, <1>9, PublishedFacts DEF SameSubject
    <2> HIDE DEF N, R
    <2>6. Tables!Recall(N(e))
        <3>1. Notices' = Notices \cup {N(e)}
            BY <2>1, <2>2
        <3>2. \A m \in Notices : m.number # N(e).number
            BY <2>2, <2>4, <2>5
        <3>3. Holdings' = Holdings
            BY <2>1 DEF Holdings
        <3>4. Products' = Products /\ \E p \in Products : p.batch = N(e).batch
            BY <2>4, <1>8, <1>9
        <3> QED BY <3>1, <3>2, <3>3, <3>4, <1>4 DEF Tables!Recall
    <2> QED BY <2>4, <2>6 DEF Tables!Next
<1>10. CASE e.type = "OwnershipRegistered"
    <2> DEFINE H(f) == [owner |-> f.owner, batch |-> f.batchId]
               O == Published("OwnershipRegistered")
    <2>1. /\ O' = O \cup {e}
          /\ Published("RecallIssued")' = Published("RecallIssued")
        BY <1>3, <1>10
    <2>2. Holdings = {H(f) : f \in O} /\ Holdings' = {H(f) : f \in O'}
        BY DEF Holdings
    <2>3. H(e) \in Tables!Holding /\ H(e).batch = e.batchId
        BY <1>5, <1>10, EventFacts DEF Tables!Holding
    <2> HIDE DEF H, O
    <2>4. Tables!Hold(H(e))
        <3>1. Holdings' = Holdings \cup {H(e)}
            BY <2>1, <2>2
        <3>2. Notices' = Notices
            BY <2>1 DEF Notices
        <3>3. Products' = Products /\ \E p \in Products : p.batch = H(e).batch
            BY <2>3, <1>8, <1>10
        <3> QED BY <3>1, <3>2, <3>3, <1>4 DEF Tables!Hold
    <2> QED BY <2>3, <2>4 DEF Tables!Next
<1> QED BY <1>5, <1>6, <1>7, <1>9, <1>10, EventFacts

LEMMA NextMirrors ==
    ASSUME IInv, IInv', RowsKept, [Next]_vars
    PROVE  [Tables!Next]_Tables!vars
<1>1. CASE PublishEvent
    BY <1>1, PublishEventMirrors
<1>2. CASE HandleNext
    BY <1>2, HandleNextMirrors
<1>3. CASE HandleNextFails \/ Crash
    BY <1>3, FailureMirrors
<1>4. CASE \/ CloseLedger \/ Start \/ readCursor \/ getEvents \/ getEventsFails
           \/ writeCursor \/ UNCHANGED vars
    <2>1. chain' = chain /\ UNCHANGED <<batches, recalls, receipts>>
        BY <1>4 DEF CloseLedger, Start, readCursor, getEvents, getEventsFails, writeCursor,
                    vars, chainVars, tables
    <2> QED BY <2>1, MakersAlone
<1> QED BY <1>1, <1>2, <1>3, <1>4 DEF Next

-----------------------------------------------------------------------------
(* The theorems *)

\* IInv is an invariant of the indexer, wherever it starts, pages end, calls fail and the
\* process dies.
THEOREM Invariant == Spec => []IInv
<1>1. IInv /\ [Next]_vars => IInv'
    BY NextKeeps
<1> QED BY Initial, <1>1, PTL DEF Spec

\* Whatever was missed, failed or read twice, the rows are true to the chain (handleEvent).
THEOREM MirrorAlwaysSound == Spec => []MirrorSound
<1>1. IInv => MirrorSound
    BY DEF IInv
<1> QED BY <1>1, Invariant, PTL

\* Up to the saved cursor an event is missing only if it, or what it needs a row of, was
\* passed over or met a failing call (pollOnce).
THEOREM LossesAlwaysHaveCause == Spec => []LossesHaveCause
<1>1. IInv => LossesHaveCause
    BY DEF IInv, AccountedUpTo, LossesHaveCause
<1> QED BY <1>1, Invariant, PTL

\* Reading events again changes no row that is there (handleEvent).
THEOREM RerunAlwaysChangesNothing == Spec => RerunChangesNothing
<1>1. IInv /\ [Next]_vars =>
        [/\ manufacturers \subseteq manufacturers'
         /\ \A b \in DOMAIN batches :
                b \in DOMAIN batches' /\ batches'[b] = batches[b]
         /\ \A id \in DOMAIN recalls :
                id \in DOMAIN recalls' /\ recalls'[id] = recalls[id]
         /\ receipts \subseteq receipts']_vars
    BY NextKeeps DEF RowsKept
<1> QED BY <1>1, Invariant, PTL DEF Spec, RerunChangesNothing

\* The indexer implements Mirror: facts and rows are added one at a time and stay, each row
\* is the copy of a fact, the maker of a batch included, and a recall's comes after its
\* batch's, however calls fail and the process dies (pollOnce, handleEvent).
THEOREM MirrorImplemented == Spec => ImplementsMirror
<1>1. Init => Tables!Init
    BY DEF Init, Tables!Init, Products, Notices, Holdings, BatchEvents, Published,
           ProductRows, NoticeRows, HoldingRows
<1>2. IInv /\ [Next]_vars => IInv' /\ RowsKept
    BY NextKeeps
<1>3. IInv /\ IInv' /\ [Next]_vars => [Tables!Next]_Tables!vars
    BY <1>2, NextMirrors
<1> QED BY <1>1, <1>3, Invariant, PTL DEF Spec, ImplementsMirror, Tables!Spec

=============================================================================
