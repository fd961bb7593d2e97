--------------------------- MODULE VerifyApiProofs ---------------------------
(***************************************************************************)
(* Theorems about the read path, for any batches, serials, requests, cache *)
(* lifetime and duration of a request.                                     *)
(***************************************************************************)
EXTENDS VerifyApi, FiniteSetTheorems, TLAPS

\* The types of the chain's copies in TypeOK.
WorldTypeOK ==
    /\ now \in 0..MaxTime
    /\ range \in [BatchId -> SUBSET Serial]
    /\ batchIndexedAt \in [BatchId -> (0..MaxTime) \cup {None}]
    /\ DOMAIN recallIndexedAt \subseteq {recall.id : recall \in recalls}

ScansTypeOK ==
    scans \subseteq [batchId : BatchId, serialNumber : Asked, outcome : Outcome]

\* The rest of TypeOK follows from what is known of the requests and the cache.
LEMMA TypeFollows ==
    ASSUME WorldTypeOK, ScansTypeOK, CacheOK, \A r \in Request : RequestOK(req[r])
    PROVE  TypeOK
<1>1. \A k \in Key : store[k] = None \/ store[k].value \in Outcome
    BY DEF CacheOK
<1>2. \A r \in Request : req[r].pc \in {"verified", "respond"} =>
        req[r].outcome \in Outcome \/ req[r].serial = None
    BY DEF RequestOK, VerdictOK
<1> QED BY <1>1, <1>2 DEF TypeOK, WorldTypeOK, ScansTypeOK

\* A time that a duration bounds is bounded by a longer one, and later too.
LEMMA StillBounded ==
    ASSUME NEW time \in Nat, NEW before \in Nat, NEW after \in Nat, before <= after,
           NEW short \in Nat, NEW more \in Nat, time <= before + short
    PROVE  time <= before + (more + short) /\ time <= after + short
OBVIOUS

\* What the invariant says of a request.
LEMMA RequestFacts ==
    ASSUME IInv, NEW r \in Request, Busy(r)
    PROVE  /\ req[r] \in Arrived \cup Merging
           /\ req[r].batchId \in BatchId /\ req[r].since \in Nat
           /\ req[r].serial \in Asked \cup {None}
           /\ req[r].outcome \in Outcome \cup {None}
           /\ req[r].since <= now /\ now <= req[r].since + MaxDuration
           /\ VerdictOK(req[r]) /\ RecallsOK(req[r])
           /\ now \in Nat /\ MaxDuration \in Nat /\ TTL \in Nat
<1>1. RequestOK(req[r]) /\ req[r].pc # "idle"
    BY DEF IInv, Busy
<1>2. req[r] \in Arrived \cup Merging
    BY <1>1 DEF RequestOK, Idle
<1>3. /\ req[r].batchId \in BatchId /\ req[r].since \in Nat
      /\ req[r].serial \in Asked \cup {None}
      /\ req[r].outcome \in Outcome \cup {None}
    BY <1>2 DEF Arrived, Merging
<1>4. now \in Nat
    BY DEF IInv, TypeOK
<1> QED BY <1>1, <1>2, <1>3, <1>4, ConstantsAssumption DEF RequestOK

-----------------------------------------------------------------------------
(* Steps of the chain, the indexer and the clock *)

\* A step of the world makes no verdict wrong that was right: a batch is registered
\* and indexed once, and a recall gets its row at the time of the step.
LEMMA WorldStepKeeps ==
    ASSUME IInv, UNCHANGED <<store, scans, req>>, WorldTypeOK', RowsOK',
           \/ now' = now
           \/ /\ now' = now + 1
              /\ \A r \in Request : Busy(r) => now - req[r].since < MaxDuration,
           \A b \in BatchId : range'[b] = range[b] \/ range[b] = {},
           \A b \in BatchId : batchIndexedAt'[b] \in {batchIndexedAt[b], now},
           \A b \in BatchId : batchIndexedAt[b] # None =>
                batchIndexedAt'[b] = batchIndexedAt[b],
           recalls \subseteq recalls',
           \A recall \in recalls' : recall \in recalls
                \/ recall.id \notin DOMAIN recallIndexedAt',
           \A id \in DOMAIN recallIndexedAt' :
                \/ id \in DOMAIN recallIndexedAt
                   /\ recallIndexedAt'[id] = recallIndexedAt[id]
                \/ recallIndexedAt'[id] = now
    PROVE  IInv'
<1>1. /\ now \in Nat /\ now' \in Nat /\ now <= now'
      /\ TTL \in Nat /\ MaxDuration \in Nat /\ None \notin Nat /\ None \notin Outcome
    BY ConstantsAssumption DEF IInv, TypeOK
<1>2. \A b \in BatchId : batchIndexedAt[b] \in Nat \cup {None}
    BY DEF IInv, TypeOK
<1>3. CacheOK'
    <2> SUFFICES ASSUME NEW b \in BatchId, NEW s \in Asked, store[b, s] # None
                 PROVE  (/\ store[b, s].expiresAt <= now + TTL
                         /\ Sound(b, s, store[b, s].value)
                         /\ Precedes(b, store[b, s].value, store[b, s].expiresAt,
                                     MaxDuration + TTL))'
        <3>1. store' \in [Key -> [value : Outcome, expiresAt : Nat] \cup {None}]
            BY DEF IInv, CacheOK
        <3> QED BY <3>1 DEF CacheOK
    <2> DEFINE value == store[b, s].value
               time == store[b, s].expiresAt
    <2>1. /\ value \in Outcome /\ time \in Nat /\ time <= now + TTL
          /\ Sound(b, s, value) /\ Precedes(b, value, time, MaxDuration + TTL)
        BY DEF IInv, CacheOK, Key
    <2>2. value' = value /\ time' = time
        OBVIOUS
    <2> HIDE DEF value, time
    <2>3. Sound(b, s, value)'
        BY <2>1, <2>2 DEF Sound, verify_serial, Outcome
    <2>4. time <= now + (MaxDuration + TTL) /\ time <= now' + TTL
        <3>1. /\ now \in Nat /\ now' \in Nat /\ now <= now'
              /\ TTL \in Nat /\ MaxDuration \in Nat
            BY <1>1
        <3>2. time \in Nat /\ time <= now + TTL
            BY <2>1
        <3> QED BY <3>1, <3>2, StillBounded
    <2>5. Precedes(b, value, time, MaxDuration + TTL)'
        <3>1. CASE batchIndexedAt'[b] = batchIndexedAt[b]
            BY <2>1, <2>2, <3>1 DEF Precedes
        <3>2. CASE batchIndexedAt'[b] = now
            BY <2>2, <2>4, <3>2 DEF Precedes
        <3> QED BY <3>1, <3>2
    <2>6. time' <= now' + TTL
        BY <2>2, <2>4
    <2> QED BY <2>3, <2>5, <2>6 DEF value, time
<1>4. ScansOK'
    BY DEF IInv, TypeOK, ScansOK, Sound, verify_serial, Outcome
<1>5. \A r \in Request : RequestOK(req[r])'
    <2> SUFFICES ASSUME NEW r \in Request PROVE RequestOK(req[r])'
        OBVIOUS
    <2>1. CASE ~Busy(r)
        BY <2>1 DEF IInv, RequestOK, Busy, Idle, Arrived, Merging
    <2>2. CASE Busy(r)
        <3> DEFINE q == req[r]
        <3>1. /\ q \in Arrived \cup Merging /\ q.batchId \in BatchId /\ q.since \in Nat
              /\ q.outcome \in Outcome \cup {None}
              /\ q.since <= now /\ now <= q.since + MaxDuration
              /\ VerdictOK(q) /\ RecallsOK(q)
            BY <2>2, RequestFacts
        <3>2. q.since <= now' /\ now' <= q.since + MaxDuration
            BY <3>1, <2>2, <1>1
        <3>3. (q \in {Idle} \cup Arrived \cup Merging)'
            BY <3>1 DEF Arrived, Merging
        <3>4. VerdictOK(q)'
            <4>1. q.pc = "verified" => Precedes(q.batchId, q.outcome, q.since, 0)'
                BY <3>1, <1>1, <1>2 DEF VerdictOK, Precedes
            <4>2. q.pc \in {"recalls", "rows", "respond"} =>
                    Precedes(q.batchId, q.outcome, q.since, MaxDuration + TTL)'
                BY <3>1, <1>1, <1>2 DEF VerdictOK, Precedes
            <4>3. q.pc \in {"verified", "recalls", "rows", "respond"}
                    /\ q.outcome # None => Sound(q.batchId, q.serial, q.outcome)'
                BY <3>1 DEF VerdictOK, Sound, verify_serial, Outcome
            <4> QED BY <3>1, <4>1, <4>2, <4>3 DEF VerdictOK
        <3>5. RecallsOK(q)'
            <4>1. RecallsOf(q.batchId) \subseteq RecallsOf(q.batchId)'
                BY DEF RecallsOf
            <4>2. \A recall \in RecallsOf(q.batchId)' :
                    /\ recall.id \in DOMAIN recallIndexedAt'
                    /\ recallIndexedAt'[recall.id] < q.since
                    => /\ recall \in RecallsOf(q.batchId)
                       /\ recall.id \in DOMAIN recallIndexedAt
                       /\ recallIndexedAt[recall.id] < q.since
                BY <3>1, <1>1 DEF RecallsOf
            <4> QED BY <3>1, <4>1, <4>2 DEF RecallsOK, Covers
        <3> QED BY <3>2, <3>3, <3>4, <3>5 DEF RequestOK
    <2> QED BY <2>1, <2>2
<1>6. ScansTypeOK'
    BY DEF IInv, TypeOK, ScansTypeOK
<1>7. TypeOK'
    <2>1. WorldTypeOK' /\ ScansTypeOK' /\ CacheOK' /\ \A r \in Request : RequestOK(req[r])'
        BY <1>3, <1>5, <1>6
    <2> QED BY <2>1, <1>3, <1>5 DEF TypeOK, WorldTypeOK, ScansTypeOK, CacheOK,
            RequestOK, VerdictOK
<1> QED BY <1>3, <1>4, <1>5, <1>7 DEF IInv

LEMMA RegisterBatchKeeps ==
    ASSUME IInv, NEW b \in BatchId, NEW serials \in SUBSET Serial,
           RegisterBatch(b, serials)
    PROVE  IInv'
<1>1. /\ range[b] = {} /\ serials # {} /\ range' = [range EXCEPT ![b] = serials]
      /\ UNCHANGED <<now, recalls, batchIndexedAt, recallIndexedAt, store, scans, req>>
    BY DEF RegisterBatch
<1>2. range \in [BatchId -> SUBSET Serial]
    BY DEF IInv, TypeOK
<1>3. \A c \in BatchId : range'[c] = range[c] \/ range[c] = {}
    BY <1>1, <1>2
<1>4. WorldTypeOK'
    BY <1>1, <1>2 DEF IInv, TypeOK, WorldTypeOK
<1>5. RowsOK'
    <2>1. \A c \in BatchId : range[c] # {} => range'[c] # {}
        BY <1>1, <1>2
    <2> QED BY <2>1, <1>1 DEF IInv, RowsOK
<1>6. /\ \A c \in BatchId : batchIndexedAt'[c] \in {batchIndexedAt[c], now}
      /\ \A c \in BatchId : batchIndexedAt[c] # None =>
            batchIndexedAt'[c] = batchIndexedAt[c]
      /\ recalls \subseteq recalls'
      /\ \A recall \in recalls' : recall \in recalls
            \/ recall.id \notin DOMAIN recallIndexedAt'
      /\ \A id \in DOMAIN recallIndexedAt' :
            \/ id \in DOMAIN recallIndexedAt
               /\ recallIndexedAt'[id] = recallIndexedAt[id]
            \/ recallIndexedAt'[id] = now
    BY <1>1
<1> QED BY <1>1, <1>3, <1>4, <1>5, <1>6, WorldStepKeeps

\* The new recall's number is the next one, and no row has it yet.
LEMMA IssueRecallKeeps ==
    ASSUME IInv, NEW b \in BatchId, NEW serials \in SUBSET Serial,
           IssueRecall(b, serials)
    PROVE  IInv'
<1> DEFINE new == [id |-> Cardinality(recalls) + 1, batchId |-> b,
                   serials |-> serials, issuedAt |-> now]
<1>1. /\ recalls' = recalls \cup {new}
      /\ UNCHANGED <<now, range, batchIndexedAt, recallIndexedAt, store, scans, req>>
    BY DEF IssueRecall
<1>2. /\ IsFiniteSet(recalls) /\ \A recall \in recalls : recall.id \in 1..Cardinality(recalls)
      /\ DOMAIN recallIndexedAt \subseteq {recall.id : recall \in recalls}
    BY DEF IInv, RowsOK, TypeOK
<1>3. Cardinality(recalls) \in Nat /\ new.id = Cardinality(recalls) + 1
    BY <1>2, FS_CardinalityType
<1> HIDE DEF new
<1>4. new.id \notin DOMAIN recallIndexedAt /\ new \notin recalls
    <2>1. \A recall \in recalls : recall.id # new.id
        BY <1>2, <1>3
    <2> QED BY <2>1, <1>2
<1>5. /\ IsFiniteSet(recalls') /\ Cardinality(recalls') = Cardinality(recalls) + 1
    BY <1>1, <1>2, <1>4, FS_AddElement
<1>6. RowsOK'
    <2>1. \A recall \in recalls' : recall.id \in 1..Cardinality(recalls')
        BY <1>1, <1>2, <1>3, <1>5
    <2> QED BY <2>1, <1>1, <1>5 DEF IInv, RowsOK
<1>7. WorldTypeOK'
    BY <1>1 DEF IInv, TypeOK, WorldTypeOK
<1>8. /\ \A c \in BatchId : range'[c] = range[c] \/ range[c] = {}
      /\ \A c \in BatchId : batchIndexedAt'[c] \in {batchIndexedAt[c], now}
      /\ \A c \in BatchId : batchIndexedAt[c] # None =>
            batchIndexedAt'[c] = batchIndexedAt[c]
      /\ recalls \subseteq recalls'
      /\ \A recall \in recalls' : recall \in recalls
            \/ recall.id \notin DOMAIN recallIndexedAt'
      /\ \A id \in DOMAIN recallIndexedAt' :
            \/ id \in DOMAIN recallIndexedAt
               /\ recallIndexedAt'[id] = recallIndexedAt[id]
            \/ recallIndexedAt'[id] = now
    BY <1>1, <1>4
<1> QED BY <1>1, <1>6, <1>7, <1>8, WorldStepKeeps

LEMMA IndexBatchKeeps ==
    ASSUME IInv, NEW b \in BatchId, IndexBatch(b)
    PROVE  IInv'
<1>1. /\ range[b] # {} /\ batchIndexedAt[b] = None
      /\ batchIndexedAt' = [batchIndexedAt EXCEPT ![b] = now]
      /\ UNCHANGED <<now, range, recalls, recallIndexedAt, store, scans, req>>
    BY DEF IndexBatch
<1>2. /\ batchIndexedAt \in [BatchId -> (0..MaxTime) \cup {None}]
      /\ now \in 0..MaxTime /\ now \in Nat
    BY DEF IInv, TypeOK
<1>3. /\ \A c \in BatchId : batchIndexedAt'[c] \in {batchIndexedAt[c], now}
      /\ \A c \in BatchId : batchIndexedAt[c] # None =>
            batchIndexedAt'[c] = batchIndexedAt[c]
    BY <1>1, <1>2
<1>4. WorldTypeOK'
    BY <1>1, <1>2 DEF IInv, TypeOK, WorldTypeOK
<1>5. RowsOK'
    <2>1. \A c \in BatchId : batchIndexedAt'[c] # None =>
            batchIndexedAt'[c] <= now /\ range[c] # {}
        <3>1. batchIndexedAt'[b] = now /\ now <= now
            BY <1>1, <1>2
        <3>2. \A c \in BatchId : c # b => batchIndexedAt'[c] = batchIndexedAt[c]
            BY <1>1, <1>2
        <3> QED BY <3>1, <3>2, <1>1 DEF IInv, RowsOK
    <2> QED BY <2>1, <1>1 DEF IInv, RowsOK
<1>6. /\ \A c \in BatchId : range'[c] = range[c] \/ range[c] = {}
      /\ recalls \subseteq recalls'
      /\ \A recall \in recalls' : recall \in recalls
            \/ recall.id \notin DOMAIN recallIndexedAt'
      /\ \A id \in DOMAIN recallIndexedAt' :
            \/ id \in DOMAIN recallIndexedAt
               /\ recallIndexedAt'[id] = recallIndexedAt[id]
            \/ recallIndexedAt'[id] = now
    BY <1>1
<1> QED BY <1>1, <1>3, <1>4, <1>5, <1>6, WorldStepKeeps

LEMMA IndexRecallKeeps ==
    ASSUME IInv, NEW recall \in recalls, IndexRecall(recall)
    PROVE  IInv'
<1>1. /\ recallIndexedAt' =
            [id \in DOMAIN recallIndexedAt \cup {recall.id} |->
                IF id = recall.id THEN now ELSE recallIndexedAt[id]]
      /\ UNCHANGED <<now, range, recalls, batchIndexedAt, store, scans, req>>
    BY DEF IndexRecall
<1>2. /\ DOMAIN recallIndexedAt' = DOMAIN recallIndexedAt \cup {recall.id}
      /\ \A id \in DOMAIN recallIndexedAt' :
            \/ id \in DOMAIN recallIndexedAt
               /\ recallIndexedAt'[id] = recallIndexedAt[id]
            \/ recallIndexedAt'[id] = now
    BY <1>1
<1>3. WorldTypeOK'
    BY <1>1, <1>2 DEF IInv, TypeOK, WorldTypeOK
<1>4. RowsOK'
    <2>1. now \in 0..now
        BY DEF IInv, TypeOK
    <2> QED BY <2>1, <1>1, <1>2 DEF IInv, RowsOK
<1>5. /\ \A c \in BatchId : range'[c] = range[c] \/ range[c] = {}
      /\ \A c \in BatchId : batchIndexedAt'[c] \in {batchIndexedAt[c], now}
      /\ \A c \in BatchId : batchIndexedAt[c] # None =>
            batchIndexedAt'[c] = batchIndexedAt[c]
      /\ recalls \subseteq recalls'
      /\ \A r \in recalls' : r \in recalls \/ r.id \notin DOMAIN recallIndexedAt'
    BY <1>1
<1> QED BY <1>1, <1>2, <1>3, <1>4, <1>5, WorldStepKeeps

LEMMA TickKeeps ==
    ASSUME IInv, Tick
    PROVE  IInv'
<1>1. /\ now < MaxTime /\ now' = now + 1 /\ now \in Nat /\ MaxTime \in Nat
      /\ \A r \in Request : Busy(r) => now - req[r].since < MaxDuration
      /\ UNCHANGED <<range, recalls, batchIndexedAt, recallIndexedAt, store, scans, req>>
    BY ConstantsAssumption DEF Tick, IInv, TypeOK
<1>2. WorldTypeOK'
    BY <1>1 DEF IInv, TypeOK, WorldTypeOK
<1>3. RowsOK'
    <2>1. \A b \in BatchId : batchIndexedAt[b] # None =>
            batchIndexedAt[b] \in Nat /\ batchIndexedAt[b] <= now
        BY DEF IInv, TypeOK, RowsOK
    <2>2. \A b \in BatchId : batchIndexedAt[b] # None => batchIndexedAt[b] <= now'
        BY <2>1, <1>1
    <2>3. \A id \in DOMAIN recallIndexedAt : recallIndexedAt[id] \in 0..now'
        BY <1>1 DEF IInv, RowsOK
    <2> QED BY <2>2, <2>3, <1>1 DEF IInv, RowsOK
<1>4. /\ \A c \in BatchId : range'[c] = range[c] \/ range[c] = {}
      /\ \A c \in BatchId : batchIndexedAt'[c] \in {batchIndexedAt[c], now}
      /\ \A c \in BatchId : batchIndexedAt[c] # None =>
            batchIndexedAt'[c] = batchIndexedAt[c]
      /\ recalls \subseteq recalls'
      /\ \A r \in recalls' : r \in recalls \/ r.id \notin DOMAIN recallIndexedAt'
      /\ \A id \in DOMAIN recallIndexedAt' :
            \/ id \in DOMAIN recallIndexedAt
               /\ recallIndexedAt'[id] = recallIndexedAt[id]
            \/ recallIndexedAt'[id] = now
    BY <1>1
<1> QED BY <1>1, <1>2, <1>3, <1>4, WorldStepKeeps

-----------------------------------------------------------------------------
(* Steps of a request *)

\* A step of one request keeps the invariant if what is known of it afterwards is
\* right, and so is what it leaves in the cache and in the scans.
LEMMA RequestStepKeeps ==
    ASSUME IInv, UNCHANGED world, NEW r \in Request, NEW q, RequestOK(q),
           req' = [req EXCEPT ![r] = q],
           CacheOK', ScansTypeOK', ScansOK'
    PROVE  IInv'
<1>1. UNCHANGED <<now, range, recalls, batchIndexedAt, recallIndexedAt>>
    BY DEF world
<1>2. /\ DOMAIN req' = Request /\ req'[r] = q
      /\ \A e \in Request : e # r => req'[e] = req[e]
    BY DEF IInv
<1>3. WorldTypeOK' /\ RowsOK'
    BY <1>1 DEF IInv, TypeOK, WorldTypeOK, RowsOK
<1>4. \A e \in Request : RequestOK(req'[e])
    BY <1>2 DEF IInv
<1>5. \A e \in Request : RequestOK(req[e])'
    BY <1>1, <1>4 DEF RequestOK, VerdictOK, RecallsOK, Precedes, Sound, verify_serial,
        RecallsOf, Merging
<1>6. TypeOK'
    <2>1. \A e \in Request : req'[e].pc \in {"verified", "respond"} =>
            req'[e].outcome \in Outcome \/ req'[e].serial = None
        BY <1>4 DEF RequestOK, VerdictOK
    <2> QED BY <2>1, <1>3 DEF TypeOK, WorldTypeOK, ScansTypeOK, CacheOK
<1> QED BY <1>2, <1>3, <1>5, <1>6 DEF IInv

\* The cache and the scans when a step leaves them alone.
LEMMA CacheUnchanged ==
    ASSUME IInv, UNCHANGED <<world, store>>
    PROVE  CacheOK'
BY DEF IInv, world, CacheOK, Sound, verify_serial, Precedes

LEMMA ScansUnchanged ==
    ASSUME IInv, UNCHANGED <<world, scans>>
    PROVE  ScansTypeOK' /\ ScansOK'
BY DEF IInv, TypeOK, world, ScansTypeOK, ScansOK, Sound, verify_serial

\* A request that ends, with an answer or with an error.
LEMMA IdleOK == ASSUME IInv PROVE RequestOK(Idle)
BY DEF RequestOK, Idle

\* A verdict read from the cache is one that was true, and not older than its entry.
LEMMA GetVerifyKeeps ==
    ASSUME IInv, NEW r \in Request, NEW b \in BatchId, NEW s \in Asked,
           GetVerify(r, b, s)
    PROVE  IInv'
<1> DEFINE fresh == Fresh(store[b, s])
           q == [pc |-> IF fresh THEN "recalls" ELSE "verify",
                 batchId |-> b, serial |-> s, since |-> now,
                 outcome |-> IF fresh THEN store[b, s].value ELSE None]
<1>1. /\ req' = [req EXCEPT ![r] = q]
      /\ store' = [store EXCEPT ![<<b, s>>] = IF Fresh(@) THEN @ ELSE None]
      /\ UNCHANGED <<world, scans>>
    BY DEF GetVerify, CacheGet
<1>2. /\ now \in Nat /\ MaxDuration \in Nat /\ TTL \in Nat
      /\ None \notin Nat /\ None \notin Outcome
      /\ \A c \in BatchId : batchIndexedAt[c] \in Nat \cup {None}
    BY ConstantsAssumption DEF IInv, TypeOK
<1>3. ASSUME fresh
      PROVE  /\ store[b, s].value \in Outcome
             /\ Sound(b, s, store[b, s].value)
             /\ Precedes(b, store[b, s].value, now, MaxDuration + TTL)
    <2> DEFINE value == store[b, s].value
               time == store[b, s].expiresAt
    <2>1. /\ value \in Outcome /\ time \in Nat /\ now <= time
          /\ Sound(b, s, value) /\ Precedes(b, value, time, MaxDuration + TTL)
        BY <1>3 DEF IInv, CacheOK, Key, Fresh
    <2> HIDE DEF value, time
    <2>2. Precedes(b, value, now, MaxDuration + TTL)
        BY <2>1, <1>2 DEF Precedes
    <2> QED BY <2>1, <2>2 DEF value
<1>4. RequestOK(q)
    <2>1. q \in Arrived
        BY <1>2, <1>3 DEF Arrived
    <2>2. /\ q.pc = IF fresh THEN "recalls" ELSE "verify"
          /\ q.batchId = b /\ q.serial = s /\ q.since = now
          /\ q.outcome = IF fresh THEN store[b, s].value ELSE None
        OBVIOUS
    <2> HIDE DEF q, fresh
    <2>3. q.since <= now /\ now <= q.since + MaxDuration
        <3>1. now \in Nat /\ MaxDuration \in Nat
            BY <1>2
        <3>2. now <= now /\ now <= now + MaxDuration
            BY <3>1
        <3> QED BY <2>2, <3>2
    <2>4. CASE fresh
        <3>1. VerdictOK(q) /\ RecallsOK(q)
            BY <2>2, <2>4, <1>3 DEF VerdictOK, RecallsOK
        <3> QED BY <3>1, <2>1, <2>2, <2>3 DEF RequestOK
    <2>5. CASE ~fresh
        <3>1. VerdictOK(q) /\ RecallsOK(q)
            BY <2>2, <2>5 DEF VerdictOK, RecallsOK
        <3> QED BY <3>1, <2>1, <2>2, <2>3 DEF RequestOK
    <2> QED BY <2>4, <2>5
<1>5. CacheOK'
    <2>1. /\ store' \in [Key -> [value : Outcome, expiresAt : Nat] \cup {None}]
          /\ \A c \in BatchId, z \in Asked : store'[c, z] \in {store[c, z], None}
        BY <1>1 DEF IInv, CacheOK, Key
    <2>2. ASSUME NEW c \in BatchId, NEW z \in Asked, store'[c, z] # None
          PROVE  /\ store'[c, z].expiresAt <= now + TTL
                 /\ Sound(c, z, store'[c, z].value)
                 /\ Precedes(c, store'[c, z].value, store'[c, z].expiresAt,
                             MaxDuration + TTL)
        <3>1. store'[c, z] = store[c, z]
            BY <2>1, <2>2
        <3>2. /\ store[c, z].expiresAt <= now + TTL
              /\ Sound(c, z, store[c, z].value)
              /\ Precedes(c, store[c, z].value, store[c, z].expiresAt,
                          MaxDuration + TTL)
            BY <3>1, <2>2 DEF IInv, CacheOK
        <3> QED BY <3>1, <3>2
    <2>3. UNCHANGED <<now, range, batchIndexedAt>>
        BY <1>1 DEF world
    <2> QED BY <2>1, <2>2, <2>3 DEF CacheOK, Sound, verify_serial, Precedes
<1>6. ScansTypeOK' /\ ScansOK'
    BY <1>1, ScansUnchanged
<1> HIDE DEF q
<1> QED BY <1>1, <1>4, <1>5, <1>6, RequestStepKeeps

LEMMA GetRecallsKeeps ==
    ASSUME IInv, NEW r \in Request, NEW b \in BatchId, GetRecalls(r, b)
    PROVE  IInv'
<1> DEFINE q == [pc |-> "recalls", batchId |-> b, serial |-> None, since |-> now,
                 outcome |-> None]
<1>1. req' = [req EXCEPT ![r] = q] /\ UNCHANGED <<world, store, scans>>
    BY DEF GetRecalls
<1>2. /\ now \in Nat /\ MaxDuration \in Nat /\ None \notin Outcome
    BY ConstantsAssumption DEF IInv, TypeOK
<1>3. q \in Arrived
    BY <1>2 DEF Arrived
<1>4. /\ q.pc = "recalls" /\ q.batchId = b /\ q.serial = None /\ q.since = now
      /\ q.outcome = None
    OBVIOUS
<1> HIDE DEF q
<1>5. VerdictOK(q) /\ RecallsOK(q)
    BY <1>2, <1>4 DEF VerdictOK, RecallsOK, Precedes, Outcome
<1>6. RequestOK(q)
    BY <1>2, <1>3, <1>4, <1>5 DEF RequestOK
<1> QED BY <1>1, <1>6, RequestStepKeeps, CacheUnchanged, ScansUnchanged

\* A step of a request that has not read the recalls yet, to one of the same request
\* with what it has found out.
LEMMA GoesFrom ==
    ASSUME NEW r, NEW pc, NEW outcome, req[r] \in Arrived,
           Goes(r, [pc |-> pc, outcome |-> outcome])
    PROVE  req' = [req EXCEPT ![r] =
                    [pc |-> pc, batchId |-> req[r].batchId, serial |-> req[r].serial,
                     since |-> req[r].since, outcome |-> outcome]]
<1> DEFINE change == [pc |-> pc, outcome |-> outcome]
           q == req[r]
           next == [pc |-> pc, batchId |-> q.batchId, serial |-> q.serial,
                    since |-> q.since, outcome |-> outcome]
<1>1. DOMAIN change = {"pc", "outcome"}
    OBVIOUS
<1>2. DOMAIN q = {"pc", "batchId", "serial", "since", "outcome"}
    BY DEF Arrived
<1>3. [f \in DOMAIN q \cup DOMAIN change |->
        IF f \in DOMAIN change THEN change[f] ELSE q[f]] = next
    BY <1>1, <1>2 DEF Arrived
<1> HIDE DEF change, next
<1>4. req' = [req EXCEPT ![r] = next]
    BY <1>3 DEF Goes, change
<1> QED BY <1>4 DEF next

LEMMA GoesTo ==
    ASSUME NEW r, NEW pc, req[r] \in Arrived, Goes(r, [pc |-> pc])
    PROVE  req' = [req EXCEPT ![r] =
                    [pc |-> pc, batchId |-> req[r].batchId, serial |-> req[r].serial,
                     since |-> req[r].since, outcome |-> req[r].outcome]]
<1> DEFINE change == [pc |-> pc]
           q == req[r]
           next == [pc |-> pc, batchId |-> q.batchId, serial |-> q.serial,
                    since |-> q.since, outcome |-> q.outcome]
<1>1. DOMAIN change = {"pc"}
    OBVIOUS
<1>2. DOMAIN q = {"pc", "batchId", "serial", "since", "outcome"}
    BY DEF Arrived
<1>3. [f \in DOMAIN q \cup DOMAIN change |->
        IF f \in DOMAIN change THEN change[f] ELSE q[f]] = next
    BY <1>1, <1>2 DEF Arrived
<1> HIDE DEF change, next
<1>4. req' = [req EXCEPT ![r] = next]
    BY <1>3 DEF Goes, change
<1> QED BY <1>4 DEF next

\* A verdict found for a request, on chain or in the batch's row.
LEMMA VerifiedKeeps ==
    ASSUME IInv, NEW r \in Request, NEW outcome \in Outcome,
           req[r].pc \in {"verify", "fallback"},
           Goes(r, [pc |-> "verified", outcome |-> outcome]),
           UNCHANGED <<world, store, scans>>,
           Sound(req[r].batchId, req[r].serial, outcome),
           outcome = "unregistered" => batchIndexedAt[req[r].batchId] = None
    PROVE  IInv'
<1> DEFINE q == [pc |-> "verified", batchId |-> req[r].batchId,
                 serial |-> req[r].serial, since |-> req[r].since,
                 outcome |-> outcome]
<1>1. /\ req[r] \in Arrived /\ req[r].serial \in Asked
      /\ req[r].batchId \in BatchId /\ req[r].since \in Nat
      /\ req[r].since <= now /\ now <= req[r].since + MaxDuration
    BY RequestFacts DEF Busy, VerdictOK, Merging
<1>2. req' = [req EXCEPT ![r] = q]
    BY <1>1, GoesFrom
<1>3. q \in Arrived
    BY <1>1 DEF Arrived
<1>4. /\ q.pc = "verified" /\ q.batchId = req[r].batchId
      /\ q.serial = req[r].serial /\ q.since = req[r].since /\ q.outcome = outcome
    OBVIOUS
<1> HIDE DEF q
<1>5. VerdictOK(q) /\ RecallsOK(q)
    BY <1>1, <1>4 DEF VerdictOK, RecallsOK, Precedes
<1>6. RequestOK(q)
    BY <1>1, <1>3, <1>4, <1>5 DEF RequestOK
<1> QED BY <1>2, <1>6, RequestStepKeeps, CacheUnchanged, ScansUnchanged

LEMMA VerifyOnChainKeeps ==
    ASSUME IInv, NEW r \in Request, VerifyOnChain(r)
    PROVE  IInv'
<1> DEFINE b == req[r].batchId
           outcome == verify_serial(b, req[r].serial)
<1>1. /\ req[r].pc = "verify" /\ Goes(r, [pc |-> "verified", outcome |-> outcome])
      /\ UNCHANGED <<world, store, scans>>
    BY DEF VerifyOnChain
<1>2. outcome \in Outcome /\ Sound(b, req[r].serial, outcome)
    BY DEF Outcome, verify_serial, Sound
<1>3. outcome = "unregistered" => batchIndexedAt[b] = None
    <2>1. b \in BatchId
        BY <1>1, RequestFacts DEF Busy
    <2>2. outcome = "unregistered" => range[b] = {}
        BY DEF verify_serial
    <2> QED BY <2>1, <2>2 DEF IInv, RowsOK
<1> HIDE DEF outcome
<1> QED BY <1>1, <1>2, <1>3, VerifiedKeeps

\* A row has the range of the chain, and no row says less than the chain only by
\* saying nothing.
LEMMA VerifyFromRowKeeps ==
    ASSUME IInv, NEW r \in Request, VerifyFromRow(r)
    PROVE  IInv'
<1> DEFINE b == req[r].batchId
           outcome == FallbackVerdict(b, req[r].serial)
<1>1. /\ req[r].pc = "fallback" /\ Goes(r, [pc |-> "verified", outcome |-> outcome])
      /\ UNCHANGED <<world, store, scans>>
    BY DEF VerifyFromRow
<1>2. b \in BatchId
    BY <1>1, RequestFacts DEF Busy
<1>3. batchIndexedAt[b] # None => range[b] # {}
    BY <1>2 DEF IInv, RowsOK
<1>4. /\ outcome \in Outcome /\ Sound(b, req[r].serial, outcome)
      /\ outcome = "unregistered" => batchIndexedAt[b] = None
    BY <1>3 DEF Outcome, FallbackVerdict, verify_serial, Sound
<1> HIDE DEF outcome
<1> QED BY <1>1, <1>4, VerifiedKeeps

\* The contract does not answer: the request goes on without a verdict.
LEMMA VerifyFailsKeeps ==
    ASSUME IInv, NEW r \in Request, VerifyFails(r)
    PROVE  IInv'
<1> DEFINE q == [pc |-> "fallback", batchId |-> req[r].batchId,
                 serial |-> req[r].serial, since |-> req[r].since,
                 outcome |-> req[r].outcome]
<1>1. req[r].pc = "verify" /\ UNCHANGED <<world, store, scans>>
    BY DEF VerifyFails
<1>2. /\ req[r] \in Arrived /\ req[r].serial \in Asked
      /\ req[r].since <= now /\ now <= req[r].since + MaxDuration
    BY <1>1, RequestFacts DEF Busy, VerdictOK, Merging
<1>3. req' = [req EXCEPT ![r] = q]
    BY <1>2, GoesTo DEF VerifyFails
<1>4. q \in Arrived
    BY <1>2 DEF Arrived
<1>5. /\ q.pc = "fallback" /\ q.serial = req[r].serial /\ q.since = req[r].since
    OBVIOUS
<1> HIDE DEF q
<1>6. RequestOK(q)
    BY <1>2, <1>4, <1>5 DEF RequestOK, VerdictOK, RecallsOK
<1> QED BY <1>1, <1>3, <1>6, RequestStepKeeps, CacheUnchanged, ScansUnchanged

\* A verdict is cached at most MaxDuration after its request came in.
LEMMA CacheOutcomeKeeps ==
    ASSUME IInv, NEW r \in Request, CacheOutcome(r)
    PROVE  IInv'
<1> DEFINE b == req[r].batchId
           s == req[r].serial
           outcome == req[r].outcome
           since == req[r].since
           q == [pc |-> "recalls", batchId |-> b, serial |-> s, since |-> since,
                 outcome |-> outcome]
           entry == [value |-> outcome, expiresAt |-> now + TTL]
<1>1. /\ req[r].pc = "verified" /\ UNCHANGED <<world, scans>>
      /\ store' = [store EXCEPT ![<<b, s>>] = entry]
      /\ Goes(r, [pc |-> "recalls"])
    BY DEF CacheOutcome, CacheSet
<1>2. /\ req[r] \in Arrived /\ b \in BatchId /\ s \in Asked /\ outcome \in Outcome
      /\ since \in Nat /\ since <= now /\ now <= since + MaxDuration
      /\ Precedes(b, outcome, since, 0)
      /\ now \in Nat /\ MaxDuration \in Nat /\ TTL \in Nat
    BY <1>1, RequestFacts DEF Busy, VerdictOK, Merging
<1>3. Sound(b, s, outcome)
    BY <1>1, <1>2, RequestFacts, ConstantsAssumption DEF Busy, VerdictOK
<1>4. req' = [req EXCEPT ![r] = q]
    BY <1>1, <1>2, GoesTo
<1>5. q \in Arrived
    BY <1>2 DEF Arrived
<1>6. /\ q.pc = "recalls" /\ q.batchId = b /\ q.serial = s /\ q.since = since
      /\ q.outcome = outcome
    OBVIOUS
<1>7. entry \in [value : Outcome, expiresAt : Nat] /\ entry.value = outcome
      /\ entry.expiresAt = now + TTL
    BY <1>2
<1> HIDE DEF b, s, outcome, since, q, entry
<1>8. batchIndexedAt[b] \in Nat \cup {None}
    BY <1>2 DEF IInv, TypeOK
<1>9. /\ Precedes(b, outcome, since, MaxDuration + TTL)
      /\ Precedes(b, outcome, now + TTL, MaxDuration + TTL)
    BY <1>2, <1>8 DEF Precedes
<1>10. RequestOK(q)
    <2>1. VerdictOK(q) /\ RecallsOK(q)
        BY <1>2, <1>3, <1>6, <1>9 DEF VerdictOK, RecallsOK
    <2> QED BY <2>1, <1>2, <1>5, <1>6 DEF RequestOK
<1>11. CacheOK'
    <2>1. store' \in [Key -> [value : Outcome, expiresAt : Nat] \cup {None}]
        BY <1>1, <1>7 DEF IInv, CacheOK
    <2>2. \A c \in BatchId, z \in Asked :
            store'[c, z] = IF c = b /\ z = s THEN entry ELSE store[c, z]
        BY <1>1, <1>2 DEF IInv, CacheOK, Key
    <2>3. now + TTL <= now + TTL
        BY <1>2
    <2>4. ASSUME NEW c \in BatchId, NEW z \in Asked, store'[c, z] # None
          PROVE  /\ store'[c, z].expiresAt <= now + TTL
                 /\ Sound(c, z, store'[c, z].value)
                 /\ Precedes(c, store'[c, z].value, store'[c, z].expiresAt,
                             MaxDuration + TTL)
        <3>1. CASE c = b /\ z = s
            <4>1. store'[c, z] = entry
                BY <2>2, <3>1
            <4> QED BY <4>1, <3>1, <2>3, <1>3, <1>7, <1>9
        <3>2. CASE ~(c = b /\ z = s)
            BY <2>2, <2>4, <3>2 DEF IInv, CacheOK
        <3> QED BY <3>1, <3>2
    <2> QED BY <2>1, <2>4, <1>1 DEF world, CacheOK, Sound, verify_serial, Precedes
<1>12. ScansTypeOK' /\ ScansOK'
    BY <1>1, ScansUnchanged
<1> QED BY <1>1, <1>4, <1>10, <1>11, <1>12, RequestStepKeeps

\* What the contract reports is of the batch; nothing, when it cannot be read.
LEMMA RecallsOnChainKeeps ==
    ASSUME IInv, NEW r \in Request, RecallsOnChain(r)
    PROVE  IInv'
<1>1. PICK byId \in SUBSET RecallsOf(req[r].batchId) :
        Goes(r, [pc |-> "rows", byId |-> byId])
    BY DEF RecallsOnChain
<1> DEFINE q == [pc |-> "rows", batchId |-> req[r].batchId, serial |-> req[r].serial,
                 since |-> req[r].since, outcome |-> req[r].outcome, byId |-> byId]
           change == [pc |-> "rows", byId |-> byId]
<1>2. req[r].pc = "recalls" /\ UNCHANGED <<world, store, scans>>
    BY DEF RecallsOnChain
<1>3. /\ req[r] \in Arrived
      /\ req[r].since <= now /\ now <= req[r].since + MaxDuration
      /\ VerdictOK(req[r])
    BY <1>2, RequestFacts DEF Busy, Merging
<1>4. req' = [req EXCEPT ![r] = q]
    <2>1. DOMAIN change = {"pc", "byId"}
        OBVIOUS
    <2>2. DOMAIN req[r] = {"pc", "batchId", "serial", "since", "outcome"}
        BY <1>3 DEF Arrived
    <2>3. [f \in DOMAIN req[r] \cup DOMAIN change |->
            IF f \in DOMAIN change THEN change[f] ELSE req[r][f]] = q
        BY <2>1, <2>2, <1>3 DEF Arrived
    <2> HIDE DEF q, change
    <2> QED BY <2>3, <1>1 DEF Goes, change
<1>5. q \in Merging
    BY <1>3 DEF Arrived, Merging, RecallsOf
<1>6. /\ q.pc = "rows" /\ q.batchId = req[r].batchId /\ q.serial = req[r].serial
      /\ q.since = req[r].since /\ q.outcome = req[r].outcome /\ q.byId = byId
    OBVIOUS
<1> HIDE DEF q
<1>7. VerdictOK(q) /\ RecallsOK(q)
    BY <1>1, <1>2, <1>3, <1>6 DEF VerdictOK, RecallsOK
<1>8. RequestOK(q)
    BY <1>3, <1>5, <1>6, <1>7 DEF RequestOK
<1> QED BY <1>2, <1>4, <1>8, RequestStepKeeps, CacheUnchanged, ScansUnchanged

\* All the rows of the batch's recalls are in the answer.
LEMMA RecallRowsKeeps ==
    ASSUME IInv, NEW r \in Request, RecallRows(r)
    PROVE  IInv'
<1> DEFINE byId == {recall \in req[r].byId \cup IndexedRecalls(r) :
                        Covers(recall, req[r].serial)}
           q == [pc |-> "respond", batchId |-> req[r].batchId,
                 serial |-> req[r].serial, since |-> req[r].since,
                 outcome |-> req[r].outcome, byId |-> byId]
           change == [pc |-> "respond", byId |-> byId]
<1>1. /\ req[r].pc = "rows" /\ UNCHANGED <<world, store, scans>>
      /\ Goes(r, change)
    BY DEF RecallRows
<1>2. /\ req[r] \in Merging
      /\ req[r].since <= now /\ now <= req[r].since + MaxDuration
      /\ VerdictOK(req[r]) /\ req[r].byId \subseteq RecallsOf(req[r].batchId)
    BY <1>1, RequestFacts DEF Busy, Arrived, RecallsOK
<1>3. byId \subseteq RecallsOf(req[r].batchId)
    BY <1>2 DEF IndexedRecalls
<1>4. \A recall \in RecallsOf(req[r].batchId) :
        recall.id \in DOMAIN recallIndexedAt /\ Covers(recall, req[r].serial) =>
            recall \in byId
    BY DEF IndexedRecalls
<1>5. \A recall \in byId : Covers(recall, req[r].serial)
    OBVIOUS
<1> HIDE DEF byId
<1>6. req' = [req EXCEPT ![r] = q]
    <2>1. DOMAIN change = {"pc", "byId"}
        OBVIOUS
    <2>2. DOMAIN req[r] = {"pc", "batchId", "serial", "since", "outcome", "byId"}
        BY <1>2 DEF Merging
    <2>3. [f \in DOMAIN req[r] \cup DOMAIN change |->
            IF f \in DOMAIN change THEN change[f] ELSE req[r][f]] = q
        BY <2>1, <2>2, <1>2 DEF Merging
    <2> HIDE DEF q, change
    <2> QED BY <2>3, <1>1 DEF Goes
<1>7. q \in Merging
    BY <1>2, <1>3 DEF Merging, RecallsOf
<1>8. /\ q.pc = "respond" /\ q.batchId = req[r].batchId /\ q.serial = req[r].serial
      /\ q.since = req[r].since /\ q.outcome = req[r].outcome /\ q.byId = byId
    OBVIOUS
<1> HIDE DEF q
<1>9. VerdictOK(q)
    BY <1>1, <1>2, <1>8 DEF VerdictOK
<1>10. RecallsOK(q)
    BY <1>3, <1>4, <1>5, <1>8 DEF RecallsOK
<1>11. RequestOK(q)
    BY <1>2, <1>7, <1>8, <1>9, <1>10 DEF RequestOK
<1> QED BY <1>1, <1>6, <1>11, RequestStepKeeps, CacheUnchanged, ScansUnchanged

\* A verdict that is recorded is the one of the answer.
LEMMA RespondKeeps ==
    ASSUME IInv, NEW r \in Request, Respond(r)
    PROVE  IInv'
<1>1. /\ req[r].pc = "respond" /\ req' = [req EXCEPT ![r] = Idle]
      /\ UNCHANGED <<world, store>>
    BY DEF Respond
<1> DEFINE scan == [batchId |-> req[r].batchId, serialNumber |-> req[r].serial,
                    outcome |-> req[r].outcome]
<1>2. CASE scans' = scans
    <2>1. CacheOK' /\ ScansTypeOK' /\ ScansOK'
        BY <1>1, <1>2, CacheUnchanged, ScansUnchanged
    <2> QED BY <2>1, <1>1, IdleOK, RequestStepKeeps
<1>3. CASE req[r].outcome # None /\ scans' = scans \cup {scan}
    <2>1. /\ req[r].batchId \in BatchId /\ req[r].serial \in Asked
          /\ req[r].outcome \in Outcome
          /\ Sound(req[r].batchId, req[r].serial, req[r].outcome)
        BY <1>1, <1>3, RequestFacts DEF Busy, VerdictOK
    <2>2. scan \in [batchId : BatchId, serialNumber : Asked, outcome : Outcome]
          /\ Sound(scan.batchId, scan.serialNumber, scan.outcome)
        BY <2>1
    <2> HIDE DEF scan
    <2>3. \A x \in scans' : Sound(x.batchId, x.serialNumber, x.outcome)
        BY <2>2, <1>3 DEF IInv, ScansOK
    <2>4. ScansOK'
        BY <2>3, <1>1 DEF world, ScansOK, Sound, verify_serial
    <2>5. ScansTypeOK'
        BY <2>2, <1>3 DEF IInv, TypeOK, ScansTypeOK
    <2>6. CacheOK'
        BY <1>1, CacheUnchanged
    <2> QED BY <2>4, <2>5, <2>6, <1>1, IdleOK, RequestStepKeeps
<1> QED BY <1>2, <1>3 DEF Respond

LEMMA QueryFailsKeeps ==
    ASSUME IInv, NEW r \in Request, QueryFails(r)
    PROVE  IInv'
<1>1. req' = [req EXCEPT ![r] = Idle] /\ UNCHANGED <<world, store, scans>>
    BY DEF QueryFails
<1> QED BY <1>1, IdleOK, RequestStepKeeps, CacheUnchanged, ScansUnchanged

\* A restart forgets the requests and the cache.
LEMMA RestartKeeps ==
    ASSUME IInv, Restart
    PROVE  IInv'
<1>1. /\ store' = [k \in Key |-> None] /\ req' = [r \in Request |-> Idle]
      /\ UNCHANGED <<now, range, recalls, batchIndexedAt, recallIndexedAt, scans>>
    BY DEF Restart, world
<1>2. CacheOK'
    BY <1>1 DEF CacheOK, Key
<1>3. \A r \in Request : RequestOK(req[r])'
    BY <1>1 DEF RequestOK, Idle
<1>4. ScansTypeOK' /\ ScansOK'
    BY <1>1, ScansUnchanged DEF world
<1>5. TypeOK' /\ RowsOK'
    <2>1. WorldTypeOK' /\ RowsOK'
        BY <1>1 DEF IInv, TypeOK, WorldTypeOK, RowsOK
    <2>2. \A r \in Request : req'[r].pc = "idle"
        BY <1>1 DEF Idle
    <2>3. \A k \in Key : store'[k] = None
        BY <1>1
    <2> QED BY <2>1, <2>2, <2>3, <1>4 DEF TypeOK, WorldTypeOK, ScansTypeOK
<1> QED BY <1>1, <1>2, <1>3, <1>4, <1>5 DEF IInv

-----------------------------------------------------------------------------
(* The theorems *)

\* An empty chain and an empty process.
LEMMA InitEstablishes == Init => IInv
<1> SUFFICES ASSUME Init PROVE IInv
    OBVIOUS
<1>1. /\ now = 0 /\ range = [b \in BatchId |-> {}] /\ recalls = {}
      /\ batchIndexedAt = [b \in BatchId |-> None] /\ DOMAIN recallIndexedAt = {}
      /\ store = [k \in Key |-> None] /\ scans = {}
      /\ req = [r \in Request |-> Idle] /\ MaxTime \in Nat
    BY ConstantsAssumption DEF Init
<1>2. WorldTypeOK /\ ScansTypeOK /\ ScansOK
    BY <1>1 DEF WorldTypeOK, ScansTypeOK, ScansOK
<1>3. RowsOK
    BY <1>1, FS_EmptySet DEF RowsOK
<1>4. CacheOK
    BY <1>1 DEF CacheOK, Key
<1>5. \A r \in Request : RequestOK(req[r])
    BY <1>1 DEF RequestOK, Idle
<1> QED BY <1>1, <1>2, <1>3, <1>4, <1>5, TypeFollows DEF IInv

LEMMA StutteringKeeps ==
    ASSUME IInv, UNCHANGED vars
    PROVE  IInv'
<1>1. /\ UNCHANGED <<now, range, recalls, batchIndexedAt, recallIndexedAt>>
      /\ UNCHANGED <<store, scans, req>>
    BY DEF vars, world
<1>2. WorldTypeOK' /\ RowsOK'
    BY <1>1 DEF IInv, TypeOK, WorldTypeOK, RowsOK
<1>3. /\ \A c \in BatchId : range'[c] = range[c] \/ range[c] = {}
      /\ \A c \in BatchId : batchIndexedAt'[c] \in {batchIndexedAt[c], now}
      /\ \A c \in BatchId : batchIndexedAt[c] # None =>
            batchIndexedAt'[c] = batchIndexedAt[c]
      /\ recalls \subseteq recalls'
      /\ \A r \in recalls' : r \in recalls \/ r.id \notin DOMAIN recallIndexedAt'
      /\ \A id \in DOMAIN recallIndexedAt' :
            \/ id \in DOMAIN recallIndexedAt
               /\ recallIndexedAt'[id] = recallIndexedAt[id]
            \/ recallIndexedAt'[id] = now
    BY <1>1
<1> QED BY <1>1, <1>2, <1>3, WorldStepKeeps

\* Every cached, pending and recorded verdict is the chain's or is too old to know
\* better, by no more than an entry's lifetime and a request's duration.
THEOREM Invariant == Spec => []IInv
<1>1. IInv /\ [Next]_vars => IInv'
    <2> SUFFICES ASSUME IInv, [Next]_vars PROVE IInv'
        OBVIOUS
    <2>1. ASSUME NEW b \in BatchId, NEW serials \in SUBSET Serial,
                 RegisterBatch(b, serials) \/ IssueRecall(b, serials)
          PROVE  IInv'
        BY <2>1, RegisterBatchKeeps, IssueRecallKeeps
    <2>2. ASSUME NEW b \in BatchId, IndexBatch(b) PROVE IInv'
        BY <2>2, IndexBatchKeeps
    <2>3. ASSUME NEW recall \in recalls, IndexRecall(recall) PROVE IInv'
        BY <2>3, IndexRecallKeeps
    <2>4. CASE Tick
        BY <2>4, TickKeeps
    <2>5. ASSUME NEW r \in Request, Handle(r) PROVE IInv'
        <3>1. ASSUME NEW b \in BatchId, NEW s \in Asked, GetVerify(r, b, s)
              PROVE  IInv'
            BY <3>1, GetVerifyKeeps
        <3>2. ASSUME NEW b \in BatchId, GetRecalls(r, b) PROVE IInv'
            BY <3>2, GetRecallsKeeps
        <3>3. CASE VerifyOnChain(r) \/ VerifyFails(r) \/ VerifyFromRow(r)
            BY <3>3, VerifyOnChainKeeps, VerifyFailsKeeps, VerifyFromRowKeeps
        <3>4. CASE CacheOutcome(r)
            BY <3>4, CacheOutcomeKeeps
        <3>5. CASE RecallsOnChain(r) \/ RecallRows(r)
            BY <3>5, RecallsOnChainKeeps, RecallRowsKeeps
        <3>6. CASE Respond(r) \/ QueryFails(r)
            BY <3>6, RespondKeeps, QueryFailsKeeps
        <3> QED BY <2>5, <3>1, <3>2, <3>3, <3>4, <3>5, <3>6 DEF Handle
    <2>6. CASE Restart
        BY <2>6, RestartKeeps
    <2>7. CASE UNCHANGED vars
        BY <2>7, StutteringKeeps
    <2> QED BY <2>1, <2>2, <2>3, <2>4, <2>5, <2>6, <2>7 DEF Next
<1> QED BY <1>1, InitEstablishes, PTL DEF Spec

\* No outage, no lag and no cache makes a serial genuine that is not (verify.ts and
\* verifyService.ts): a verdict other than unregistered is the contract's own.
THEOREM VerdictsNeverContradict == Spec => []VerdictsNeverContradictChain
<1>1. IInv => VerdictsNeverContradictChain
    <2> SUFFICES ASSUME IInv PROVE VerdictsNeverContradictChain
        OBVIOUS
    <2>1. ASSUME NEW r \in Request, Answering(r),
                 req[r].outcome \notin {None, "unregistered"}
          PROVE  req[r].outcome = verify_serial(req[r].batchId, req[r].serial)
        BY <2>1, RequestFacts DEF Answering, Busy, VerdictOK, Sound
    <2> QED BY <2>1 DEF VerdictsNeverContradictChain, IInv, ScansOK, Sound
<1> QED BY <1>1, Invariant, PTL

\* A batch that is indexed is denied for TTL and the duration of two requests at
\* most (cache.ts, verify.ts), whatever these are.
THEOREM UnregisteredAlwaysExpires == Spec => []UnregisteredExpires
<1>1. IInv => UnregisteredExpires
    <2> SUFFICES ASSUME IInv, NEW r \in Request, Answering(r),
                        req[r].outcome = "unregistered",
                        batchIndexedAt[req[r].batchId] # None
                 PROVE  now - batchIndexedAt[req[r].batchId] <= TTL + 2 * MaxDuration
        BY DEF UnregisteredExpires
    <2> DEFINE since == req[r].since
               indexedAt == batchIndexedAt[req[r].batchId]
    <2>1. /\ Precedes(req[r].batchId, req[r].outcome, since, MaxDuration + TTL)
          /\ since \in Nat /\ now <= since + MaxDuration /\ req[r].batchId \in BatchId
          /\ now \in Nat /\ MaxDuration \in Nat /\ TTL \in Nat
        BY RequestFacts DEF Answering, Busy, VerdictOK
    <2>2. indexedAt \in Nat
        BY <2>1 DEF IInv, TypeOK
    <2>3. since <= indexedAt + (MaxDuration + TTL)
        BY <2>1 DEF Precedes
    <2> HIDE DEF since, indexedAt
    <2>4. now - indexedAt <= TTL + 2 * MaxDuration
        BY <2>1, <2>2, <2>3
    <2> QED BY <2>4 DEF indexedAt
<1> QED BY <1>1, Invariant, PTL

\* What the indexer had of a batch's recalls when a request came in is in its
\* answer, and nothing that is not asked for (recallService.ts).
THEOREM AnswersAlwaysShowRecalls == Spec => []AnswersShowIndexedRecalls
<1>1. IInv => AnswersShowIndexedRecalls
    <2> SUFFICES ASSUME IInv, NEW r \in Request, Answering(r)
                 PROVE  /\ \A recall \in req[r].byId :
                            recall \in RecallsOf(req[r].batchId)
                                /\ (req[r].serial # None =>
                                        req[r].serial \in recall.serials)
                        /\ \A recall \in RecallsOf(req[r].batchId) :
                            /\ recall.id \in DOMAIN recallIndexedAt
                            /\ recallIndexedAt[recall.id] < req[r].since
                            /\ req[r].serial # None => req[r].serial \in recall.serials
                            => recall \in req[r].byId
        BY DEF AnswersShowIndexedRecalls
    <2>1. RecallsOK(req[r])
        BY RequestFacts DEF Answering, Busy
    <2> QED BY <2>1 DEF RecallsOK, Answering, Covers
<1> QED BY <1>1, Invariant, PTL

=============================================================================
