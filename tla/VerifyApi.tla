------------------------------ MODULE VerifyApi ------------------------------
(***************************************************************************)
(* The read path of the backend: GET /api/verify/:batchId/:serial          *)
(* (routes/verify.ts) and GET /api/recalls (routes/recalls.ts) with the    *)
(* services behind them.  Requests interleave at their awaits with one     *)
(* another, with transactions on the chain and with the indexer, which     *)
(* copies batches and recalls to the tables some time after the chain has  *)
(* them (Indexer.tla: MirrorSound).                                        *)
(*                                                                         *)
(* Every request is answered within MaxDuration: time does not pass while  *)
(* a request is that old.                                                  *)
(***************************************************************************)
EXTENDS Integers, FiniteSets

CONSTANTS
    Request,        \* requests in progress at once
    BatchId,
    Serial,
    Asked,          \* the serials verified; ranges and recalls have others too
    TTL,            \* VERIFY_CACHE_TTL_MS
    MaxDuration,
    RpcFails,       \* whether a call of the contract may fail
    MaxTime, MaxRecalls,    \* bounds on the clock and on the recalls
    None

Outcome == {"unregistered", "genuine", "out_of_range"}

ASSUME ConstantsAssumption ==
    /\ Asked \subseteq Serial
    /\ TTL \in Nat /\ MaxDuration \in Nat \ {0}
    /\ RpcFails \in BOOLEAN
    /\ MaxTime \in Nat /\ MaxRecalls \in Nat
    /\ None \notin Nat \cup Outcome

VARIABLES
    now,
    range,          \* batchId -> serials of the batch on chain, {} for none
    recalls,        \* the recalls on chain
    batchIndexedAt, \* batchId -> when its row was written, or None
    recallIndexedAt,\* id of a recall with a row -> when it was written
    store,          \* TtlCache: <<batchId, serial>> -> entry, or None
    scans,          \* rows of verification_scans
    req             \* the requests

world == <<now, range, recalls, batchIndexedAt, recallIndexedAt>>
vars == <<world, store, scans, req>>

Key == BatchId \X Asked

Idle == [pc |-> "idle"]
Busy(r) == req[r].pc # "idle"

-----------------------------------------------------------------------------
(* The chain, the indexer and the clock *)

RegisterBatch(b, serials) ==
    /\ range[b] = {} /\ serials # {}
    /\ range' = [range EXCEPT ![b] = serials]
    /\ UNCHANGED <<now, recalls, batchIndexedAt, recallIndexedAt, store, scans,
                   req>>

IssueRecall(b, serials) ==
    /\ Cardinality(recalls) < MaxRecalls
    /\ serials # {} /\ serials \subseteq range[b]
    /\ recalls' = recalls \cup
            {[id |-> Cardinality(recalls) + 1, batchId |-> b,
              serials |-> serials, issuedAt |-> now]}
    /\ UNCHANGED <<now, range, batchIndexedAt, recallIndexedAt, store, scans, req>>

IndexBatch(b) ==
    /\ range[b] # {} /\ batchIndexedAt[b] = None
    /\ batchIndexedAt' = [batchIndexedAt EXCEPT ![b] = now]
    /\ UNCHANGED <<now, range, recalls, recallIndexedAt, store, scans, req>>

IndexRecall(recall) ==
    /\ batchIndexedAt[recall.batchId] # None
    /\ recall.id \notin DOMAIN recallIndexedAt
    /\ recallIndexedAt' =
        [id \in DOMAIN recallIndexedAt \cup {recall.id} |->
            IF id = recall.id THEN now ELSE recallIndexedAt[id]]
    /\ UNCHANGED <<now, range, recalls, batchIndexedAt, store, scans, req>>

Tick ==
    /\ now < MaxTime
    /\ \A r \in Request : Busy(r) => now - req[r].since < MaxDuration
    /\ now' = now + 1
    /\ UNCHANGED <<range, recalls, batchIndexedAt, recallIndexedAt, store, scans,
                   req>>

-----------------------------------------------------------------------------
(* contract.ts: what a simulated call returns, and scval.ts: what is       *)
(* decoded of it                                                           *)

verify_serial(b, s) ==
    CASE range[b] = {} -> "unregistered"
      [] s \in range[b] -> "genuine"
      [] OTHER -> "out_of_range"

RecallsOf(b) == {recall \in recalls : recall.batchId = b}

\* decodeRecall reads the severity as a symbol; the contract's Severity is an
\* enum, which arrives as a vector holding one.  So every recall throws, and
\* only an empty list decodes.
Decodes(list) == list = {}

-----------------------------------------------------------------------------
(* cache.ts *)

\* Planted bug for mutation: the expiry is not looked at.
FreshForever(entry) == entry # None

\* An entry is good up to and including its expiry.
Fresh(entry) == entry # None /\ now <= entry.expiresAt

\* get: an expired entry is deleted.
CacheGet(k) ==
    store' = [store EXCEPT ![k] = IF Fresh(@) THEN @ ELSE None]

CacheSet(k, outcome) ==
    store' = [store EXCEPT ![k] = [value |-> outcome, expiresAt |-> now + TTL]]

-----------------------------------------------------------------------------
(* The handlers *)

\* One request moves on; its fields change as the record says.
Goes(r, change) ==
    req' = [req EXCEPT ![r] = [f \in DOMAIN @ \cup DOMAIN change |->
                        IF f \in DOMAIN change THEN change[f] ELSE @[f]]]

\* A verification arrives: the cache is asked.
GetVerify(r, b, s) ==
    /\ req[r] = Idle
    /\ CacheGet(<<b, s>>)
    /\ req' = [req EXCEPT ![r] =
            [pc |-> IF Fresh(store[b, s]) THEN "recalls" ELSE "verify",
             batchId |-> b, serial |-> s, since |-> now,
             outcome |-> IF Fresh(store[b, s]) THEN store[b, s].value ELSE None]]
    /\ UNCHANGED <<world, scans>>

\* A list of recalls is asked for, of the whole batch.
GetRecalls(r, b) ==
    /\ req[r] = Idle
    /\ req' = [req EXCEPT ![r] =
            [pc |-> "recalls", batchId |-> b, serial |-> None, since |-> now,
             outcome |-> None]]
    /\ UNCHANGED <<world, store, scans>>

\* verifySerialWithFallback: the contract answers.
VerifyOnChain(r) ==
    /\ req[r].pc = "verify"
    /\ Goes(r, [pc |-> "verified",
                outcome |-> verify_serial(req[r].batchId, req[r].serial)])
    /\ UNCHANGED <<world, store, scans>>

VerifyFails(r) ==
    /\ RpcFails
    /\ req[r].pc = "verify"
    /\ Goes(r, [pc |-> "fallback"])
    /\ UNCHANGED <<world, store, scans>>

\* Planted bug for mutation: a batch that is not indexed is taken to be out of
\* range.
FallbackVerdictNoBatch(b, s) ==
    IF batchIndexedAt[b] # None /\ s \in range[b] THEN "genuine"
    ELSE "out_of_range"

\* The verdict of the batch's row, which has the range of the chain.
FallbackVerdict(b, s) ==
    IF batchIndexedAt[b] = None THEN "unregistered"
    ELSE IF s \in range[b] THEN "genuine" ELSE "out_of_range"

VerifyFromRow(r) ==
    /\ req[r].pc = "fallback"
    /\ Goes(r, [pc |-> "verified",
                outcome |-> FallbackVerdict(req[r].batchId, req[r].serial)])
    /\ UNCHANGED <<world, store, scans>>

\* The route goes on from the await: whoever answered, the verdict is cached.
CacheOutcome(r) ==
    /\ req[r].pc = "verified"
    /\ CacheSet(<<req[r].batchId, req[r].serial>>, req[r].outcome)
    /\ Goes(r, [pc |-> "recalls"])
    /\ UNCHANGED <<world, scans>>

\* getRecallsForBatch: what the contract reports, nothing when the call or the
\* decoding throws.
RecallsOnChain(r) ==
    /\ req[r].pc = "recalls"
    /\ \E failed \in {FALSE, RpcFails} :
        Goes(r, [pc |-> "rows",
                 byId |-> IF ~failed /\ Decodes(RecallsOf(req[r].batchId))
                          THEN RecallsOf(req[r].batchId) ELSE {}])
    /\ UNCHANGED <<world, store, scans>>

\* Planted bug for mutation: recalls are selected for the batch only.
CoversAny(recall, s) == TRUE

\* Whether a recall is for the serial asked about, if one is.
Covers(recall, s) == s = None \/ s \in recall.serials

IndexedRecalls(r) ==
    {recall \in RecallsOf(req[r].batchId) : recall.id \in DOMAIN recallIndexedAt}

\* The rows are merged in, over what the contract reported.
RecallRows(r) ==
    /\ req[r].pc = "rows"
    /\ Goes(r, [pc |-> "respond",
                byId |-> {recall \in req[r].byId \cup IndexedRecalls(r) :
                            Covers(recall, req[r].serial)}])
    /\ UNCHANGED <<world, store, scans>>

\* The answer; a verification is recorded, if the database takes it.
Respond(r) ==
    /\ req[r].pc = "respond"
    /\ req' = [req EXCEPT ![r] = Idle]
    /\ \/ UNCHANGED scans
       \/ /\ req[r].outcome # None
          /\ scans' = scans \cup {[batchId |-> req[r].batchId,
                                   serialNumber |-> req[r].serial,
                                   outcome |-> req[r].outcome]}
    /\ UNCHANGED <<world, store>>

\* A database query throws: the request is answered with an error.
QueryFails(r) ==
    /\ req[r].pc \in {"fallback", "rows"}
    /\ req' = [req EXCEPT ![r] = Idle]
    /\ UNCHANGED <<world, store, scans>>

\* The process restarts: requests and cache are lost.
Restart ==
    /\ store' = [k \in Key |-> None]
    /\ req' = [r \in Request |-> Idle]
    /\ UNCHANGED <<world, scans>>

-----------------------------------------------------------------------------
Init ==
    /\ now = 0
    /\ range = [b \in BatchId |-> {}]
    /\ recalls = {}
    /\ batchIndexedAt = [b \in BatchId |-> None]
    /\ recallIndexedAt = [id \in {} |-> 0]
    /\ store = [k \in Key |-> None]
    /\ scans = {}
    /\ req = [r \in Request |-> Idle]

Handle(r) ==
    \/ \E b \in BatchId, s \in Asked : GetVerify(r, b, s)
    \/ \E b \in BatchId : GetRecalls(r, b)
    \/ VerifyOnChain(r)
    \/ VerifyFails(r)
    \/ VerifyFromRow(r)
    \/ CacheOutcome(r)
    \/ RecallsOnChain(r)
    \/ RecallRows(r)
    \/ Respond(r)
    \/ QueryFails(r)

Next ==
    \/ \E b \in BatchId, serials \in SUBSET Serial : RegisterBatch(b, serials)
    \/ \E b \in BatchId, serials \in SUBSET Serial : IssueRecall(b, serials)
    \/ \E b \in BatchId : IndexBatch(b)
    \/ \E recall \in recalls : IndexRecall(recall)
    \/ Tick
    \/ \E r \in Request : Handle(r)
    \/ Restart

Spec == Init /\ [][Next]_vars

-----------------------------------------------------------------------------
(* Properties *)

\* Types of the tables, the cache and the requests.
TypeOK ==
    /\ now \in 0..MaxTime
    /\ range \in [BatchId -> SUBSET Serial]
    /\ batchIndexedAt \in [BatchId -> (0..MaxTime) \cup {None}]
    /\ DOMAIN recallIndexedAt \subseteq {recall.id : recall \in recalls}
    /\ \A k \in Key : store[k] = None \/ store[k].value \in Outcome
    /\ scans \subseteq [batchId : BatchId, serialNumber : Asked,
                        outcome : Outcome]
    /\ \A r \in Request :
        req[r].pc \in {"verified", "respond"} =>
            req[r].outcome \in Outcome \/ req[r].serial = None

Answering(r) == req[r].pc = "respond"

\* Outages, lag and cache may hide a batch, but never make a serial genuine
\* that is not, or out of range one that is: a verdict other than unregistered
\* is the contract's, in the answers and in the scans behind the dashboard
\* (verifyService.ts, cache.ts).  The types come along.
VerdictsNeverContradictChain ==
    /\ TypeOK
    /\ \A r \in Request :
        Answering(r) /\ req[r].outcome \notin {None, "unregistered"} =>
            req[r].outcome = verify_serial(req[r].batchId, req[r].serial)
    /\ \A scan \in scans :
        scan.outcome # "unregistered" =>
            scan.outcome = verify_serial(scan.batchId, scan.serialNumber)

\* An answer of unregistered does not outlive its cause: once the batch has
\* been indexed for the lifetime of a cache entry and of the two requests that
\* wrote and read it, no request is told so, whatever the order in which
\* concurrent requests stored their verdicts (verify.ts, cache.ts).
UnregisteredExpires ==
    \A r \in Request :
        Answering(r) /\ req[r].outcome = "unregistered"
            /\ batchIndexedAt[req[r].batchId] # None =>
        now - batchIndexedAt[req[r].batchId] <= TTL + 2 * MaxDuration

\* A recall the indexer had when the request came in is in the answer, and one
\* that does not cover the serial is not (recallService.ts).
AnswersShowIndexedRecalls ==
    \A r \in Request : Answering(r) =>
        /\ \A recall \in req[r].byId :
            recall \in RecallsOf(req[r].batchId)
                /\ (req[r].serial # None => req[r].serial \in recall.serials)
        /\ \A recall \in RecallsOf(req[r].batchId) :
            /\ recall.id \in DOMAIN recallIndexedAt
            /\ recallIndexedAt[recall.id] < req[r].since
            /\ req[r].serial # None => req[r].serial \in recall.serials
            => recall \in req[r].byId

\* The rows are copies of what the chain has, made at a time that is over.
RowsOK ==
    /\ \A b \in BatchId : batchIndexedAt[b] # None =>
        batchIndexedAt[b] <= now /\ range[b] # {}
    /\ IsFiniteSet(recalls)
    /\ \A recall \in recalls : recall.id \in 1..Cardinality(recalls)
    /\ \A id \in DOMAIN recallIndexedAt : recallIndexedAt[id] \in 0..now

\* A verdict that the chain would give, or one that knows too little.
Sound(b, s, outcome) == outcome # "unregistered" => outcome = verify_serial(b, s)

\* A verdict of unregistered that is from no later than the time, by lag at most,
\* when the batch was indexed.
Precedes(b, outcome, time, lag) ==
    outcome = "unregistered" /\ batchIndexedAt[b] # None =>
        time <= batchIndexedAt[b] + lag

CacheOK ==
    /\ store \in [Key -> [value : Outcome, expiresAt : Nat] \cup {None}]
    /\ \A b \in BatchId, s \in Asked : store[b, s] # None =>
        /\ store[b, s].expiresAt <= now + TTL
        /\ Sound(b, s, store[b, s].value)
        /\ Precedes(b, store[b, s].value, store[b, s].expiresAt, MaxDuration + TTL)

\* A request before and after the recalls are read.
Arrived == [pc : {"verify", "fallback", "verified", "recalls"},
            batchId : BatchId, serial : Asked \cup {None}, since : Nat,
            outcome : Outcome \cup {None}]
Merging == [pc : {"rows", "respond"},
            batchId : BatchId, serial : Asked \cup {None}, since : Nat,
            outcome : Outcome \cup {None}, byId : SUBSET recalls]

\* What a request that will be answered with a verdict knows of it.
VerdictOK(q) ==
    /\ q.pc \in {"verify", "fallback", "verified"} => q.serial \in Asked
    /\ q.pc = "verified" =>
        /\ q.outcome \in Outcome
        /\ Precedes(q.batchId, q.outcome, q.since, 0)
    /\ q.pc \in {"recalls", "rows", "respond"} =>
        /\ Precedes(q.batchId, q.outcome, q.since, MaxDuration + TTL)
        /\ \/ q.serial \in Asked /\ q.outcome \in Outcome
           \/ q.serial = None /\ q.outcome = None
    /\ q.pc \in {"verified", "recalls", "rows", "respond"} /\ q.outcome # None =>
        Sound(q.batchId, q.serial, q.outcome)

\* What it knows of the recalls.
RecallsOK(q) ==
    /\ q.pc = "rows" => q.byId \subseteq RecallsOf(q.batchId)
    /\ q.pc = "respond" =>
        /\ \A recall \in q.byId :
            recall \in RecallsOf(q.batchId) /\ Covers(recall, q.serial)
        /\ \A recall \in RecallsOf(q.batchId) :
            /\ recall.id \in DOMAIN recallIndexedAt
            /\ recallIndexedAt[recall.id] < q.since
            /\ Covers(recall, q.serial)
            => recall \in q.byId

RequestOK(q) ==
    /\ q \in {Idle} \cup Arrived \cup Merging
    /\ q.pc # "idle" =>
        /\ q.since <= now /\ now <= q.since + MaxDuration
        /\ VerdictOK(q) /\ RecallsOK(q)

ScansOK ==
    \A scan \in scans : Sound(scan.batchId, scan.serialNumber, scan.outcome)

\* The inductive invariant of the read path.
IInv ==
    /\ TypeOK /\ RowsOK /\ CacheOK /\ ScansOK
    /\ DOMAIN req = Request
    /\ \A r \in Request : RequestOK(req[r])

\* recallService.ts:20: the answer is the indexed copy "merging in anything the
\* contract reports that the indexer has not caught up to yet".
AnswersMergeChainRecalls ==
    \A r \in Request : Answering(r) =>
        \A recall \in RecallsOf(req[r].batchId) :
            /\ recall.issuedAt < req[r].since
            /\ req[r].serial # None => req[r].serial \in recall.serials
            => recall \in req[r].byId

=============================================================================
