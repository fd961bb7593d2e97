----------------------------- MODULE DeployProofs -----------------------------
(***************************************************************************)
(* Theorems about the deployment, for any number of runs and interruptions *)
(* and any accounts.                                                       *)
(***************************************************************************)
EXTENDS Deploy, TLAPS

-----------------------------------------------------------------------------
(* The network *)

\* The invariant holds before the first run.
LEMMA InitInvariant == Init => IInv
<1> SUFFICES ASSUME Init PROVE IInv
    OBVIOUS
<1> USE ConstantsAssumption DEF Init
<1>1. /\ DOMAIN contracts = {} /\ DOMAIN results = {} /\ Sent = {}
    BY DEF Sent
<1>2. TypeOK
    BY <1>1 DEF TypeOK
<1>3. ScriptOK
    <2>1. MaxRuns \in Nat /\ run = 0 /\ run \in 0..MaxRuns
        OBVIOUS
    <2>2. DOMAIN contracts \subseteq 1..run /\ Sent \subseteq Tx
        BY <1>1
    <2>3. /\ sequence \in Nat /\ uploaded \in BOOLEAN /\ admin \in Account
          /\ pc = "idle" /\ stage = "upload"
        OBVIOUS
    <2> HIDE DEF Init
    <2> QED BY <1>1, <2>1, <2>2, <2>3 DEF ScriptOK
<1>4. OneOfAStage /\ GivenUpAtTheEnd
    BY <1>1 DEF OneOfAStage, GivenUpAtTheEnd
<1>5. ResultsAreTrue
    BY <1>1 DEF ResultsAreTrue
<1>6. WriteIsLast /\ RecordIsTrue
    BY DEF WriteIsLast, RecordIsTrue
<1> QED BY <1>2, <1>3, <1>4, <1>5, <1>6 DEF IInv

\* What an applied transaction does keeps every contract that has an admin.
LEMMA EffectKeepsAdmins ==
    ASSUME IInv, NEW t \in pending, Succeeds(t), Effect(t)
    PROVE  /\ uploaded => uploaded'
           /\ uploaded' \in BOOLEAN
           /\ DOMAIN contracts \subseteq DOMAIN contracts'
           /\ DOMAIN contracts' \subseteq DOMAIN contracts \cup {t.run}
           /\ \A r \in DOMAIN contracts' \ DOMAIN contracts :
                r = t.run /\ t.stage = "create"
           /\ \A r \in DOMAIN contracts :
                contracts[r] # None => contracts'[r] = contracts[r]
           /\ \A r \in DOMAIN contracts' : contracts'[r] \in Account \cup {None}
           /\ t.stage = "upload" => uploaded'
           /\ t.stage = "create" => t.run \in DOMAIN contracts'
           /\ t.stage = "initialize" =>
                t.run \in DOMAIN contracts' /\ contracts'[t.run] = t.admin
<1>1. t \in Tx
    BY DEF IInv, ScriptOK, Sent
<1>2. CASE t.stage = "upload"
    BY <1>2 DEF IInv, TypeOK, ScriptOK, Effect
<1>3. CASE t.stage = "create"
    <2>1. t.run \notin DOMAIN contracts
        BY <1>3 DEF Succeeds
    <2>2. /\ DOMAIN contracts' = DOMAIN contracts \cup {t.run}
          /\ contracts'[t.run] = None
          /\ \A r \in DOMAIN contracts : contracts'[r] = contracts[r]
        BY <1>3, <2>1 DEF Effect
    <2> QED BY <1>3, <2>2 DEF IInv, TypeOK, ScriptOK, Effect
<1>4. CASE t.stage = "initialize"
    <2>1. t.run \in DOMAIN contracts /\ contracts[t.run] = None
        BY <1>4 DEF Succeeds
    <2>2. /\ DOMAIN contracts' = DOMAIN contracts
          /\ contracts'[t.run] = t.admin
          /\ \A r \in DOMAIN contracts :
                r # t.run => contracts'[r] = contracts[r]
        BY <1>4, <2>1 DEF Effect
    <2>3. t.admin \in Account
        BY <1>1 DEF Tx
    <2> QED BY <1>4, <2>1, <2>2, <2>3 DEF IInv, TypeOK, ScriptOK, Effect
<1> QED BY <1>1, <1>2, <1>3, <1>4 DEF Tx

\* Applying a transaction keeps the invariant: a failed one changes nothing.
LEMMA ApplyKeeps ==
    ASSUME IInv, NEW t \in pending, Apply(t)
    PROVE  IInv'
<1> USE ConstantsAssumption
<1>1. t \in Tx /\ t \notin DOMAIN results
    BY DEF IInv, ScriptOK, Sent, ResultsAreTrue
<1>2. /\ t.sequence = sequence + 1 /\ sequence' = sequence + 1
      /\ pending' = pending \ {t}
      /\ UNCHANGED <<pc, run, stage, admin, tx, file, given_up>>
      /\ DOMAIN results' = DOMAIN results \cup {t}
      /\ \A u \in DOMAIN results : results'[u] = results[u]
      /\ results'[t] = IF Succeeds(t) THEN "SUCCESS" ELSE "FAILED"
    BY <1>1 DEF Apply, script
<1>3. /\ uploaded => uploaded'
      /\ uploaded' \in BOOLEAN
      /\ DOMAIN contracts \subseteq DOMAIN contracts'
      /\ DOMAIN contracts' \subseteq DOMAIN contracts \cup {t.run}
      /\ \A r \in DOMAIN contracts' \ DOMAIN contracts :
            r = t.run /\ t.stage = "create" /\ Succeeds(t)
      /\ \A r \in DOMAIN contracts :
            contracts[r] # None => contracts'[r] = contracts[r]
      /\ \A r \in DOMAIN contracts' : contracts'[r] \in Account \cup {None}
    <2>1. CASE Succeeds(t)
        BY <2>1, EffectKeepsAdmins DEF Apply
    <2>2. CASE ~Succeeds(t)
        BY <2>2 DEF Apply, IInv, TypeOK, ScriptOK
    <2> QED BY <2>1, <2>2
<1>4. Sent' = Sent
    BY <1>2 DEF Sent
<1>5. Tx' = Tx
    BY <1>2 DEF Tx
<1>6. t.run \in 1..run /\ run \in 0..MaxRuns /\ t.admin \in Account
    BY <1>1 DEF Tx, IInv, ScriptOK
<1>7. TypeOK'
    BY <1>2, <1>3, <1>6 DEF IInv, TypeOK
<1>8. ScriptOK'
    BY <1>2, <1>3, <1>4, <1>5, <1>6 DEF IInv, ScriptOK
<1>9. OneOfAStage'
    BY <1>2, <1>4 DEF IInv, OneOfAStage
<1>10. ResultsAreTrue'
    <2>1. \A u \in DOMAIN results' : u \notin pending' /\ u.sequence <= sequence'
        <3>1. sequence \in Nat /\ \A u \in DOMAIN results : u.sequence \in Nat
            BY DEF IInv, ScriptOK, Sent, Tx
        <3> QED BY <1>2, <3>1 DEF IInv, ResultsAreTrue
    <2>2. ASSUME NEW u \in DOMAIN results', results'[u] = "SUCCESS"
          PROVE  /\ u.stage = "upload" => uploaded'
                 /\ u.stage = "create" => u.run \in DOMAIN contracts'
                 /\ u.stage = "initialize" =>
                    /\ u.run \in DOMAIN contracts'
                    /\ contracts'[u.run] = u.admin /\ Authorized(u)
        <3>1. CASE u = t
            <4>1. Succeeds(t) /\ Effect(t)
                BY <3>1, <2>2, <1>2 DEF Apply
            <4>2. t.stage = "initialize" => Authorized(t)
                BY <4>1 DEF Succeeds
            <4> QED BY <3>1, <4>1, <4>2, EffectKeepsAdmins
        <3>2. CASE u \in DOMAIN results
            <4>1. results[u] = "SUCCESS"
                BY <3>2, <2>2, <1>2
            <4>2. /\ u.stage = "upload" => uploaded
                  /\ u.stage = "create" => u.run \in DOMAIN contracts
                  /\ u.stage = "initialize" =>
                    /\ u.run \in DOMAIN contracts
                    /\ contracts[u.run] = u.admin /\ u.admin = Deployer
                BY <3>2, <4>1 DEF IInv, ResultsAreTrue, Authorized
            <4> QED BY <4>2, <1>3 DEF Authorized
        <3> QED BY <3>1, <3>2, <1>2
    <2>3. ASSUME NEW r \in DOMAIN contracts'
          PROVE  \E u \in DOMAIN results' :
                    u.stage = "create" /\ u.run = r /\ results'[u] = "SUCCESS"
        <3>1. CASE r \in DOMAIN contracts
            BY <3>1, <1>2 DEF IInv, ResultsAreTrue
        <3>2. CASE r \notin DOMAIN contracts
            BY <3>2, <1>2, <1>3
        <3> QED BY <3>1, <3>2
    <2> QED BY <2>1, <2>2, <2>3 DEF ResultsAreTrue, Authorized
<1>11. GivenUpAtTheEnd'
    BY <1>2 DEF IInv, GivenUpAtTheEnd, Status
<1>12. WriteIsLast'
    BY <1>2, <1>3 DEF IInv, WriteIsLast
<1>13. RecordIsTrue'
    BY <1>2, <1>3 DEF IInv, RecordIsTrue
<1> QED BY <1>7, <1>8, <1>9, <1>10, <1>11, <1>12, <1>13 DEF IInv

\* A transaction that expires is forgotten.
LEMMA ExpireKeeps ==
    ASSUME IInv, NEW t \in pending, Expire(t)
    PROVE  IInv'
<1>1. /\ pending' = pending \ {t}
      /\ UNCHANGED <<sequence, uploaded, contracts, results, pc, run, stage, admin,
                     tx, file, given_up>>
    BY DEF Expire, ledger, script
<1>2. Sent' \subseteq Sent
    BY <1>1 DEF Sent
<1>3. Tx' = Tx
    BY <1>1 DEF Tx
<1>4. ScriptOK'
    BY <1>1, <1>2, <1>3 DEF IInv, ScriptOK
<1>5. OneOfAStage'
    BY <1>1, <1>2 DEF IInv, OneOfAStage
<1> QED BY <1>1, <1>4, <1>5
        DEF IInv, TypeOK, ResultsAreTrue, GivenUpAtTheEnd, WriteIsLast,
            RecordIsTrue, Status

\* Another account initializes a contract that has no admin yet.
LEMMA InitializeByOtherKeeps ==
    ASSUME IInv, NEW r \in DOMAIN contracts, NEW a \in Account,
           InitializeByOther(r, a)
    PROVE  IInv'
<1> USE ConstantsAssumption
<1>1. /\ contracts[r] = None
      /\ DOMAIN contracts' = DOMAIN contracts /\ contracts'[r] = a
      /\ \A x \in DOMAIN contracts : x # r => contracts'[x] = contracts[x]
      /\ UNCHANGED <<sequence, uploaded, pending, results, pc, run, stage, admin,
                     tx, file, given_up>>
    BY DEF InitializeByOther, node, script
<1>2. Sent' = Sent /\ Tx' = Tx
    BY <1>1 DEF Sent, Tx
<1>3. \A x \in DOMAIN contracts :
            contracts[x] = Deployer => contracts'[x] = contracts[x]
    BY <1>1
<1>4. ResultsAreTrue'
    BY <1>1, <1>3 DEF IInv, ResultsAreTrue, Authorized
<1>5. TypeOK' /\ ScriptOK'
    BY <1>1, <1>2 DEF IInv, TypeOK, ScriptOK
<1>6. OneOfAStage' /\ GivenUpAtTheEnd'
    BY <1>1, <1>2 DEF IInv, OneOfAStage, GivenUpAtTheEnd, Status
<1>7. WriteIsLast' /\ RecordIsTrue'
    BY <1>1, <1>3 DEF IInv, WriteIsLast, RecordIsTrue
<1> QED BY <1>4, <1>5, <1>6, <1>7 DEF IInv

-----------------------------------------------------------------------------
(* The script *)

\* A run starts with no transaction of its own.
LEMMA StartKeeps ==
    ASSUME IInv, NEW a \in Account, Start(a)
    PROVE  IInv'
<1> USE ConstantsAssumption
<1>1. /\ pc = "idle" /\ run < MaxRuns /\ run' = run + 1 /\ admin' = a
      /\ stage' = "upload" /\ pc' = "getAccount"
      /\ UNCHANGED <<sequence, uploaded, contracts, pending, results, tx, file,
                     given_up>>
    BY DEF Start, ledger, node
<1>2. /\ run \in 0..MaxRuns /\ run' \in 1..MaxRuns
    BY <1>1 DEF IInv, ScriptOK
<1>3. Sent' = Sent
    BY <1>1 DEF Sent
<1>4. \A t \in Sent : t \in Tx' /\ t.run < run'
    BY <1>1, <1>2 DEF IInv, ScriptOK, Tx
<1>5. TypeOK'
    BY <1>1 DEF IInv, TypeOK
<1>6. ScriptOK'
    BY <1>1, <1>2, <1>3, <1>4 DEF IInv, ScriptOK
<1>7. OneOfAStage'
    BY <1>1, <1>2, <1>3, <1>4 DEF IInv, OneOfAStage
<1>8. ResultsAreTrue'
    BY <1>1 DEF IInv, ResultsAreTrue, Authorized
<1>9. GivenUpAtTheEnd'
    BY <1>1, <1>4 DEF IInv, GivenUpAtTheEnd, Sent, Status
<1>10. WriteIsLast' /\ RecordIsTrue'
    BY <1>1 DEF IInv, WriteIsLast, RecordIsTrue
<1> QED BY <1>5, <1>6, <1>7, <1>8, <1>9, <1>10 DEF IInv

\* The script takes up its next transaction.
LEMMA GetAccountKeeps ==
    ASSUME IInv, getAccount
    PROVE  IInv'
<1>1. /\ pc = "getAccount" /\ pc' = "prepare"
      /\ tx' = [stage |-> stage, run |-> run, admin |-> admin,
                sequence |-> sequence + 1]
      /\ UNCHANGED <<sequence, uploaded, contracts, pending, results, run, stage,
                     admin, file, given_up>>
    BY DEF getAccount, ledger, node
<1>2. Sent' = Sent /\ Tx' = Tx
    BY <1>1 DEF Sent, Tx
<1>3. tx' \in Tx /\ tx'.stage = stage /\ tx'.run = run /\ tx'.admin = admin
    BY <1>1, ConstantsAssumption DEF IInv, ScriptOK, Tx
<1>4. TypeOK' /\ ScriptOK'
    BY <1>1, <1>2, <1>3 DEF IInv, TypeOK, ScriptOK
<1>5. OneOfAStage'
    BY <1>1, <1>2 DEF IInv, OneOfAStage
<1>6. ResultsAreTrue' /\ GivenUpAtTheEnd'
    BY <1>1 DEF IInv, ResultsAreTrue, Authorized, GivenUpAtTheEnd, Status
<1>7. WriteIsLast' /\ RecordIsTrue'
    BY <1>1 DEF IInv, WriteIsLast, RecordIsTrue
<1> QED BY <1>4, <1>5, <1>6, <1>7 DEF IInv

\* Sending a transaction, taken in or not, sends nothing twice: its stage is new in
\* its run and a run is new among the runs.
LEMMA OfferKeeps ==
    ASSUME IInv, pc = "send", NEW taken \in BOOLEAN, OfferTo(tx, taken),
           UNCHANGED <<ledger, given_up>>
    PROVE  /\ results' = results
           /\ Sent' \subseteq Sent \cup {tx}
           /\ tx \in Tx /\ tx.run = run /\ tx.stage = stage
           /\ \A t, u \in Sent' : t.run = u.run /\ t.stage = u.stage => t = u
           /\ \A t \in Sent' : t.run = run =>
                t = tx \/ StageNumber(t.stage) < StageNumber(stage)
           /\ \A t \in given_up : t \notin pending'
           /\ ResultsAreTrue'
<1>1. /\ results' = results /\ given_up' = given_up
      /\ UNCHANGED <<sequence, uploaded, contracts>>
      /\ pending' \subseteq pending \cup {tx}
      /\ tx \in pending' => tx.sequence > sequence \/ tx \in pending
    BY DEF OfferTo, ledger
<1>2. tx \in Tx /\ tx.run = run /\ tx.stage = stage
    BY DEF IInv, ScriptOK
<1>3. Sent' \subseteq Sent \cup {tx}
    BY <1>1 DEF Sent
<1>4. \A t \in Sent : t.run = run => StageNumber(t.stage) < StageNumber(stage)
    BY DEF IInv, OneOfAStage
<1>5. \A t \in Sent : ~(t.run = run /\ t.stage = stage)
    BY <1>4 DEF StageNumber
<1>6. \A t, u \in Sent' : t.run = u.run /\ t.stage = u.stage => t = u
    BY <1>2, <1>3, <1>5 DEF IInv, OneOfAStage
<1>7. \A t \in given_up : t \notin pending'
    <2>1. \A t \in given_up : t # tx
        BY <1>2, <1>5 DEF Sent
    <2> QED BY <2>1, <1>1 DEF IInv, GivenUpAtTheEnd
<1>8. ResultsAreTrue'
    <2>1. tx \notin DOMAIN results
        BY <1>2, <1>5 DEF Sent
    <2> QED BY <1>1, <2>1 DEF IInv, ResultsAreTrue, Authorized
<1> QED BY <1>1, <1>2, <1>3, <1>4, <1>6, <1>7, <1>8

\* The end of a run keeps the invariant, whatever it leaves on its way and whether
\* or not it gives a transaction up.
LEMMA StopsKeeps ==
    ASSUME IInv, pc # "idle", Stops, UNCHANGED <<ledger, results>>,
           Sent' \subseteq Sent \cup {tx},
           \A t \in Sent' : t \in Tx,
           \A t, u \in Sent' : t.run = u.run /\ t.stage = u.stage => t = u,
           \A t \in given_up' : t \notin pending' /\ Status(t) # "SUCCESS",
           ResultsAreTrue',
           file' \in {file, None, [contract |-> run, admin |-> admin]},
           RecordIsTrue'
    PROVE  IInv'
<1> USE ConstantsAssumption
<1>1. /\ pc' = "idle" /\ stage' = "upload"
      /\ UNCHANGED <<run, admin, sequence, uploaded, contracts, results>>
    BY DEF Stops, ledger
<1>2. run \in 1..MaxRuns /\ admin \in Account /\ Tx' = Tx
    BY <1>1 DEF IInv, ScriptOK, Tx
<1>3. TypeOK'
    BY <1>1, <1>2 DEF IInv, TypeOK
<1>4. ScriptOK'
    BY <1>1, <1>2 DEF IInv, ScriptOK
<1>5. OneOfAStage'
    BY <1>1 DEF OneOfAStage
<1>6. GivenUpAtTheEnd' /\ WriteIsLast'
    BY <1>1 DEF GivenUpAtTheEnd, Status, WriteIsLast
<1> QED BY <1>3, <1>4, <1>5, <1>6 DEF IInv

\* A run that only ends keeps the invariant.
LEMMA OnlyStopsKeeps ==
    ASSUME IInv, pc # "idle", Stops,
           UNCHANGED <<ledger, results, pending, given_up>>,
           file' \in {file, None}
    PROVE  IInv'
<1>1. UNCHANGED <<sequence, uploaded, contracts>> /\ Sent' = Sent
    BY DEF ledger, Sent
<1>2. ResultsAreTrue'
    BY <1>1 DEF IInv, ResultsAreTrue, Authorized
<1>3. RecordIsTrue'
    BY <1>1 DEF IInv, RecordIsTrue
<1> QED BY <1>1, <1>2, <1>3, StopsKeeps
        DEF IInv, ScriptOK, OneOfAStage, GivenUpAtTheEnd

\* prepare keeps the invariant.
LEMMA PrepareKeeps ==
    ASSUME IInv, prepare
    PROVE  IInv'
<1>1. CASE pc' = "send" /\ UNCHANGED <<run, stage, admin, tx>>
    <2>1. /\ pc = "prepare"
          /\ UNCHANGED <<sequence, uploaded, contracts, pending, results, file,
                         given_up>>
        BY DEF prepare, ledger, node
    <2>2. Sent' = Sent /\ Tx' = Tx
        BY <1>1, <2>1 DEF Sent, Tx
    <2>3. TypeOK' /\ ScriptOK'
        BY <1>1, <2>1, <2>2 DEF IInv, TypeOK, ScriptOK
    <2>4. OneOfAStage'
        BY <1>1, <2>1, <2>2 DEF IInv, OneOfAStage
    <2>5. ResultsAreTrue' /\ GivenUpAtTheEnd'
        BY <1>1, <2>1 DEF IInv, ResultsAreTrue, Authorized, GivenUpAtTheEnd, Status
    <2>6. WriteIsLast' /\ RecordIsTrue'
        BY <1>1, <2>1 DEF IInv, WriteIsLast, RecordIsTrue
    <2> QED BY <2>3, <2>4, <2>5, <2>6 DEF IInv
<1>2. CASE Stops
    BY <1>2, OnlyStopsKeeps DEF prepare, node
<1> QED BY <1>1, <1>2 DEF prepare

\* sendTransaction keeps the invariant, with any answer.
LEMMA SendTransactionKeeps ==
    ASSUME IInv, sendTransaction
    PROVE  IInv'
<1>1. PICK taken \in BOOLEAN : OfferTo(tx, taken)
    BY DEF sendTransaction
<1>2. /\ pc = "send"
      /\ UNCHANGED <<ledger, file, given_up>>
      /\ UNCHANGED <<sequence, uploaded, contracts>>
    BY DEF sendTransaction, ledger
<1>3. /\ results' = results
      /\ Sent' \subseteq Sent \cup {tx}
      /\ tx \in Tx /\ tx.run = run /\ tx.stage = stage
      /\ \A t, u \in Sent' : t.run = u.run /\ t.stage = u.stage => t = u
      /\ \A t \in Sent' : t.run = run =>
            t = tx \/ StageNumber(t.stage) < StageNumber(stage)
      /\ \A t \in given_up : t \notin pending'
      /\ ResultsAreTrue'
    BY <1>1, <1>2, OfferKeeps
<1>4. CASE pc' = "poll" /\ UNCHANGED <<run, stage, admin, tx>>
    <2>1. Tx' = Tx
        BY <1>4 DEF Tx
    <2>2. TypeOK' /\ ScriptOK'
        BY <1>2, <1>3, <1>4, <2>1 DEF IInv, TypeOK, ScriptOK
    <2>3. OneOfAStage'
        BY <1>3, <1>4 DEF OneOfAStage
    <2>4. GivenUpAtTheEnd'
        BY <1>2, <1>3, <1>4 DEF IInv, GivenUpAtTheEnd, Status
    <2>5. WriteIsLast' /\ RecordIsTrue'
        BY <1>2, <1>4 DEF IInv, WriteIsLast, RecordIsTrue
    <2> QED BY <1>3, <2>2, <2>3, <2>4, <2>5 DEF IInv
<1>5. CASE pending' = pending /\ Stops
    BY <1>2, <1>3, <1>5, OnlyStopsKeeps
<1> QED BY <1>4, <1>5 DEF sendTransaction

\* A confirmed transaction has done what its stage is for.
LEMMA ConfirmedKeeps ==
    ASSUME IInv, Confirmed
    PROVE  IInv'
<1> USE ConstantsAssumption
<1>1. /\ pc = "poll"
      /\ UNCHANGED <<sequence, uploaded, contracts, pending, results, run, admin,
                     file, given_up>>
    BY DEF Confirmed, ledger, node
<1>2. tx \in DOMAIN results /\ results[tx] = "SUCCESS"
    BY DEF Confirmed, Status
<1>3. /\ tx.stage = stage /\ tx.run = run /\ tx.admin = admin
      /\ stage \in {"upload", "create", "initialize"}
    BY <1>1 DEF IInv, ScriptOK
<1>4. /\ stage = "upload" => uploaded
      /\ stage = "create" => run \in DOMAIN contracts
      /\ stage = "initialize" =>
            run \in DOMAIN contracts /\ contracts[run] = admin /\ admin = Deployer
    BY <1>2, <1>3 DEF IInv, ResultsAreTrue, Authorized
<1>5. Sent' = Sent /\ Tx' = Tx
    BY <1>1 DEF Sent, Tx
<1>6. ResultsAreTrue' /\ RecordIsTrue'
    BY <1>1 DEF IInv, ResultsAreTrue, Authorized, RecordIsTrue
<1>7. CASE stage = "initialize"
    <2>1. pc' = "write" /\ stage' = stage
        BY <1>7 DEF Confirmed
    <2>2. TypeOK' /\ ScriptOK'
        BY <1>1, <1>5, <2>1 DEF IInv, TypeOK, ScriptOK
    <2>3. OneOfAStage'
        BY <1>1, <1>5, <2>1 DEF IInv, OneOfAStage
    <2>4. GivenUpAtTheEnd' /\ WriteIsLast'
        BY <1>1, <1>4, <1>7, <2>1
           DEF IInv, GivenUpAtTheEnd, Status, WriteIsLast
    <2> QED BY <1>6, <2>2, <2>3, <2>4 DEF IInv
<1>8. CASE stage # "initialize"
    <2>1. pc' = "getAccount" /\ stage' = NextStage(stage)
        BY <1>8 DEF Confirmed
    <2>2. /\ stage = "upload" => stage' = "create"
          /\ stage = "create" => stage' = "initialize"
          /\ StageNumber(stage) \in Nat
          /\ StageNumber(stage') = StageNumber(stage) + 1
        BY <1>3, <1>8, <2>1 DEF NextStage, StageNumber
    <2>3. TypeOK'
        BY <1>1, <1>3, <1>4, <1>8, <2>1, <2>2 DEF IInv, TypeOK
    <2>4. ScriptOK'
        BY <1>1, <1>3, <1>5, <1>8, <2>1, <2>2 DEF IInv, ScriptOK
    <2>5. OneOfAStage'
        <3>1. \A t \in Sent : StageNumber(t.stage) \in Nat
            BY DEF StageNumber
        <3>2. \A t \in Sent : t.run = run =>
                    StageNumber(t.stage) <= StageNumber(stage)
            BY <1>1, <1>3, <3>1, <2>2 DEF IInv, OneOfAStage
        <3>3. \A t \in Sent : t.run = run =>
                    StageNumber(t.stage) < StageNumber(stage')
            BY <3>1, <3>2, <2>2
        <3> QED BY <1>1, <1>5, <2>1, <3>3 DEF IInv, OneOfAStage
    <2>6. GivenUpAtTheEnd' /\ WriteIsLast'
        BY <1>1, <2>1 DEF IInv, GivenUpAtTheEnd, Status, WriteIsLast
    <2> QED BY <1>6, <2>3, <2>4, <2>5, <2>6 DEF IInv
<1> QED BY <1>7, <1>8

\* A transaction is given up only when it can have no effect any more.
LEMMA GiveUpKeeps ==
    ASSUME IInv, FailedOnChain \/ TimesOut
    PROVE  IInv'
<1>1. /\ pc = "poll" /\ Stops /\ given_up' = given_up \cup {tx}
      /\ UNCHANGED <<ledger, results, pending, file>>
      /\ UNCHANGED <<sequence, uploaded, contracts>>
    BY DEF FailedOnChain, TimesOut, ledger, node
<1>2. /\ tx \in Tx /\ tx.run = run /\ tx.stage = stage
      /\ stage \in {"upload", "create", "initialize"}
    BY <1>1 DEF IInv, ScriptOK
<1>3. tx \notin pending /\ Status(tx) # "SUCCESS"
    <2>1. CASE FailedOnChain
        <3>1. Status(tx) = "FAILED"
            BY <2>1 DEF FailedOnChain
        <3>2. tx \in DOMAIN results
            BY <3>1 DEF Status
        <3> QED BY <3>1, <3>2 DEF IInv, ResultsAreTrue
    <2>2. CASE TimesOut
        BY <2>2 DEF TimesOut, Expired
    <2> QED BY <2>1, <2>2
<1>4. Sent' = Sent \cup {tx}
    BY <1>1 DEF Sent
<1>5. \A t, u \in Sent' : t.run = u.run /\ t.stage = u.stage => t = u
    <2>1. \A t \in Sent : t.run = run /\ t.stage = stage => t = tx
        <3>1. StageNumber(stage) \in Nat
            BY DEF StageNumber
        <3> QED BY <3>1, <1>1 DEF IInv, OneOfAStage
    <2> QED BY <2>1, <1>2, <1>4 DEF IInv, OneOfAStage
<1>6. ResultsAreTrue' /\ RecordIsTrue'
    BY <1>1 DEF IInv, ResultsAreTrue, Authorized, RecordIsTrue
<1> QED BY <1>1, <1>2, <1>3, <1>4, <1>5, <1>6, StopsKeeps
        DEF IInv, ScriptOK, GivenUpAtTheEnd

\* The record is written of a contract that is there, with its admin.
LEMMA WriteKeeps ==
    ASSUME IInv, Write
    PROVE  IInv'
<1>1. /\ pc = "write" /\ Stops /\ file' = [contract |-> run, admin |-> admin]
      /\ UNCHANGED <<ledger, results, pending, given_up>>
      /\ UNCHANGED <<sequence, uploaded, contracts>>
    BY DEF Write, ledger, node
<1>2. Sent' = Sent
    BY <1>1 DEF Sent
<1>3. ResultsAreTrue'
    BY <1>1 DEF IInv, ResultsAreTrue, Authorized
<1>4. RecordIsTrue'
    BY <1>1 DEF IInv, WriteIsLast, RecordIsTrue
<1> QED BY <1>1, <1>2, <1>3, <1>4, StopsKeeps
        DEF IInv, ScriptOK, OneOfAStage, GivenUpAtTheEnd

\* A run may be cut off anywhere.
LEMMA InterruptedKeeps ==
    ASSUME IInv, Interrupted
    PROVE  IInv'
<1>1. /\ pc # "idle" /\ Stops /\ UNCHANGED <<ledger, given_up>>
      /\ UNCHANGED <<sequence, uploaded, contracts>>
      /\ file' \in {file, None}
    BY DEF Interrupted, ledger
<1>2. CASE pc = "send"
    <2>1. PICK taken \in BOOLEAN : OfferTo(tx, taken)
        BY <1>2 DEF Interrupted
    <2>2. /\ results' = results
          /\ Sent' \subseteq Sent \cup {tx}
          /\ tx \in Tx
          /\ \A t, u \in Sent' : t.run = u.run /\ t.stage = u.stage => t = u
          /\ \A t \in given_up : t \notin pending'
          /\ ResultsAreTrue'
        BY <1>1, <1>2, <2>1, OfferKeeps
    <2>3. RecordIsTrue'
        BY <1>1 DEF IInv, RecordIsTrue
    <2> QED BY <1>1, <2>2, <2>3, StopsKeeps
            DEF IInv, ScriptOK, GivenUpAtTheEnd
<1>3. CASE pc # "send"
    BY <1>1, <1>3, OnlyStopsKeeps DEF Interrupted, node
<1> QED BY <1>2, <1>3

-----------------------------------------------------------------------------
(* The theorems *)

\* The script's knowledge of its transactions is the ledger's, at every point of
\* every run.
THEOREM Invariant == Spec => []IInv
<1>1. IInv /\ [Next]_vars => IInv'
    <2> SUFFICES ASSUME IInv, [Next]_vars PROVE IInv'
        OBVIOUS
    <2>1. CASE \E t \in pending : Apply(t) \/ Expire(t)
        BY <2>1, ApplyKeeps, ExpireKeeps
    <2>2. CASE \E r \in DOMAIN contracts, a \in Account : InitializeByOther(r, a)
        BY <2>2, InitializeByOtherKeeps
    <2>3. CASE \E a \in Account : Start(a)
        BY <2>3, StartKeeps
    <2>4. CASE UNCHANGED vars
        BY <2>4 DEF vars, ledger, node, script, IInv, TypeOK, ScriptOK, Tx, Sent,
                    OneOfAStage, ResultsAreTrue, Authorized, GivenUpAtTheEnd,
                    Status, WriteIsLast, RecordIsTrue
    <2> QED BY <2>1, <2>2, <2>3, <2>4, GetAccountKeeps, PrepareKeeps,
               SendTransactionKeeps, ConfirmedKeeps, GiveUpKeeps, WriteKeeps,
               InterruptedKeeps
            DEF Next
<1> QED BY InitInvariant, <1>1, PTL DEF Spec

\* The record never names a contract that is not there or an admin it has not got,
\* and that admin is the deployer.
THEOREM RecordAlwaysTrue == Spec => []RecordIsTrue
<1>1. IInv => RecordIsTrue
    BY DEF IInv
<1> QED BY <1>1, Invariant, PTL

\* What a run reports as failed or timed out never takes effect.
THEOREM GivenUpAlwaysFinal == Spec => []GivenUpIsFinal
<1>1. ASSUME IInv PROVE GivenUpIsFinal
    <2> SUFFICES ASSUME NEW t \in given_up, t.stage = "create",
                        t.run \in DOMAIN contracts
                 PROVE  FALSE
        BY <1>1 DEF IInv, GivenUpAtTheEnd, GivenUpIsFinal
    <2>1. PICK u \in DOMAIN results :
                u.stage = "create" /\ u.run = t.run /\ results[u] = "SUCCESS"
        BY <1>1 DEF IInv, ResultsAreTrue
    <2>2. u = t
        BY <1>1, <2>1 DEF IInv, OneOfAStage, Sent
    <2> QED BY <1>1, <2>1, <2>2 DEF IInv, GivenUpAtTheEnd, Status
<1> QED BY <1>1, Invariant, PTL

=============================================================================
