-------------------------------- MODULE Deploy --------------------------------
(***************************************************************************)
(* The deployment of the contract (scripts/deploy-testnet.mjs): upload the *)
(* wasm, create an instance under a fresh salt, initialize it with an      *)
(* admin, and only then write deployments/testnet.json.  A run stops at    *)
(* the first call that fails and is started again by hand, one run at a    *)
(* time; what it submitted may still be applied.                           *)
(*                                                                         *)
(* The network is external: it applies a transaction of the deployer's     *)
(* account at most once, with the account's next sequence number and       *)
(* before it expires.  Contract r is the one run r creates: its salt is    *)
(* random, and nobody but the run knows it.  A run's transaction is valid  *)
(* for 60 s and waited for 120 s, so a wait that ends has seen it expire.  *)
(***************************************************************************)
EXTENDS Integers, FiniteSets

CONSTANTS
    Account,
    Deployer,   \* the account of --secret
    MaxRuns,    \* bound on the runs
    MaxFaults,  \* bound on failing calls and killed runs
    None

ASSUME ConstantsAssumption ==
    /\ Deployer \in Account /\ None \notin Account
    /\ {MaxRuns, MaxFaults} \subseteq Nat

VARIABLES
    \* the ledger
    sequence,   \* the deployer's sequence number
    uploaded,   \* the wasm is there
    contracts,  \* contract -> its admin, None until it is initialized
    \* the node
    pending,    \* transactions that may still be applied
    results,    \* applied transactions -> their status
    \* the script
    pc, run, stage, admin, tx,
    file,       \* deployments/testnet.json: a contract and its admin, or None
    given_up,   \* transactions the script reported as failed or timed out
    faults

ledger == <<sequence, uploaded, contracts>>
node == <<pending, results>>
script == <<pc, run, stage, admin, tx>>
vars == <<ledger, node, script, file, given_up, faults>>

-----------------------------------------------------------------------------
(* The network *)

\* Only the deployer signs, so initialize cannot have another admin's
\* authorization.
Authorized(t) == t.admin = Deployer

Succeeds(t) ==
    CASE t.stage = "upload" -> TRUE
      [] t.stage = "create" -> uploaded /\ t.run \notin DOMAIN contracts
      [] t.stage = "initialize" ->
            /\ t.run \in DOMAIN contracts /\ contracts[t.run] = None
            /\ Authorized(t)

Effect(t) ==
    /\ uploaded' = (uploaded \/ t.stage = "upload")
    /\ contracts' =
        IF t.stage = "upload" THEN contracts
        ELSE [r \in DOMAIN contracts \cup {t.run} |->
                IF r # t.run THEN contracts[r]
                ELSE IF t.stage = "create" THEN None ELSE t.admin]

Apply(t) ==
    /\ t \in pending /\ t.sequence = sequence + 1
    /\ sequence' = sequence + 1
    /\ pending' = pending \ {t}
    /\ IF Succeeds(t) THEN Effect(t) ELSE UNCHANGED <<uploaded, contracts>>
    /\ results' = [u \in DOMAIN results \cup {t} |->
                    IF u # t THEN results[u]
                    ELSE IF Succeeds(t) THEN "SUCCESS" ELSE "FAILED"]
    /\ UNCHANGED <<script, file, given_up, faults>>

Expire(t) ==
    /\ t \in pending
    /\ pending' = pending \ {t}
    /\ UNCHANGED <<ledger, results, script, file, given_up, faults>>

\* contract.rs initialize takes any address that authorizes the call, so
\* another account may come first.
InitializeByOther(r, a) ==
    /\ contracts[r] = None /\ a # Deployer
    /\ contracts' = [contracts EXCEPT ![r] = a]
    /\ UNCHANGED <<sequence, uploaded, node, script, file, given_up, faults>>

\* The transactions sendTransaction takes in; it answers others with
\* TRY_AGAIN_LATER, or with ERROR when the sequence number is used up.
OfferTo(t, taken) ==
    /\ taken => t.sequence > sequence /\ pending = {}
    /\ pending' = IF taken THEN pending \cup {t} ELSE pending
    /\ UNCHANGED results

-----------------------------------------------------------------------------
(* The script *)

NoTx == [stage |-> "none"]

Fault == faults < MaxFaults /\ faults' = faults + 1

Start(a) ==
    /\ pc = "idle" /\ run < MaxRuns
    /\ run' = run + 1
    /\ admin' = a
    /\ stage' = "upload"
    /\ pc' = "getAccount"
    /\ UNCHANGED <<ledger, node, tx, file, given_up, faults>>

\* The transaction of the stage, with the account's next sequence number.
getAccount ==
    /\ pc = "getAccount"
    /\ tx' = [stage |-> stage, run |-> run, admin |-> admin,
              sequence |-> sequence + 1]
    /\ pc' = "prepare"
    /\ UNCHANGED <<ledger, node, run, stage, admin, file, given_up, faults>>

\* main().catch: the message is printed and the process exits.
Stops ==
    /\ pc' = "idle" /\ stage' = "upload" /\ tx' = NoTx
    /\ UNCHANGED <<run, admin>>

\* simulateTransaction and prepareTransaction: the simulation takes the
\* missing authorization for granted and refuses what fails without it.
Simulates(t) ==
    CASE t.stage = "upload" -> TRUE
      [] t.stage = "create" -> uploaded
      [] t.stage = "initialize" ->
            t.run \in DOMAIN contracts /\ contracts[t.run] = None

prepare ==
    /\ pc = "prepare"
    /\ IF Simulates(tx)
       THEN pc' = "send" /\ UNCHANGED <<run, stage, admin, tx>>
       ELSE Stops
    /\ UNCHANGED <<ledger, node, file, given_up, faults>>

\* ERROR ends the run; any other answer is waited on, taken in or not.
sendTransaction ==
    /\ pc = "send"
    /\ \E taken \in BOOLEAN : OfferTo(tx, taken)
    /\ \/ pc' = "poll" /\ UNCHANGED <<run, stage, admin, tx>>
       \/ pending' = pending /\ Stops
    /\ UNCHANGED <<ledger, file, given_up, faults>>

\* Planted bug for mutation: a transaction that is found is taken for done.
StatusFound(t) == IF t \in DOMAIN results THEN "SUCCESS" ELSE "NOT_FOUND"

\* What getTransaction answers.
Status(t) == IF t \in DOMAIN results THEN results[t] ELSE "NOT_FOUND"

\* Planted bug for mutation: the contract is initialized before it is created.
NextStageSkips(s) == "initialize"

NextStage(s) == IF s = "upload" THEN "create" ELSE "initialize"

\* SUCCESS: on to the next transaction, or to writing the record.
Confirmed ==
    /\ pc = "poll" /\ Status(tx) = "SUCCESS"
    /\ tx' = NoTx
    /\ IF stage = "initialize"
       THEN pc' = "write" /\ UNCHANGED stage
       ELSE pc' = "getAccount" /\ stage' = NextStage(stage)
    /\ UNCHANGED <<ledger, node, run, admin, file, given_up, faults>>

FailedOnChain ==
    /\ pc = "poll" /\ Status(tx) = "FAILED"
    /\ given_up' = given_up \cup {tx}
    /\ Stops
    /\ UNCHANGED <<ledger, node, file, faults>>

\* Planted bug for mutation: the wait is shorter than the time bounds.
ExpiredEarly(t) == Status(t) = "NOT_FOUND"

\* Planted bug for mutation: while (true) instead of the deadline.
ExpiredNever(t) == FALSE

\* The deadline has passed, and with it the transaction's time bounds.
Expired(t) == t \notin pending /\ Status(t) = "NOT_FOUND"

TimesOut ==
    /\ pc = "poll" /\ Expired(tx)
    /\ given_up' = given_up \cup {tx}
    /\ Stops
    /\ UNCHANGED <<ledger, node, file, faults>>

\* writeFileSync, and the process ends.
Write ==
    /\ pc = "write"
    /\ file' = [contract |-> run, admin |-> admin]
    /\ Stops
    /\ UNCHANGED <<ledger, node, given_up, faults>>

\* A call fails, its answer is lost, or the process is killed: the run is
\* over, and a transaction that was sent is on its way.  Killed while it
\* writes, the script leaves an empty file.
Interrupted ==
    /\ pc # "idle"
    /\ Fault
    /\ IF pc = "send" THEN \E taken \in BOOLEAN : OfferTo(tx, taken)
                      ELSE UNCHANGED node
    /\ IF pc = "write" THEN file' \in {file, None} ELSE UNCHANGED file
    /\ Stops
    /\ UNCHANGED <<ledger, given_up>>

-----------------------------------------------------------------------------
Init ==
    /\ sequence = 0 /\ uploaded = FALSE
    /\ contracts = [r \in {} |-> None]
    /\ pending = {} /\ results = [t \in {} |-> "FAILED"]
    /\ pc = "idle" /\ run = 0 /\ stage = "upload" /\ admin = Deployer
    /\ tx = NoTx
    /\ file = None
    /\ given_up = {} /\ faults = 0

Next ==
    \/ \E t \in pending : Apply(t) \/ Expire(t)
    \/ \E r \in DOMAIN contracts, a \in Account : InitializeByOther(r, a)
    \/ \E a \in Account : Start(a)
    \/ getAccount
    \/ prepare
    \/ sendTransaction
    \/ Confirmed
    \/ FailedOnChain
    \/ TimesOut
    \/ Write
    \/ Interrupted

\* The script runs on, and time bounds pass.
Spec ==
    /\ Init /\ [][Next]_vars
    /\ WF_vars(getAccount) /\ WF_vars(prepare) /\ WF_vars(sendTransaction)
    /\ WF_vars(Confirmed) /\ WF_vars(FailedOnChain) /\ WF_vars(TimesOut)
    /\ WF_vars(Write)
    /\ WF_vars(\E t \in pending : Expire(t))

-----------------------------------------------------------------------------
(* Properties *)

\* Types of the ledger, the script and the record; a stage is only reached
\* when the one before it has taken effect.
TypeOK ==
    /\ DOMAIN contracts \subseteq 1..MaxRuns
    /\ \A r \in DOMAIN contracts : contracts[r] \in Account \cup {None}
    /\ file \in [contract : 1..MaxRuns, admin : Account] \cup {None}
    /\ pc \in {"idle", "getAccount", "prepare", "send", "poll", "write"}
    /\ stage # "upload" => uploaded
    /\ stage = "initialize" => run \in DOMAIN contracts

Tx == [stage : {"upload", "create", "initialize"}, run : 1..run,
       admin : Account, sequence : Nat]

\* The transactions that ever left the script, or that it gave up before.
Sent == pending \cup DOMAIN results \cup given_up

StageNumber(s) == CASE s = "upload" -> 1 [] s = "create" -> 2 [] OTHER -> 3

\* Types of the script's variables, and what they are while a run waits for a
\* transaction.
ScriptOK ==
    /\ run \in 0..MaxRuns /\ sequence \in Nat /\ uploaded \in BOOLEAN
    /\ stage \in {"upload", "create", "initialize"} /\ admin \in Account
    /\ Sent \subseteq Tx
    /\ \A t \in DOMAIN results : results[t] \in {"SUCCESS", "FAILED"}
    /\ pc = "idle" => stage = "upload"
    /\ pc # "idle" => run \in 1..MaxRuns
    /\ pc \in {"prepare", "send", "poll"} =>
        /\ tx \in Tx
        /\ tx.stage = stage /\ tx.run = run /\ tx.admin = admin
    /\ DOMAIN contracts \subseteq 1..run

\* A run sends one transaction for each of its stages, in their order.
OneOfAStage ==
    /\ \A t, u \in Sent : t.run = u.run /\ t.stage = u.stage => t = u
    /\ \A t \in Sent :
        t.run = run =>
            /\ pc \in {"getAccount", "prepare", "send"} =>
                StageNumber(t.stage) < StageNumber(stage)
            /\ pc = "poll" => t = tx \/ StageNumber(t.stage) < StageNumber(stage)

\* A transaction is applied once, and what its status says of it is so.
ResultsAreTrue ==
    /\ \A t \in DOMAIN results : t \notin pending /\ t.sequence <= sequence
    /\ \A t \in DOMAIN results :
        results[t] = "SUCCESS" =>
            /\ t.stage = "upload" => uploaded
            /\ t.stage = "create" => t.run \in DOMAIN contracts
            /\ t.stage = "initialize" =>
                /\ t.run \in DOMAIN contracts
                /\ contracts[t.run] = t.admin /\ Authorized(t)
    /\ \A r \in DOMAIN contracts :
        \E t \in DOMAIN results :
            t.stage = "create" /\ t.run = r /\ results[t] = "SUCCESS"

\* A transaction is given up by the run that sent it, as its last step.
GivenUpAtTheEnd ==
    /\ \A t \in given_up : t \notin pending /\ Status(t) # "SUCCESS"
    /\ pc # "idle" => \A t \in given_up : t.run < run

WriteIsLast ==
    pc = "write" =>
        run \in DOMAIN contracts /\ contracts[run] = admin /\ admin = Deployer

\* What deployments/testnet.json names is on the ledger, initialized with the
\* admin it names, after any failures, restarts and late transactions
\* (deploy-testnet.mjs main: the record comes last).  That admin is the deployer:
\* a run with another --admin, which docs/DEPLOYMENT.md offers, never gets there,
\* as the deployer's is the only signature (prepareAndSubmit, contract.rs
\* initialize).
RecordIsTrue ==
    file # None =>
        /\ file.contract \in DOMAIN contracts
        /\ contracts[file.contract] = file.admin
        /\ file.admin = Deployer

\* A run that reports "failed on chain" or "timed out" is right: the
\* transaction has no effect, then or later, and a new run repeats nothing
\* (deploy-testnet.mjs submitAndWait, 120 s against setTimeout(60)).
GivenUpIsFinal ==
    \A t \in given_up :
        /\ t \notin pending
        /\ Status(t) # "SUCCESS"
        /\ t.stage = "create" => t.run \notin DOMAIN contracts

\* The inductive invariant behind both: the script's knowledge of its transactions
\* is the ledger's, at every point of a run (deploy-testnet.mjs main,
\* submitAndWait).
IInv ==
    /\ TypeOK
    /\ ScriptOK
    /\ OneOfAStage
    /\ ResultsAreTrue
    /\ GivenUpAtTheEnd
    /\ WriteIsLast
    /\ RecordIsTrue

\* Every run ends, in a record or a message: submitAndWait waits for a
\* transaction that is never applied until its deadline only.
RunEnds == (pc # "idle") ~> (pc = "idle")

=============================================================================
