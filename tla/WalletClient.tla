---------------------------- MODULE WalletClient ----------------------------
(***************************************************************************)
(* Submitting a transaction from the browser (frontend/src/lib/contract.ts *)
(* invoke and waitForTransaction, behind the forms of the dashboard and of *)
(* the purchase page; scripts/deploy-testnet.mjs waits the same way).  A   *)
(* form holds one operation, which its user submits until the form says it *)
(* is done.  The forms share one wallet account, whose sequence number     *)
(* admits one transaction at a time.                                       *)
(*                                                                         *)
(* The network is external: it applies a transaction at most once, only    *)
(* within its time bounds and only with the account's next sequence        *)
(* number, and it may be slow, drop it, or lose an answer.                 *)
(***************************************************************************)
EXTENDS Integers, FiniteSets

CONSTANTS
    Form,
    Repeatable,     \* the forms whose operation the contract takes again:
                    \* issue_recall; a batch or a receipt only once
    TxTimeout,      \* validity of a transaction from its building on, setTimeout(60)
    WaitTimeout,    \* timeoutMs of waitForTransaction, 90 s
    MaxPollDelay,   \* from the node's answer of a poll to the next look at
                    \* the clock: the way back, and the pause of 1 s
    MaxAttempts, MaxTime, MaxFaults     \* bounds

ASSUME ConstantsAssumption ==
    /\ Repeatable \subseteq Form
    /\ {TxTimeout, WaitTimeout, MaxPollDelay} \subseteq Nat
    /\ {MaxAttempts, MaxTime, MaxFaults} \subseteq Nat

\* 60 s, 1 s and the way back against 90 s.
ASSUME WaitAssumption == TxTimeout + MaxPollDelay < WaitTimeout

VARIABLES
    now,
    sequence,   \* the account's sequence number on the ledger
    pool,       \* transactions the network may still apply
    outcome,    \* applied transactions: id -> "SUCCESS" or "FAILED"
    form,       \* the forms
    attempts,   \* transactions built, which numbers them
    faults

network == <<sequence, pool, outcome>>
vars == <<now, network, form, attempts, faults>>

NoTx == [id |-> 0]

NewForm == [pc |-> "ready", tx |-> NoTx, deadline |-> 0, readAt |-> 0]

\* The times are kept for as long as the form waits.
Becomes(f, pc) ==
    form' = [form EXCEPT ![f].pc = pc, ![f].readAt = 0,
                         ![f].deadline = IF pc = "poll" THEN @ ELSE 0]

Fault == faults < MaxFaults /\ faults' = faults + 1

Applied(f) ==
    {id \in DOMAIN outcome : outcome[id].form = f /\ outcome[id].status = "SUCCESS"}

-----------------------------------------------------------------------------
(* The network *)

InTime(tx) == now <= tx.maxTime
NextInLine(tx) == tx.sequence = sequence + 1

\* What the contract makes of a form's operation: once, or every time.
Result(f) == IF f \in Repeatable \/ Applied(f) = {} THEN "SUCCESS" ELSE "FAILED"

\* A transaction the contract would take may still fail, for its resources.
Apply(tx) ==
    /\ InTime(tx) /\ NextInLine(tx)
    /\ sequence' = tx.sequence
    /\ pool' = pool \ {tx}
    /\ \E status \in {Result(tx.form), "FAILED"} :
        outcome' = [id \in DOMAIN outcome \cup {tx.id} |->
                        IF id = tx.id THEN [form |-> tx.form, status |-> status]
                        ELSE outcome[id]]
    /\ UNCHANGED <<now, form, attempts, faults>>

\* A poll's answer is looked at before MaxPollDelay is over.
Tick ==
    /\ now < MaxTime
    /\ \A f \in Form : form[f].pc = "pause" => now - form[f].readAt < MaxPollDelay
    /\ now' = now + 1
    /\ UNCHANGED <<network, form, attempts, faults>>

-----------------------------------------------------------------------------
(* handleSubmit and invoke.  A form that is busy cannot be submitted; one   *)
(* that shows an error keeps its fields.                                    *)

Ended == {"success", "failed", "timeout", "error"}

handleSubmit(f) ==
    /\ form[f].pc \in {"ready", "failed", "timeout", "error"}
    /\ attempts < MaxAttempts
    /\ form' = [form EXCEPT ![f] = [NewForm EXCEPT !.pc = "getAccount"]]
    /\ UNCHANGED <<now, network, attempts, faults>>

\* The transaction is built on the account's sequence number.
getAccount(f) ==
    /\ form[f].pc = "getAccount"
    /\ attempts < MaxAttempts
    /\ attempts' = attempts + 1
    /\ form' = [form EXCEPT ![f].pc = "prepare",
                            ![f].tx = [id |-> attempts + 1, form |-> f,
                                       sequence |-> sequence + 1,
                                       maxTime |-> now + TxTimeout]]
    /\ UNCHANGED <<now, network, faults>>

\* The simulation fails when the contract would refuse the operation.
prepareTransaction(f) ==
    /\ form[f].pc = "prepare"
    /\ Becomes(f, IF Result(f) = "SUCCESS" THEN "sign" ELSE "error")
    /\ UNCHANGED <<now, network, attempts, faults>>

\* The user signs, taking any time, or declines.
signTransaction(f) ==
    /\ form[f].pc = "sign"
    /\ \E pc \in {"send", "error"} : Becomes(f, pc)
    /\ UNCHANGED <<now, network, attempts, faults>>

Acceptable(tx) == InTime(tx) /\ NextInLine(tx)

\* Planted bug for mutation: the wait is no longer than the transaction is good.
DeadlineFromTx(tx) == tx.maxTime

Deadline(tx) == now + WaitTimeout

StartWaiting(f) ==
    form' = [form EXCEPT ![f].pc = "poll", ![f].deadline = Deadline(form[f].tx)]

\* PENDING; TRY_AGAIN_LATER, which invoke takes for it; ERROR.
sendTransaction(f) ==
    /\ form[f].pc = "send"
    /\ \/ /\ Acceptable(form[f].tx)
          /\ pool' = pool \cup {form[f].tx}
          /\ StartWaiting(f)
       \/ UNCHANGED pool /\ StartWaiting(f)
       \/ /\ ~Acceptable(form[f].tx)
          /\ UNCHANGED pool
          /\ Becomes(f, "error")
    /\ UNCHANGED <<now, sequence, outcome, attempts, faults>>

\* A call to the node throws, and so does invoke.  What was sent may have
\* arrived.
CallFails(f) ==
    /\ form[f].pc \in {"getAccount", "prepare", "send", "poll"}
    /\ Fault
    /\ \/ UNCHANGED pool
       \/ /\ form[f].pc = "send" /\ Acceptable(form[f].tx)
          /\ pool' = pool \cup {form[f].tx}
    /\ Becomes(f, "error")
    /\ UNCHANGED <<now, sequence, outcome, attempts>>

\* Planted bug for mutation: a transaction that failed is waited for too.
StatusShownIfFound(tx) ==
    IF tx.id \in DOMAIN outcome THEN "success" ELSE "pause"

\* What an answer of getTransaction leads to.
StatusShown(tx) ==
    IF tx.id \notin DOMAIN outcome THEN "pause"
    ELSE IF outcome[tx.id].status = "SUCCESS" THEN "success" ELSE "failed"

\* The node answers a poll.
getTransaction(f) ==
    /\ form[f].pc = "poll"
    /\ form' = [form EXCEPT ![f].pc = StatusShown(form[f].tx),
                            ![f].readAt = now]
    /\ UNCHANGED <<now, network, attempts, faults>>

\* After NOT_FOUND and the pause: another poll, if the deadline is not reached.
Continue(f) ==
    /\ form[f].pc = "pause"
    /\ Becomes(f, IF now < form[f].deadline THEN "poll" ELSE "timeout")
    /\ UNCHANGED <<now, network, attempts, faults>>

-----------------------------------------------------------------------------
Init ==
    /\ now = 0
    /\ sequence = 0 /\ pool = {}
    /\ outcome = [id \in {} |-> NoTx]
    /\ form = [f \in Form |-> NewForm]
    /\ attempts = 0 /\ faults = 0

Next ==
    \/ \E tx \in pool : Apply(tx)
    \/ Tick
    \/ \E f \in Form :
        \/ handleSubmit(f)
        \/ getAccount(f)
        \/ prepareTransaction(f)
        \/ signTransaction(f)
        \/ sendTransaction(f)
        \/ CallFails(f)
        \/ getTransaction(f)
        \/ Continue(f)

Spec == Init /\ [][Next]_vars

-----------------------------------------------------------------------------
(* Properties *)

\* Types of the ledger's side and of the forms.
TypeOK ==
    /\ now \in 0..MaxTime
    /\ sequence = Cardinality(DOMAIN outcome)
    /\ \A tx \in pool : tx.form \in Form /\ tx.id \in 1..attempts
    /\ \A f \in Form :
        form[f].pc \in Ended \cup {"ready", "getAccount", "prepare", "sign",
                                   "send", "poll", "pause"}

\* A form that reports a timeout tells the truth: its transaction was not
\* applied and never will be, so that submitting again repeats nothing.  The
\* wait outlasts the validity of the transaction, however long the user took to
\* sign (contract.ts invoke and waitForTransaction).
TimeoutIsFinal ==
    \A f \in Form : form[f].pc = "timeout" =>
        /\ form[f].tx.id \notin DOMAIN outcome
        /\ form[f].tx \in pool => ~InTime(form[f].tx)

\* An operation is applied more than once only by way of a call whose answer
\* was lost; each of those is worth one repetition, and an operation that the
\* contract takes once is applied once at most.
RepeatsNeedLostAnswers ==
    \A f \in Form :
        Cardinality(Applied(f)) <= IF f \in Repeatable THEN 1 + faults ELSE 1

\* A form shows one of its own messages: success only when its transaction did
\* what it was to do, and failure only when it was refused.
ReportsAreTrue ==
    /\ TypeOK
    /\ \A f \in Form :
        /\ form[f].pc = "success" => form[f].tx.id \in Applied(f)
        /\ form[f].pc = "failed" =>
            form[f].tx.id \in DOMAIN outcome \ Applied(f)

Tx == [id : 1..attempts, form : Form, sequence : Nat, maxTime : Nat]

\* The transactions that the network or a form still knows.
Known == (pool \cup {form[f].tx : f \in Form}) \ {NoTx}

FormsOK ==
    /\ form \in [Form -> [pc : Ended \cup {"ready", "getAccount", "prepare", "sign",
                                           "send", "poll", "pause"},
                          tx : Tx \cup {NoTx}, deadline : Nat, readAt : Nat]]
    /\ \A f \in Form :
        /\ form[f].tx # NoTx =>
            form[f].tx.form = f /\ form[f].tx.maxTime <= now + TxTimeout
        /\ form[f].pc \notin {"ready", "getAccount", "error"} => form[f].tx # NoTx

NetworkOK ==
    /\ now \in Nat /\ sequence \in Nat /\ attempts \in Nat /\ faults \in Nat
    /\ pool \subseteq Tx
    /\ DOMAIN outcome \subseteq 1..attempts
    /\ \A id \in DOMAIN outcome :
        outcome[id] \in [form : Form, status : {"SUCCESS", "FAILED"}]

\* A transaction is applied once, for the form that made it, and only if sent.
TransactionsOnce ==
    /\ \A t, u \in Known : t.id = u.id => t = u
    /\ \A t \in pool : t.id \notin DOMAIN outcome
    /\ \A t \in Known : t.id \in DOMAIN outcome => outcome[t.id].form = t.form
    /\ \A f \in Form : form[f].pc \in {"prepare", "sign", "send"} =>
        form[f].tx \notin pool /\ form[f].tx.id \notin DOMAIN outcome

\* The last look at the clock comes after the end of the transaction's time bounds,
\* and so does the last answer of the node before it.
WaitOutlastsTx ==
    \A f \in Form :
        LET tx == form[f].tx
        IN  /\ form[f].pc \in {"poll", "pause"} =>
                tx.maxTime + MaxPollDelay < form[f].deadline
            /\ form[f].pc = "pause" =>
                /\ form[f].readAt <= now /\ now <= form[f].readAt + MaxPollDelay
                /\ tx.id \in DOMAIN outcome => form[f].readAt <= tx.maxTime
            /\ form[f].pc = "timeout" =>
                now > tx.maxTime /\ tx.id \notin DOMAIN outcome

\* The form's transactions that did, or still may do, its operation.
Effective(f) ==
    Applied(f) \cup {tx.id : tx \in {t \in pool : t.form = f /\ InTime(t)}}

\* Those the form no longer waits for.
Abandoned(f) ==
    IF form[f].pc \in {"prepare", "sign", "send", "poll", "pause", "success"}
    THEN Effective(f) \ {form[f].tx.id} ELSE Effective(f)

\* A form lets go of a transaction that may be applied only by way of a fault.
AbandonedByFaults ==
    \A f \in Form :
        /\ Cardinality(Abandoned(f)) <= faults
        /\ f \notin Repeatable => Cardinality(Applied(f)) <= 1

\* The inductive invariant of the forms and the network.
IInv ==
    /\ ReportsAreTrue
    /\ FormsOK
    /\ NetworkOK
    /\ TransactionsOnce
    /\ WaitOutlastsTx
    /\ AbandonedByFaults

=============================================================================
