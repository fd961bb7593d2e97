-------------------------- MODULE WalletClientProofs --------------------------
(***************************************************************************)
(* Theorems about submitting transactions, for any forms, timeouts with    *)
(* WaitAssumption, and numbers of attempts and faults.                     *)
(***************************************************************************)
EXTENDS WalletClient, FiniteSetTheorems, TLAPS

Pcs == Ended \cup {"ready", "getAccount", "prepare", "sign", "send", "poll", "pause"}

\* The states of a form that is still about its transaction, or done with it.
Holding == {"prepare", "sign", "send", "poll", "pause", "success"}

-----------------------------------------------------------------------------
(* Finite sets of transactions *)

\* A form's transactions are finitely many.
LEMMA EffectiveFinite ==
    ASSUME FormsOK, NetworkOK, NEW f \in Form
    PROVE  /\ Applied(f) \subseteq Effective(f)
           /\ Effective(f) \subseteq 1..attempts
           /\ IsFiniteSet(Effective(f)) /\ IsFiniteSet(Applied(f))
           /\ Abandoned(f) \subseteq Effective(f)
           /\ Effective(f) \subseteq Abandoned(f) \cup {form[f].tx.id}
           /\ IsFiniteSet(Abandoned(f))
<1>1. Applied(f) \subseteq 1..attempts /\ attempts \in Int
    BY DEF NetworkOK, Applied
<1>2. Effective(f) \subseteq 1..attempts
    BY <1>1 DEF NetworkOK, Effective, Tx
<1>3. IsFiniteSet(1..attempts)
    BY <1>1, FS_Interval
<1>4. /\ Abandoned(f) \subseteq Effective(f)
      /\ Effective(f) \subseteq Abandoned(f) \cup {form[f].tx.id}
    BY DEF Abandoned
<1>5. Applied(f) \subseteq Effective(f)
    BY DEF Effective
<1> QED BY <1>1, <1>2, <1>3, <1>4, <1>5, FS_Subset

\* A set that grows by at most one element.
LEMMA CardinalityGrowsByOne ==
    ASSUME NEW S, IsFiniteSet(S), NEW x, NEW T, T \subseteq S \cup {x}
    PROVE  /\ IsFiniteSet(T)
           /\ Cardinality(T) \in Nat /\ Cardinality(S) \in Nat
           /\ Cardinality(T) <= Cardinality(S) + 1
<1>1. /\ IsFiniteSet(S \cup {x}) /\ Cardinality(S) \in Nat
      /\ Cardinality(S \cup {x}) \in {Cardinality(S), Cardinality(S) + 1}
    BY FS_AddElement, FS_CardinalityType
<1>2. /\ IsFiniteSet(T) /\ Cardinality(T) <= Cardinality(S \cup {x})
    BY <1>1, FS_Subset
<1>3. Cardinality(T) \in Nat
    BY <1>2, FS_CardinalityType
<1> QED BY <1>1, <1>2, <1>3

\* A set that does not grow.
LEMMA CardinalityOfSubset ==
    ASSUME NEW S, IsFiniteSet(S), NEW T, T \subseteq S
    PROVE  /\ IsFiniteSet(T)
           /\ Cardinality(T) \in Nat /\ Cardinality(S) \in Nat
           /\ Cardinality(T) <= Cardinality(S)
BY FS_Subset, FS_CardinalityType

-----------------------------------------------------------------------------
(* Steps of a form *)

\* A step makes this of a form.
SetForm(f, pc, tx, deadline, readAt) ==
    form' = [form EXCEPT ![f] = [pc |-> pc, tx |-> tx, deadline |-> deadline,
                                 readAt |-> readAt]]

\* What a form shows and waits for is consistent with the network.
Consistent(f, pc, tx, deadline, readAt) ==
    /\ pc \notin {"ready", "getAccount", "error"} => tx # NoTx
    /\ pc \in {"prepare", "sign", "send"} =>
        tx \notin pool /\ tx.id \notin DOMAIN outcome
    /\ pc \in {"poll", "pause"} => tx.maxTime + MaxPollDelay < deadline
    /\ pc = "pause" =>
        /\ readAt <= now /\ now <= readAt + MaxPollDelay
        /\ tx.id \in DOMAIN outcome => readAt <= tx.maxTime
    /\ pc = "timeout" => now > tx.maxTime /\ tx.id \notin DOMAIN outcome
    /\ pc = "success" => tx.id \in Applied(f)
    /\ pc = "failed" => tx.id \in DOMAIN outcome \ Applied(f)

\* What the pool may gain by a step that leaves a form in pc.
PoolStep(f, pc) ==
    \/ pool' = pool
    \/ /\ pool' = pool \cup {form[f].tx}
       /\ form[f].pc = "send" /\ pc \in {"poll", "error"}

\* A step abandons nothing, or is a fault.
FaultStep(f) ==
    \/ faults' = faults /\ Abandoned(f)' \subseteq Abandoned(f)
    \/ faults' = faults + 1

\* A step of a form that makes no transaction keeps the invariant if what it makes
\* of the form is consistent with the network.
LEMMA FormStepKeeps ==
    ASSUME IInv, NEW f \in Form, NEW pc \in Pcs, NEW tx \in {form[f].tx, NoTx},
           NEW deadline \in Nat, NEW readAt \in Nat,
           SetForm(f, pc, tx, deadline, readAt),
           Consistent(f, pc, tx, deadline, readAt),
           UNCHANGED <<now, sequence, outcome, attempts>>,
           PoolStep(f, pc), FaultStep(f)
    PROVE  IInv'
<1> USE DEF SetForm, Consistent, PoolStep, FaultStep
<1> DEFINE g == [pc |-> pc, tx |-> tx, deadline |-> deadline, readAt |-> readAt]
<1>1. /\ FormsOK /\ NetworkOK /\ TransactionsOnce
      /\ form' = [form EXCEPT ![f] = g]
    BY DEF IInv
<1>2. /\ form' \in [Form -> [pc : Pcs, tx : Tx \cup {NoTx}, deadline : Nat,
                             readAt : Nat]]
      /\ form'[f] = g
      /\ \A e \in Form : e # f => form'[e] = form[e]
    <2>1. form \in [Form -> [pc : Pcs, tx : Tx \cup {NoTx}, deadline : Nat,
                             readAt : Nat]]
        BY <1>1 DEF FormsOK, Pcs
    <2>2. tx \in Tx \cup {NoTx}
        BY <2>1
    <2> QED BY <1>1, <2>1, <2>2
<1>3. Tx' = Tx
    BY DEF Tx
<1>4. g.pc = pc /\ g.tx = tx /\ g.deadline = deadline /\ g.readAt = readAt
    OBVIOUS
<1> HIDE DEF g
<1>5. FormsOK'
    <2>1. \A e \in Form : form'[e].tx # NoTx =>
                form'[e].tx.form = e /\ form'[e].tx.maxTime <= now + TxTimeout
        BY <1>1, <1>2, <1>4 DEF FormsOK
    <2>2. \A e \in Form : form'[e].pc \notin {"ready", "getAccount", "error"} =>
                form'[e].tx # NoTx
        BY <1>1, <1>2, <1>4 DEF FormsOK
    <2> QED BY <1>2, <1>3, <2>1, <2>2 DEF FormsOK, Pcs
<1>6. pool' \subseteq Tx
    <2>1. form[f].pc = "send" => form[f].tx \in Tx
        BY <1>1 DEF FormsOK
    <2> QED BY <2>1, <1>1 DEF NetworkOK
<1>7. NetworkOK'
    BY <1>1, <1>3, <1>6 DEF NetworkOK
<1>8. TransactionsOnce'
    <2>1. Known' \subseteq Known
        <3>1. form[f].pc = "send" => form[f].tx # NoTx
            BY <1>1 DEF FormsOK
        <3> QED BY <3>1, <1>2, <1>4 DEF Known
    <2>2. \A t \in pool' : t.id \notin DOMAIN outcome
        BY <1>1 DEF TransactionsOnce
    <2>3. \A e \in Form : form'[e].pc \in {"prepare", "sign", "send"} =>
            form'[e].tx \notin pool' /\ form'[e].tx.id \notin DOMAIN outcome
        <3> SUFFICES ASSUME NEW e \in Form,
                            form'[e].pc \in {"prepare", "sign", "send"}
                     PROVE  form'[e].tx \notin pool'
                            /\ form'[e].tx.id \notin DOMAIN outcome
            OBVIOUS
        <3>1. CASE e = f
            BY <3>1, <1>2, <1>4
        <3>2. CASE e # f
            <4>1. form[e].tx \notin pool /\ form[e].tx.id \notin DOMAIN outcome
                BY <3>2, <1>1, <1>2 DEF TransactionsOnce
            <4>2. form[e].tx # NoTx /\ form[e].tx.form = e
                BY <3>2, <1>1, <1>2 DEF FormsOK
            <4>3. pool' # pool => form[f].tx.form = f
                BY <1>1 DEF FormsOK
            <4> QED BY <3>2, <4>1, <4>2, <4>3, <1>2
        <3> QED BY <3>1, <3>2
    <2> QED BY <1>1, <2>1, <2>2, <2>3 DEF TransactionsOnce
<1>9. \A e \in Form : Applied(e)' = Applied(e)
    BY DEF Applied
<1>10. \A e \in Form : e # f => Abandoned(e)' = Abandoned(e)
    <2>1. pool' # pool => form[f].tx.form = f
        BY <1>1 DEF FormsOK
    <2>2. \A e \in Form : e # f => Effective(e)' = Effective(e)
        BY <2>1, <1>9 DEF Effective, InTime
    <2> QED BY <2>2, <1>2 DEF Abandoned
<1>11. WaitOutlastsTx'
    BY <1>2, <1>4 DEF IInv, WaitOutlastsTx
<1>12. ReportsAreTrue'
    <2>1. \A e \in Form :
            /\ form'[e].pc = "success" => form'[e].tx.id \in Applied(e)
            /\ form'[e].pc = "failed" =>
                form'[e].tx.id \in DOMAIN outcome \ Applied(e)
        BY <1>2, <1>4 DEF IInv, ReportsAreTrue
    <2>2. \A t \in pool' : t.form \in Form /\ t.id \in 1..attempts
        BY <1>6 DEF Tx
    <2>3. TypeOK'
        BY <1>2, <2>2 DEF IInv, ReportsAreTrue, TypeOK, Pcs
    <2> QED BY <2>1, <2>3, <1>9 DEF ReportsAreTrue
<1>13. AbandonedByFaults'
    <2>1. \A e \in Form : Cardinality(Abandoned(e)) <= faults /\ faults \in Nat
        BY DEF IInv, AbandonedByFaults, NetworkOK
    <2>2. Cardinality(Abandoned(f)') <= faults'
        <3>1. IsFiniteSet(Abandoned(f))
            BY <1>1, EffectiveFinite
        <3>2. CASE faults' = faults /\ Abandoned(f)' \subseteq Abandoned(f)
            BY <2>1, <3>1, <3>2, CardinalityOfSubset
        <3>3. CASE faults' = faults + 1
            <4>1. Effective(f)' \subseteq Effective(f) \cup {form[f].tx.id}
                BY <1>9 DEF Effective, InTime
            <4>2. Effective(f) \subseteq Abandoned(f) \cup {form[f].tx.id}
                BY DEF Abandoned
            <4>3. Abandoned(f)' \subseteq Effective(f)'
                BY DEF Abandoned
            <4>4. Abandoned(f)' \subseteq Abandoned(f) \cup {form[f].tx.id}
                BY <4>1, <4>2, <4>3
            <4>5. /\ Cardinality(Abandoned(f)') <= Cardinality(Abandoned(f)) + 1
                  /\ Cardinality(Abandoned(f)') \in Nat
                  /\ Cardinality(Abandoned(f)) \in Nat
                BY <3>1, <4>4, CardinalityGrowsByOne
            <4> QED BY <2>1, <3>3, <4>5
        <3> QED BY <3>2, <3>3
    <2>3. \A e \in Form : e # f => Cardinality(Abandoned(e)') <= faults'
        <3>1. \A e \in Form : Cardinality(Abandoned(e)) \in Nat
            BY <1>1, EffectiveFinite, FS_CardinalityType
        <3> QED BY <2>1, <3>1, <1>10
    <2>4. \A e \in Form : e \notin Repeatable => Cardinality(Applied(e)') <= 1
        BY <1>9 DEF IInv, AbandonedByFaults
    <2> QED BY <2>2, <2>3, <2>4 DEF AbandonedByFaults
<1> QED BY <1>5, <1>7, <1>8, <1>11, <1>12, <1>13 DEF IInv

\* What Becomes makes of a form.
LEMMA BecomesForm ==
    ASSUME IInv, NEW f \in Form, NEW pc, Becomes(f, pc)
    PROVE  SetForm(f, pc, form[f].tx, IF pc = "poll" THEN form[f].deadline ELSE 0, 0)
<1> DEFINE deadline == IF pc = "poll" THEN form[f].deadline ELSE 0
           g == [pc |-> pc, tx |-> form[f].tx, deadline |-> deadline, readAt |-> 0]
<1>1. form \in [Form -> [pc : Pcs, tx : Tx \cup {NoTx}, deadline : Nat,
                         readAt : Nat]]
    BY DEF IInv, FormsOK, Pcs
<1>2. DOMAIN form' = Form /\ \A e \in Form : e # f => form'[e] = form[e]
    BY <1>1 DEF Becomes
<1>3. form'[f] = g
    BY <1>1 DEF Becomes
<1>4. form' = [e \in Form |-> form'[e]]
    BY <1>1 DEF Becomes
<1> QED BY <1>1, <1>2, <1>3, <1>4 DEF SetForm

\* What the invariant says of a form's transaction.
LEMMA FormFacts ==
    ASSUME IInv, NEW f \in Form
    PROVE  /\ form[f].pc \in Pcs /\ form[f].deadline \in Nat /\ form[f].readAt \in Nat
           /\ form[f].tx # NoTx =>
                /\ form[f].tx \in Tx /\ form[f].tx.form = f
                /\ form[f].tx.maxTime <= now + TxTimeout
                /\ form[f].tx.maxTime \in Nat
           /\ form[f].pc \notin {"ready", "getAccount", "error"} => form[f].tx # NoTx
           /\ now \in Nat /\ TxTimeout \in Nat /\ WaitTimeout \in Nat
           /\ MaxPollDelay \in Nat
BY ConstantsAssumption DEF IInv, FormsOK, NetworkOK, Pcs, Tx

\* A form's transaction counts as effective only if it was applied or still may be.
LEMMA EffectiveTx ==
    ASSUME IInv, NEW f \in Form, form[f].tx # NoTx, form[f].tx.id \in Effective(f)
    PROVE  \/ form[f].tx.id \in Applied(f)
           \/ form[f].tx \in pool /\ InTime(form[f].tx)
<1>1. CASE \E t \in pool : t.id = form[f].tx.id /\ InTime(t)
    <2>1. PICK t \in pool : t.id = form[f].tx.id /\ InTime(t)
        BY <1>1
    <2>2. t # NoTx
        <3>1. t \in Tx
            BY DEF IInv, NetworkOK
        <3>2. t.id >= 1
            BY <3>1 DEF Tx, IInv, NetworkOK
        <3> QED BY <3>2 DEF NoTx
    <2>3. t \in Known /\ form[f].tx \in Known
        BY <2>2 DEF Known
    <2>4. t = form[f].tx
        BY <2>1, <2>3 DEF IInv, TransactionsOnce
    <2> QED BY <2>1, <2>4
<1> QED BY <1>1 DEF Effective

\* Letting go of a transaction that is not effective abandons nothing.
LEMMA NothingAbandoned ==
    ASSUME IInv, NEW f \in Form, UNCHANGED <<now, pool, outcome>>,
           \/ form'[f].pc \in Holding /\ form'[f].tx = form[f].tx
           \/ form[f].pc \notin Holding
           \/ form[f].tx.id \notin Effective(f)
    PROVE  Abandoned(f)' \subseteq Abandoned(f)
<1>1. Effective(f)' = Effective(f)
    BY DEF Effective, Applied, InTime
<1> QED BY <1>1 DEF Abandoned, Holding

\* Submitting a form that holds no transaction that may still be applied.
LEMMA HandleSubmitKeeps ==
    ASSUME IInv, NEW f \in Form, handleSubmit(f)
    PROVE  IInv'
<1>1. /\ form[f].pc \in {"ready", "failed", "timeout", "error"}
      /\ UNCHANGED <<now, sequence, pool, outcome, attempts, faults>>
    BY DEF handleSubmit, network
<1>2. SetForm(f, "getAccount", NoTx, 0, 0)
    <2>1. [NewForm EXCEPT !.pc = "getAccount"] =
            [pc |-> "getAccount", tx |-> NoTx, deadline |-> 0, readAt |-> 0]
        BY DEF NewForm
    <2> QED BY <2>1 DEF handleSubmit, SetForm
<1>3. Consistent(f, "getAccount", NoTx, 0, 0)
    BY DEF Consistent
<1>4. Abandoned(f)' \subseteq Abandoned(f)
    BY <1>1, NothingAbandoned DEF Holding
<1>5. PoolStep(f, "getAccount") /\ FaultStep(f)
    BY <1>1, <1>4 DEF PoolStep, FaultStep
<1>6. "getAccount" \in Pcs /\ 0 \in Nat
    BY DEF Pcs
<1> QED BY <1>1, <1>2, <1>3, <1>5, <1>6, FormStepKeeps

\* The simulation and the signature: a refusal ends the attempt before it is sent.
LEMMA BeforeSendingKeeps ==
    ASSUME IInv, NEW f \in Form, prepareTransaction(f) \/ signTransaction(f)
    PROVE  IInv'
<1>1. PICK pc \in {"sign", "send", "error"} : Becomes(f, pc)
    BY DEF prepareTransaction, signTransaction
<1>2. /\ form[f].pc \in {"prepare", "sign"}
      /\ UNCHANGED <<now, sequence, pool, outcome, attempts, faults>>
    BY DEF prepareTransaction, signTransaction, network
<1>3. SetForm(f, pc, form[f].tx, 0, 0)
    BY <1>1, BecomesForm
<1>4. /\ form[f].tx # NoTx /\ form[f].tx \notin pool
      /\ form[f].tx.id \notin DOMAIN outcome
    BY <1>2, FormFacts DEF IInv, TransactionsOnce
<1>5. Consistent(f, pc, form[f].tx, 0, 0)
    BY <1>4 DEF Consistent
<1>6. form[f].tx.id \notin Effective(f)
    BY <1>4, EffectiveTx DEF Applied
<1>7. Abandoned(f)' \subseteq Abandoned(f)
    BY <1>2, <1>6, NothingAbandoned
<1>8. PoolStep(f, pc) /\ FaultStep(f)
    BY <1>2, <1>7 DEF PoolStep, FaultStep
<1>9. pc \in Pcs /\ 0 \in Nat
    BY DEF Pcs, Ended
<1> QED BY <1>2, <1>3, <1>5, <1>8, <1>9, FormStepKeeps

\* Sending starts a wait that outlasts the transaction's validity.
LEMMA SendTransactionKeeps ==
    ASSUME IInv, NEW f \in Form, sendTransaction(f)
    PROVE  IInv'
<1> DEFINE tx == form[f].tx
<1>1. /\ form[f].pc = "send"
      /\ UNCHANGED <<now, sequence, outcome, attempts, faults>>
    BY DEF sendTransaction
<1>2. /\ tx # NoTx /\ tx \in Tx /\ tx.form = f /\ tx.maxTime \in Nat
      /\ tx.maxTime <= now + TxTimeout
      /\ tx.id \notin DOMAIN outcome /\ tx \notin pool
    BY <1>1, FormFacts DEF IInv, TransactionsOnce
<1>3. "poll" \in Pcs /\ "error" \in Pcs /\ 0 \in Nat
    BY DEF Pcs, Ended
<1>4. CASE StartWaiting(f) /\ pool' \in {pool, pool \cup {tx}}
    <2> DEFINE g == [pc |-> "poll", tx |-> tx, deadline |-> now + WaitTimeout,
                     readAt |-> form[f].readAt]
    <2>1. /\ form'[f] = g /\ form' = [e \in Form |-> form'[e]]
          /\ \A e \in Form : e # f => form'[e] = form[e]
          /\ form = [e \in Form |-> form[e]]
        <3>1. form \in [Form -> [pc : Pcs, tx : Tx \cup {NoTx}, deadline : Nat,
                                 readAt : Nat]]
            BY DEF IInv, FormsOK, Pcs
        <3>2. form'[f] = g
            BY <1>4, <3>1 DEF StartWaiting, Deadline
        <3>3. /\ form' = [e \in Form |-> form'[e]]
              /\ \A e \in Form : e # f => form'[e] = form[e]
            BY <1>4, <3>1 DEF StartWaiting, Deadline
        <3> QED BY <3>1, <3>2, <3>3
    <2>2. SetForm(f, "poll", tx, now + WaitTimeout, form[f].readAt)
        <3> HIDE DEF g
        <3>1. form' = [form EXCEPT ![f] = g]
            BY <2>1
        <3> QED BY <3>1 DEF g, SetForm
    <2>3. /\ tx.maxTime + MaxPollDelay < now + WaitTimeout
          /\ now + WaitTimeout \in Nat /\ form[f].readAt \in Nat
        BY <1>2, FormFacts, WaitAssumption
    <2>4. Consistent(f, "poll", tx, now + WaitTimeout, form[f].readAt)
        BY <1>2, <2>3 DEF Consistent
    <2>5. Abandoned(f)' \subseteq Abandoned(f)
        <3>1. form[f].pc \in Holding /\ form'[f].pc = "poll" /\ form'[f].tx = tx
            BY <1>1, <2>1 DEF Holding
        <3>2. Effective(f)' \subseteq Effective(f) \cup {tx.id}
            BY <1>1, <1>4 DEF Effective, Applied, InTime
        <3> QED BY <3>1, <3>2 DEF Abandoned, Holding
    <2>6. PoolStep(f, "poll") /\ FaultStep(f)
        BY <1>1, <1>4, <2>5 DEF PoolStep, FaultStep
    <2> QED BY <1>1, <1>3, <2>2, <2>3, <2>4, <2>6, FormStepKeeps
<1>5. CASE pool' = pool /\ Becomes(f, "error")
    <2>1. SetForm(f, "error", tx, 0, 0)
        BY <1>5, BecomesForm
    <2>2. tx.id \notin Effective(f)
        BY <1>2, EffectiveTx DEF Applied
    <2>3. Abandoned(f)' \subseteq Abandoned(f)
        BY <1>1, <1>5, <2>2, NothingAbandoned
    <2>4. PoolStep(f, "error") /\ FaultStep(f)
        BY <1>1, <1>5, <2>3 DEF PoolStep, FaultStep
    <2>5. Consistent(f, "error", tx, 0, 0)
        BY DEF Consistent
    <2> QED BY <1>1, <1>3, <2>1, <2>4, <2>5, FormStepKeeps
<1> QED BY <1>4, <1>5 DEF sendTransaction

\* A call that fails lets go of one transaction at most, and is a fault.
LEMMA CallFailsKeeps ==
    ASSUME IInv, NEW f \in Form, CallFails(f)
    PROVE  IInv'
<1>1. /\ faults' = faults + 1
      /\ UNCHANGED <<now, sequence, outcome, attempts>>
      /\ \/ pool' = pool
         \/ pool' = pool \cup {form[f].tx} /\ form[f].pc = "send"
      /\ Becomes(f, "error")
    BY DEF CallFails, Fault
<1>2. SetForm(f, "error", form[f].tx, 0, 0)
    BY <1>1, BecomesForm
<1>3. Consistent(f, "error", form[f].tx, 0, 0)
    BY DEF Consistent
<1>4. PoolStep(f, "error") /\ FaultStep(f)
    BY <1>1 DEF PoolStep, FaultStep
<1>5. "error" \in Pcs /\ 0 \in Nat
    BY DEF Pcs, Ended
<1> QED BY <1>1, <1>2, <1>3, <1>4, <1>5, FormStepKeeps

\* The node's answer shows what the transaction did.
LEMMA GetTransactionKeeps ==
    ASSUME IInv, NEW f \in Form, getTransaction(f)
    PROVE  IInv'
<1> DEFINE tx == form[f].tx
           pc == StatusShown(tx)
           g == [pc |-> pc, tx |-> tx, deadline |-> form[f].deadline, readAt |-> now]
<1>1. /\ form[f].pc = "poll"
      /\ UNCHANGED <<now, sequence, pool, outcome, attempts, faults>>
    BY DEF getTransaction, network
<1>2. /\ tx # NoTx /\ tx \in Tx /\ tx.form = f
      /\ now \in Nat /\ MaxPollDelay \in Nat
    BY <1>1, FormFacts
<1>3. /\ form'[f] = g /\ form' = [e \in Form |-> form'[e]]
      /\ \A e \in Form : e # f => form'[e] = form[e]
      /\ form = [e \in Form |-> form[e]]
    <2>1. form \in [Form -> [pc : Pcs, tx : Tx \cup {NoTx}, deadline : Nat,
                             readAt : Nat]]
        BY DEF IInv, FormsOK, Pcs
    <2> HIDE DEF pc
    <2>2. form'[f] = g
        BY <2>1 DEF getTransaction, pc
    <2>3. /\ form' = [e \in Form |-> form'[e]]
          /\ \A e \in Form : e # f => form'[e] = form[e]
        BY <2>1 DEF getTransaction
    <2> QED BY <2>1, <2>2, <2>3
<1>4. SetForm(f, pc, tx, form[f].deadline, now)
    <2> HIDE DEF g
    <2>1. form' = [form EXCEPT ![f] = g]
        BY <1>3
    <2> QED BY <2>1 DEF g, SetForm
<1>5. /\ pc \in {"pause", "success", "failed"}
      /\ pc = "pause" => tx.id \notin DOMAIN outcome
      /\ pc # "pause" => tx.id \in DOMAIN outcome
      /\ pc = "success" => outcome[tx.id].status = "SUCCESS"
      /\ pc = "failed" => outcome[tx.id].status # "SUCCESS"
    BY DEF StatusShown
<1> HIDE DEF pc
<1>6. tx \in Known
    BY <1>2 DEF Known
<1>7. tx.id \in DOMAIN outcome => outcome[tx.id].form = f /\ tx \notin pool
    BY <1>2, <1>6 DEF IInv, TransactionsOnce
<1>8. /\ pc = "success" => tx.id \in Applied(f)
      /\ pc = "failed" => tx.id \in DOMAIN outcome \ Applied(f)
    BY <1>5, <1>7 DEF Applied
<1>9. pc = "failed" => tx.id \notin Effective(f)
    BY <1>2, <1>5, <1>7, <1>8, EffectiveTx
<1>10. Abandoned(f)' \subseteq Abandoned(f)
    BY <1>1, <1>3, <1>5, <1>9, NothingAbandoned DEF Holding
<1>11. tx.maxTime + MaxPollDelay < form[f].deadline
    BY <1>1 DEF IInv, WaitOutlastsTx
<1>12. Consistent(f, pc, tx, form[f].deadline, now)
    BY <1>2, <1>5, <1>8, <1>11 DEF Consistent
<1>13. PoolStep(f, pc) /\ FaultStep(f)
    BY <1>1, <1>10 DEF PoolStep, FaultStep
<1>14. pc \in Pcs /\ form[f].deadline \in Nat
    BY <1>5, FormFacts DEF Pcs, Ended
<1> QED BY <1>1, <1>2, <1>4, <1>12, <1>13, <1>14, FormStepKeeps

\* Going on waiting, or reporting a timeout: by then the transaction's time is over
\* and the node's last answer is from after it.
LEMMA ContinueKeeps ==
    ASSUME IInv, NEW f \in Form, Continue(f)
    PROVE  IInv'
<1> DEFINE tx == form[f].tx
           pc == IF now < form[f].deadline THEN "poll" ELSE "timeout"
           deadline == IF pc = "poll" THEN form[f].deadline ELSE 0
<1>1. /\ form[f].pc = "pause"
      /\ UNCHANGED <<now, sequence, pool, outcome, attempts, faults>>
      /\ Becomes(f, pc)
    BY DEF Continue, network
<1>2. /\ tx # NoTx /\ tx.maxTime \in Nat
      /\ now \in Nat /\ MaxPollDelay \in Nat
      /\ form[f].deadline \in Nat /\ form[f].readAt \in Nat
    BY <1>1, FormFacts
<1>3. /\ tx.maxTime + MaxPollDelay < form[f].deadline
      /\ now <= form[f].readAt + MaxPollDelay
      /\ tx.id \in DOMAIN outcome => form[f].readAt <= tx.maxTime
    BY <1>1 DEF IInv, WaitOutlastsTx
<1>4. pc = "timeout" => now > tx.maxTime /\ tx.id \notin DOMAIN outcome
    BY <1>2, <1>3
<1>5. SetForm(f, pc, tx, deadline, 0)
    BY <1>1, BecomesForm
<1>6. pc \in {"poll", "timeout"}
    OBVIOUS
<1>7. deadline \in Nat /\ (pc = "poll" => deadline = form[f].deadline)
    BY <1>2
<1> HIDE DEF pc, deadline
<1>8. pc = "timeout" => tx.id \notin Effective(f)
    BY <1>2, <1>4, EffectiveTx DEF InTime, Applied
<1>9. Abandoned(f)' \subseteq Abandoned(f)
    <2>1. form'[f].pc = pc /\ form'[f].tx = tx
        BY <1>5 DEF IInv, FormsOK, SetForm
    <2> QED BY <2>1, <1>1, <1>6, <1>8, NothingAbandoned DEF Holding
<1>10. Consistent(f, pc, tx, deadline, 0)
    BY <1>2, <1>3, <1>4, <1>6, <1>7 DEF Consistent
<1>11. PoolStep(f, pc) /\ FaultStep(f)
    BY <1>1, <1>9 DEF PoolStep, FaultStep
<1>12. pc \in Pcs /\ 0 \in Nat
    BY <1>6 DEF Pcs, Ended
<1> QED BY <1>1, <1>5, <1>7, <1>10, <1>11, <1>12, FormStepKeeps

\* Building a transaction: its number is new to the network and to the forms.
LEMMA GetAccountKeeps ==
    ASSUME IInv, NEW f \in Form, getAccount(f)
    PROVE  IInv'
<1> DEFINE new == [id |-> attempts + 1, form |-> f, sequence |-> sequence + 1,
                   maxTime |-> now + TxTimeout]
<1>1. /\ FormsOK /\ NetworkOK /\ TransactionsOnce
      /\ TxTimeout \in Nat
      /\ form[f].pc = "getAccount" /\ attempts' = attempts + 1
      /\ UNCHANGED <<now, sequence, pool, outcome, faults>>
    BY ConstantsAssumption DEF IInv, getAccount, network
<1>2. /\ new \in Tx' /\ new.id = attempts + 1 /\ new.form = f
      /\ new.maxTime = now + TxTimeout /\ new # NoTx
    <2>1. new.id \in 1..attempts' /\ new.sequence \in Nat /\ new.maxTime \in Nat
        BY <1>1 DEF NetworkOK
    <2>2. new.id # 0
        BY <1>1 DEF NetworkOK
    <2> QED BY <2>1, <2>2 DEF Tx, NoTx
<1>3. Tx \subseteq Tx'
    BY <1>1 DEF Tx, NetworkOK
<1>4. form \in [Form -> [pc : Pcs, tx : Tx \cup {NoTx}, deadline : Nat,
                         readAt : Nat]]
    BY <1>1 DEF FormsOK, Pcs
<1> HIDE DEF new
<1>5. /\ form' = [form EXCEPT ![f].pc = "prepare", ![f].tx = new]
      /\ form'[f].pc = "prepare" /\ form'[f].tx = new
      /\ form'[f] \in [pc : Pcs, tx : Tx' \cup {NoTx}, deadline : Nat, readAt : Nat]
    <2>1. form' = [form EXCEPT ![f].pc = "prepare", ![f].tx = new]
        BY DEF getAccount, new
    <2> QED BY <2>1, <1>2, <1>4 DEF Pcs
<1>6. /\ DOMAIN form' = Form /\ form' = [e \in Form |-> form'[e]]
      /\ \A e \in Form : e # f => form'[e] = form[e]
    BY <1>4, <1>5
<1>7. FormsOK'
    <2>1. \A e \in Form : form'[e] \in [pc : Pcs, tx : Tx' \cup {NoTx}, deadline : Nat,
                                        readAt : Nat]
        BY <1>3, <1>4, <1>5, <1>6
    <2>2. form' \in [Form -> [pc : Pcs, tx : Tx' \cup {NoTx}, deadline : Nat,
                              readAt : Nat]]
        BY <2>1, <1>6
    <2>3. \A e \in Form : form'[e].tx # NoTx =>
                form'[e].tx.form = e /\ form'[e].tx.maxTime <= now + TxTimeout
        <3>1. new.maxTime <= now + TxTimeout
            BY <1>1, <1>2 DEF NetworkOK
        <3> QED BY <3>1, <1>1, <1>2, <1>5, <1>6 DEF FormsOK
    <2>4. \A e \in Form : form'[e].pc \notin {"ready", "getAccount", "error"} =>
                form'[e].tx # NoTx
        BY <1>1, <1>2, <1>5, <1>6 DEF FormsOK
    <2> QED BY <2>2, <2>3, <2>4, <1>1 DEF FormsOK, Pcs
<1>8. NetworkOK'
    BY <1>1, <1>3 DEF NetworkOK
<1>9. TransactionsOnce'
    <2>1. Known' \subseteq Known \cup {new}
        BY <1>1, <1>5, <1>6 DEF Known
    <2>2. \A t \in Known : t.id # new.id
        <3>1. Known \subseteq Tx
            BY <1>1, <1>4 DEF Known, NetworkOK
        <3>2. \A t \in Known : t.id \in 1..attempts
            BY <3>1 DEF Tx
        <3> QED BY <3>2, <1>1, <1>2 DEF NetworkOK
    <2>3. new.id \notin DOMAIN outcome
        BY <1>1, <1>2 DEF NetworkOK
    <2>4. new \notin pool
        BY <2>2, <1>2 DEF Known
    <2>5. \A e \in Form : form'[e].pc \in {"prepare", "sign", "send"} =>
            form'[e].tx \notin pool /\ form'[e].tx.id \notin DOMAIN outcome
        BY <2>3, <2>4, <1>1, <1>5, <1>6 DEF TransactionsOnce
    <2>6. \A t, u \in Known' : t.id = u.id => t = u
        BY <2>1, <2>2, <1>1 DEF TransactionsOnce
    <2>7. \A t \in Known' : t.id \in DOMAIN outcome => outcome[t.id].form = t.form
        BY <2>1, <2>3, <1>1 DEF TransactionsOnce
    <2> QED BY <2>5, <2>6, <2>7, <1>1 DEF TransactionsOnce
<1>10. WaitOutlastsTx'
    BY <1>1, <1>5, <1>6 DEF IInv, WaitOutlastsTx
<1>11. \A e \in Form : Applied(e)' = Applied(e) /\ Effective(e)' = Effective(e)
    BY <1>1 DEF Applied, Effective, InTime
<1>12. ReportsAreTrue'
    <2>1. \A t \in pool : t.form \in Form /\ t.id \in 1..attempts'
        BY <1>1, <1>8 DEF NetworkOK, Tx
    <2>2. TypeOK'
        BY <2>1, <1>1, <1>5, <1>6 DEF IInv, ReportsAreTrue, TypeOK
    <2> QED BY <2>2, <1>1, <1>5, <1>6, <1>11 DEF IInv, ReportsAreTrue
<1>13. AbandonedByFaults'
    <2>1. Abandoned(f)' \subseteq Abandoned(f)
        BY <1>1, <1>5, <1>11 DEF Abandoned
    <2>2. \A e \in Form : e # f => Abandoned(e)' = Abandoned(e)
        BY <1>6, <1>11 DEF Abandoned
    <2>3. \A e \in Form : Cardinality(Abandoned(e)') <= faults
        <3> TAKE e \in Form
        <3>1. Abandoned(e)' \subseteq Abandoned(e)
            BY <2>1, <2>2
        <3>2. /\ Cardinality(Abandoned(e)') <= Cardinality(Abandoned(e))
              /\ Cardinality(Abandoned(e)') \in Nat
              /\ Cardinality(Abandoned(e)) \in Nat
            BY <3>1, <1>1, EffectiveFinite, CardinalityOfSubset
        <3>3. Cardinality(Abandoned(e)) <= faults /\ faults \in Nat
            BY <1>1 DEF IInv, AbandonedByFaults, NetworkOK
        <3> QED BY <3>2, <3>3
    <2> QED BY <2>3, <1>1, <1>11 DEF IInv, AbandonedByFaults
<1> QED BY <1>7, <1>8, <1>9, <1>10, <1>12, <1>13 DEF IInv

-----------------------------------------------------------------------------
(* Steps of the network *)

\* A step of the network or of time, which loses interest in no transaction.
LEMMA NothingLost ==
    ASSUME IInv, UNCHANGED <<form, faults>>,
           \A f \in Form : Effective(f)' \subseteq Effective(f)
    PROVE  \A f \in Form : Cardinality(Abandoned(f)') <= faults'
<1> TAKE f \in Form
<1>1. Abandoned(f)' \subseteq Abandoned(f)
    BY DEF Abandoned
<1>2. /\ Cardinality(Abandoned(f)') <= Cardinality(Abandoned(f))
      /\ Cardinality(Abandoned(f)') \in Nat /\ Cardinality(Abandoned(f)) \in Nat
    BY <1>1, EffectiveFinite, CardinalityOfSubset DEF IInv
<1>3. Cardinality(Abandoned(f)) <= faults /\ faults \in Nat
    BY DEF IInv, AbandonedByFaults, NetworkOK
<1> QED BY <1>2, <1>3

\* Applying a transaction: only its own form sees a difference, and what that form
\* waits for was still in time.
LEMMA ApplyKeeps ==
    ASSUME IInv, NEW tx \in pool, Apply(tx)
    PROVE  IInv'
<1>1. /\ FormsOK /\ NetworkOK /\ TransactionsOnce
      /\ now <= tx.maxTime /\ sequence' = sequence + 1 /\ sequence' = tx.sequence
      /\ pool' = pool \ {tx}
      /\ UNCHANGED <<now, form, attempts, faults>>
    BY DEF IInv, Apply, InTime, NextInLine
<1>2. PICK status \in {Result(tx.form), "FAILED"} :
        outcome' = [id \in DOMAIN outcome \cup {tx.id} |->
                        IF id = tx.id THEN [form |-> tx.form, status |-> status]
                        ELSE outcome[id]]
    BY DEF Apply
<1>3. /\ tx \in Tx /\ tx.id \in 1..attempts /\ tx.form \in Form /\ tx.maxTime \in Nat
      /\ tx # NoTx /\ tx \in Known /\ tx.id \notin DOMAIN outcome
    <2>1. tx \in Tx /\ tx.id \in 1..attempts /\ tx.form \in Form /\ tx.maxTime \in Nat
        BY <1>1 DEF NetworkOK, Tx
    <2>2. tx # NoTx
        BY <2>1, <1>1 DEF NoTx, NetworkOK
    <2> QED BY <2>1, <2>2, <1>1 DEF Known, TransactionsOnce
<1>4. status \in {"SUCCESS", "FAILED"}
    BY DEF Result
<1>5. /\ DOMAIN outcome' = DOMAIN outcome \cup {tx.id}
      /\ outcome'[tx.id].form = tx.form /\ outcome'[tx.id].status = status
      /\ outcome'[tx.id] \in [form : Form, status : {"SUCCESS", "FAILED"}]
      /\ \A id \in DOMAIN outcome : outcome'[id] = outcome[id]
    BY <1>2, <1>3, <1>4
<1>6. Tx' = Tx
    BY <1>1 DEF Tx
<1>7. \A t \in Known : t.id = tx.id => t = tx
    BY <1>1, <1>3 DEF TransactionsOnce
<1>8. \A f \in Form : form[f].tx # NoTx /\ form[f].tx.id = tx.id => form[f].tx = tx
    BY <1>7 DEF Known
<1>9. FormsOK' /\ NetworkOK'
    <2>1. FormsOK'
        BY <1>1, <1>6 DEF FormsOK
    <2>2. \A id \in DOMAIN outcome' :
            outcome'[id] \in [form : Form, status : {"SUCCESS", "FAILED"}]
        BY <1>1, <1>5 DEF NetworkOK
    <2>3. DOMAIN outcome' \subseteq 1..attempts
        BY <1>1, <1>3, <1>5 DEF NetworkOK
    <2> QED BY <2>1, <2>2, <2>3, <1>1, <1>6 DEF NetworkOK
<1>10. TransactionsOnce'
    <2>1. Known' \subseteq Known
        BY <1>1 DEF Known
    <2>2. \A t, u \in Known' : t.id = u.id => t = u
        BY <2>1, <1>1 DEF TransactionsOnce
    <2>3. \A t \in pool' : t \in Known /\ t # tx
        <3>1. \A t \in pool : t # NoTx
            BY <1>1 DEF NetworkOK, Tx, NoTx
        <3> QED BY <3>1, <1>1 DEF Known
    <2>4. \A t \in pool' : t.id \notin DOMAIN outcome'
        BY <2>3, <1>1, <1>5, <1>7 DEF TransactionsOnce
    <2>5. \A t \in Known' : t.id \in DOMAIN outcome' => outcome'[t.id].form = t.form
        BY <2>1, <1>1, <1>5, <1>7 DEF TransactionsOnce
    <2>6. \A f \in Form : form[f].pc \in {"prepare", "sign", "send"} =>
            form[f].tx \notin pool' /\ form[f].tx.id \notin DOMAIN outcome'
        <3> SUFFICES ASSUME NEW f \in Form, form[f].pc \in {"prepare", "sign", "send"}
                     PROVE  form[f].tx \notin pool'
                            /\ form[f].tx.id \notin DOMAIN outcome'
            OBVIOUS
        <3>1. form[f].tx \notin pool /\ form[f].tx.id \notin DOMAIN outcome
            BY <1>1 DEF TransactionsOnce
        <3>2. form[f].tx # NoTx
            BY <1>1 DEF FormsOK
        <3> QED BY <3>1, <3>2, <1>1, <1>5, <1>8
    <2> QED BY <2>2, <2>4, <2>5, <2>6, <1>1 DEF TransactionsOnce
<1>11. WaitOutlastsTx'
    <2> SUFFICES ASSUME NEW f \in Form
                 PROVE  /\ form[f].pc = "pause" =>
                            (form[f].tx.id \in DOMAIN outcome' =>
                                form[f].readAt <= form[f].tx.maxTime)
                        /\ form[f].pc = "timeout" =>
                            form[f].tx.id \notin DOMAIN outcome'
        BY <1>1 DEF IInv, WaitOutlastsTx
    <2>1. CASE form[f].tx.id # tx.id
        BY <2>1, <1>5 DEF IInv, WaitOutlastsTx
    <2>2. CASE form[f].tx.id = tx.id /\ form[f].pc \in {"pause", "timeout"}
        <3>1. form[f].tx = tx
            BY <2>2, <1>1, <1>8 DEF FormsOK
        <3>2. form[f].readAt \in Nat /\ now \in Nat
            BY FormFacts
        <3>3. form[f].pc # "timeout"
            BY <3>1, <3>2, <1>1, <1>3 DEF IInv, WaitOutlastsTx
        <3>4. form[f].readAt <= now
            BY <2>2, <3>3 DEF IInv, WaitOutlastsTx
        <3> QED BY <3>1, <3>2, <3>3, <3>4, <1>1, <1>3
    <2> QED BY <2>1, <2>2
<1>12. \A f \in Form : /\ Applied(f) \subseteq Applied(f)'
                       /\ Applied(f)' \subseteq Applied(f) \cup {tx.id}
                       /\ f # tx.form => Applied(f)' = Applied(f)
                       /\ status # "SUCCESS" => Applied(f)' = Applied(f)
    BY <1>3, <1>5 DEF Applied
<1>13. ReportsAreTrue'
    <2>1. IsFiniteSet(DOMAIN outcome)
        <3>1. attempts \in Int /\ DOMAIN outcome \subseteq 1..attempts
            BY <1>1 DEF NetworkOK
        <3>2. IsFiniteSet(1..attempts)
            BY <3>1, FS_Interval
        <3> QED BY <3>1, <3>2, FS_Subset
    <2>2. Cardinality(DOMAIN outcome') = Cardinality(DOMAIN outcome) + 1
        BY <2>1, <1>3, <1>5, FS_AddElement
    <2>3. TypeOK'
        BY <2>2, <1>1 DEF IInv, ReportsAreTrue, TypeOK
    <2>4. \A f \in Form : form[f].pc = "failed" =>
            form[f].tx.id \in DOMAIN outcome' \ Applied(f)'
        BY <1>3, <1>5, <1>12 DEF IInv, ReportsAreTrue
    <2>5. \A f \in Form : form[f].pc = "success" => form[f].tx.id \in Applied(f)'
        BY <1>12 DEF IInv, ReportsAreTrue
    <2> QED BY <2>3, <2>4, <2>5, <1>1 DEF ReportsAreTrue
<1>14. AbandonedByFaults'
    <2>1. \A f \in Form : Effective(f)' \subseteq Effective(f)
        <3>1. tx.id \in Effective(tx.form)
            BY <1>1 DEF Effective, InTime
        <3>2. \A f \in Form : Effective(f)' \subseteq Effective(f) \cup Applied(f)'
            BY <1>1 DEF Effective, InTime
        <3>3. \A f \in Form : Applied(f)' \subseteq Effective(f)
            BY <3>1, <1>12 DEF Effective
        <3> QED BY <3>2, <3>3
    <2>2. \A f \in Form : Cardinality(Abandoned(f)') <= faults'
        BY <2>1, <1>1, NothingLost
    <2>3. \A f \in Form : f \notin Repeatable => Cardinality(Applied(f)') <= 1
        <3> SUFFICES ASSUME NEW f \in Form, f \notin Repeatable
                     PROVE  Cardinality(Applied(f)') <= 1
            OBVIOUS
        <3>1. CASE f = tx.form /\ status = "SUCCESS"
            <4>1. Applied(f) = {}
                BY <3>1 DEF Result
            <4>2. Applied(f)' \subseteq Applied(f) \cup {tx.id}
                BY <1>12
            <4>3. IsFiniteSet(Applied(f)) /\ Cardinality(Applied(f)) = 0
                BY <4>1, FS_EmptySet
            <4>4. Cardinality(Applied(f)') <= Cardinality(Applied(f)) + 1
                BY <4>2, <4>3, CardinalityGrowsByOne
            <4> QED BY <4>3, <4>4
        <3>2. CASE ~(f = tx.form /\ status = "SUCCESS")
            BY <3>2, <1>12 DEF IInv, AbandonedByFaults
        <3> QED BY <3>1, <3>2
    <2> QED BY <2>2, <2>3, <1>1 DEF AbandonedByFaults
<1> QED BY <1>9, <1>10, <1>11, <1>13, <1>14 DEF IInv

\* The passing of time: an answer is looked at in time, and nothing comes back into
\* its time bounds.
LEMMA TickKeeps ==
    ASSUME IInv, Tick
    PROVE  IInv'
<1>1. /\ FormsOK /\ NetworkOK /\ TransactionsOnce /\ now \in Nat
      /\ MaxTime \in Nat /\ MaxPollDelay \in Nat /\ TxTimeout \in Nat
      /\ now < MaxTime /\ now' = now + 1
      /\ UNCHANGED <<sequence, pool, outcome, form, attempts, faults>>
    BY ConstantsAssumption DEF IInv, Tick, network, NetworkOK
<1>2. Tx' = Tx
    BY <1>1 DEF Tx
<1>3. FormsOK'
    <2>1. \A f \in Form : form[f].tx # NoTx =>
            form[f].tx.form = f /\ form[f].tx.maxTime <= now' + TxTimeout
        <3> TAKE f \in Form
        <3> QED BY <1>1, FormFacts
    <2> QED BY <2>1, <1>1, <1>2 DEF FormsOK
<1>4. NetworkOK' /\ TransactionsOnce'
    BY <1>1, <1>2 DEF NetworkOK, TransactionsOnce, Known
<1>5. WaitOutlastsTx'
    <2> SUFFICES ASSUME NEW f \in Form
                 PROVE  /\ form[f].pc = "pause" =>
                            /\ form[f].readAt <= now'
                            /\ now' <= form[f].readAt + MaxPollDelay
                        /\ form[f].pc = "timeout" => now' > form[f].tx.maxTime
        BY <1>1 DEF IInv, WaitOutlastsTx
    <2>1. form[f].readAt \in Nat
        BY FormFacts
    <2>2. form[f].pc = "timeout" => form[f].tx.maxTime \in Nat
        BY FormFacts
    <2>3. form[f].pc = "pause" => now - form[f].readAt < MaxPollDelay
        BY DEF Tick
    <2>4. /\ form[f].pc = "pause" => form[f].readAt <= now
          /\ form[f].pc = "timeout" => now > form[f].tx.maxTime
        BY DEF IInv, WaitOutlastsTx
    <2> QED BY <2>1, <2>2, <2>3, <2>4, <1>1
<1>6. \A f \in Form : Applied(f)' = Applied(f)
    BY <1>1 DEF Applied
<1>7. ReportsAreTrue'
    <2>1. TypeOK'
        BY <1>1 DEF IInv, ReportsAreTrue, TypeOK
    <2> QED BY <2>1, <1>1, <1>6 DEF IInv, ReportsAreTrue
<1>8. AbandonedByFaults'
    <2>1. \A t \in pool : t.maxTime \in Nat
        BY <1>1 DEF NetworkOK, Tx
    <2>2. \A t \in pool : InTime(t)' => InTime(t)
        BY <2>1, <1>1 DEF InTime
    <2>3. \A f \in Form : Effective(f)' \subseteq Effective(f)
        BY <2>2, <1>1, <1>6 DEF Effective
    <2>4. \A f \in Form : Cardinality(Abandoned(f)') <= faults'
        BY <2>3, <1>1, NothingLost
    <2> QED BY <2>4, <1>1, <1>6 DEF IInv, AbandonedByFaults
<1> QED BY <1>3, <1>4, <1>5, <1>7, <1>8 DEF IInv

-----------------------------------------------------------------------------
(* The theorems *)

\* Forms that were never submitted.
LEMMA InitEstablishes == Init => IInv
<1> SUFFICES ASSUME Init PROVE IInv
    OBVIOUS
<1>1. /\ now = 0 /\ sequence = 0 /\ pool = {} /\ DOMAIN outcome = {}
      /\ attempts = 0 /\ faults = 0 /\ form = [f \in Form |-> NewForm]
      /\ MaxTime \in Nat
    BY ConstantsAssumption DEF Init
<1>2. \A f \in Form : form[f].pc = "ready" /\ form[f].tx = NoTx
    BY <1>1 DEF NewForm
<1>3. FormsOK
    <2>1. NewForm \in [pc : Pcs, tx : Tx \cup {NoTx}, deadline : Nat, readAt : Nat]
        BY DEF NewForm, Pcs
    <2>2. form \in [Form -> [pc : Pcs, tx : Tx \cup {NoTx}, deadline : Nat,
                             readAt : Nat]]
        BY <2>1, <1>1
    <2> QED BY <2>2, <1>2 DEF FormsOK, Pcs
<1>4. NetworkOK
    BY <1>1 DEF NetworkOK
<1>5. Known = {}
    BY <1>1, <1>2 DEF Known
<1>6. TransactionsOnce
    BY <1>1, <1>2, <1>5 DEF TransactionsOnce
<1>7. WaitOutlastsTx
    BY <1>2 DEF WaitOutlastsTx
<1>8. \A f \in Form : Applied(f) = {} /\ Abandoned(f) = {}
    BY <1>1 DEF Applied, Abandoned, Effective
<1>9. Cardinality({}) = 0
    BY FS_EmptySet
<1>10. AbandonedByFaults
    <2>1. \A f \in Form : Cardinality(Applied(f)) = 0 /\ Cardinality(Abandoned(f)) = 0
        BY <1>8, <1>9
    <2> QED BY <2>1, <1>1 DEF AbandonedByFaults
<1>11. ReportsAreTrue
    <2>1. TypeOK
        BY <1>1, <1>2, <1>9 DEF TypeOK
    <2> QED BY <2>1, <1>2 DEF ReportsAreTrue
<1> QED BY <1>3, <1>4, <1>6, <1>7, <1>10, <1>11 DEF IInv

\* A step that changes nothing.
LEMMA StutteringKeeps ==
    ASSUME IInv, UNCHANGED vars
    PROVE  IInv'
<1>1. UNCHANGED <<now, sequence, pool, outcome, form, attempts, faults>>
    BY DEF vars, network
<1>2. Tx' = Tx /\ Known' = Known
    BY <1>1 DEF Tx, Known
<1>3. \A f \in Form : Applied(f)' = Applied(f) /\ Abandoned(f)' = Abandoned(f)
    BY <1>1 DEF Applied, Abandoned, Effective, InTime
<1>4. TypeOK'
    BY <1>1 DEF IInv, ReportsAreTrue, TypeOK
<1> QED BY <1>1, <1>2, <1>3, <1>4 DEF IInv, ReportsAreTrue, FormsOK, NetworkOK,
        TransactionsOnce, WaitOutlastsTx, AbandonedByFaults

\* The forms and the network agree on every transaction, and no form lets go of one
\* that may still be applied, but by a fault.
THEOREM Invariant == Spec => []IInv
<1>1. IInv /\ [Next]_vars => IInv'
    <2> SUFFICES ASSUME IInv, [Next]_vars PROVE IInv'
        OBVIOUS
    <2>1. ASSUME NEW tx \in pool, Apply(tx) PROVE IInv'
        BY <2>1, ApplyKeeps
    <2>2. CASE Tick
        BY <2>2, TickKeeps
    <2>3. ASSUME NEW f \in Form, handleSubmit(f) PROVE IInv'
        BY <2>3, HandleSubmitKeeps
    <2>4. ASSUME NEW f \in Form, getAccount(f) PROVE IInv'
        BY <2>4, GetAccountKeeps
    <2>5. ASSUME NEW f \in Form, prepareTransaction(f) \/ signTransaction(f)
          PROVE  IInv'
        BY <2>5, BeforeSendingKeeps
    <2>6. ASSUME NEW f \in Form, sendTransaction(f) PROVE IInv'
        BY <2>6, SendTransactionKeeps
    <2>7. ASSUME NEW f \in Form, CallFails(f) PROVE IInv'
        BY <2>7, CallFailsKeeps
    <2>8. ASSUME NEW f \in Form, getTransaction(f) PROVE IInv'
        BY <2>8, GetTransactionKeeps
    <2>9. ASSUME NEW f \in Form, Continue(f) PROVE IInv'
        BY <2>9, ContinueKeeps
    <2>10. CASE UNCHANGED vars
        BY <2>10, StutteringKeeps
    <2> QED BY <2>1, <2>2, <2>3, <2>4, <2>5, <2>6, <2>7, <2>8, <2>9, <2>10 DEF Next
<1> QED BY <1>1, InitEstablishes, PTL DEF Spec

\* A form that reports a timeout tells the truth (waitForTransaction): the wait
\* outlasts the time bounds of the transaction whatever the timeouts are, as long as
\* WaitAssumption holds of them.
THEOREM TimeoutAlwaysFinal == Spec => []TimeoutIsFinal
<1>1. IInv => TimeoutIsFinal
    <2> SUFFICES ASSUME IInv, NEW f \in Form, form[f].pc = "timeout"
                 PROVE  /\ form[f].tx.id \notin DOMAIN outcome
                        /\ ~InTime(form[f].tx)
        BY DEF TimeoutIsFinal
    <2>1. form[f].tx.maxTime \in Nat /\ now \in Nat
        BY FormFacts
    <2>2. now > form[f].tx.maxTime /\ form[f].tx.id \notin DOMAIN outcome
        BY DEF IInv, WaitOutlastsTx
    <2> QED BY <2>1, <2>2 DEF InTime
<1> QED BY <1>1, Invariant, PTL

\* Success and failure are shown of the form's own transaction, after it was applied
\* with that result (invoke and the result it throws or returns).
THEOREM ReportsAlwaysTrue == Spec => []ReportsAreTrue
<1>1. IInv => ReportsAreTrue
    BY DEF IInv
<1> QED BY <1>1, Invariant, PTL

\* However often a form is submitted, its operation is applied once, and once more
\* per lost answer if the contract takes it again (handleSubmit of the forms).
THEOREM RepeatsAlwaysNeedLostAnswers == Spec => []RepeatsNeedLostAnswers
<1>1. IInv => RepeatsNeedLostAnswers
    <2> SUFFICES ASSUME IInv, NEW f \in Form
                 PROVE  Cardinality(Applied(f)) <=
                            IF f \in Repeatable THEN 1 + faults ELSE 1
        BY DEF RepeatsNeedLostAnswers
    <2>1. /\ Applied(f) \subseteq Abandoned(f) \cup {form[f].tx.id}
          /\ IsFiniteSet(Abandoned(f))
        BY EffectiveFinite DEF IInv
    <2>2. /\ Cardinality(Applied(f)) <= Cardinality(Abandoned(f)) + 1
          /\ Cardinality(Applied(f)) \in Nat /\ Cardinality(Abandoned(f)) \in Nat
        BY <2>1, CardinalityGrowsByOne
    <2>3. /\ Cardinality(Abandoned(f)) <= faults /\ faults \in Nat
          /\ f \notin Repeatable => Cardinality(Applied(f)) <= 1
        BY DEF IInv, AbandonedByFaults, NetworkOK
    <2> QED BY <2>2, <2>3
<1> QED BY <1>1, Invariant, PTL

=============================================================================
