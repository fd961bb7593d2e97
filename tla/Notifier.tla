------------------------------ MODULE Notifier ------------------------------
(***************************************************************************)
(* The notifier (backend/src/notifier.ts with services/delivery.ts): a     *)
(* polling worker that turns recall rows into alerts to the owners of      *)
(* affected serials.  The indexer and the alert-preferences route write    *)
(* the tables it reads, at any moment between its database calls.          *)
(*                                                                         *)
(* A unit is one serial of one batch.  A preference row is the set of      *)
(* channels it names: the route always stores active = true and at least   *)
(* one channel, and nothing deletes a row.                                 *)
(***************************************************************************)
EXTENDS Integers, SequencesExt

CONSTANTS
    RecallId,       \* recall ids, numbers
    Owner,
    Unit,
    Affects,        \* the units each recall affects
    BATCH_SIZE,     \* NOTIFIER_BATCH_SIZE
    MaxFaults,      \* bound on failing database calls and deliveries
    MaxCrashes,     \* bound on crashes of the process
    None

\* A row of recall_alerts.
Alert == [status : {"pending", "delivered", "failed"},
          sentAt : BOOLEAN, error : BOOLEAN]

ASSUME ConstantsAssumption ==
    /\ RecallId \subseteq Nat
    /\ Affects \in [RecallId -> SUBSET Unit]
    /\ BATCH_SIZE \in Nat \ {0}
    /\ MaxFaults \in Nat /\ MaxCrashes \in Nat
    /\ None \notin Alert

Channel == {"email", "webhook"}

VARIABLES
    \* the tables
    indexed,        \* ids of the recall rows
    notified,       \* ids of the recall rows with notified = true
    receipts,       \* rows <<owner, unit>>
    prefs,          \* owner -> channels, {} for no row
    alerts,         \* <<recallId, owner>> -> row, or None
    \* the notifier process
    pc, queue, owners, todo, current, delivered, lastError,
    faults, crashes,
    \* history
    sent,           \* <<recallId, owner, channel>> -> messages accepted
    entitled        \* <<recallId, owner>> that were alertable when the recall
                    \* was indexed

tables == <<indexed, receipts, prefs>>
job == <<owners, todo, current, delivered, lastError>>
process == <<pc, queue, job>>
history == <<sent, entitled>>
vars == <<tables, notified, alerts, process, faults, crashes, history>>

Holds(o, r) == \E u \in Affects[r] : <<o, u>> \in receipts

Alertable(o, r) == Holds(o, r) /\ prefs[o] # {}

NoPrefs == [owner |-> None, channels |-> {}]

-----------------------------------------------------------------------------
(* The writers of the tables: indexer.ts and routes/alertPreferences.ts *)

IndexRecall(r) ==
    /\ r \notin indexed
    /\ indexed' = indexed \cup {r}
    /\ entitled' = entitled \cup {<<r, o>> : o \in {p \in Owner : Alertable(p, r)}}
    /\ UNCHANGED <<notified, receipts, prefs, alerts, process, faults, crashes,
                   sent>>

IndexReceipt(o, u) ==
    /\ <<o, u>> \notin receipts
    /\ receipts' = receipts \cup {<<o, u>>}
    /\ UNCHANGED <<indexed, notified, prefs, alerts, process, faults, crashes,
                   history>>

\* A channel the request leaves out is cleared.
SavePreferences(o, channels) ==
    /\ channels # {} /\ channels # prefs[o]
    /\ prefs' = [prefs EXCEPT ![o] = channels]
    /\ UNCHANGED <<indexed, notified, receipts, alerts, process, faults,
                   crashes, history>>

-----------------------------------------------------------------------------
(* The notifier *)

recallId == Head(queue)

NoJob ==
    /\ owners' = {} /\ todo' = {} /\ current' = NoPrefs
    /\ delivered' = FALSE /\ lastError' = FALSE

Start ==
    /\ pc = "down"
    /\ pc' = "poll"
    /\ UNCHANGED <<tables, notified, alerts, queue, job, faults, crashes, history>>

\* findMany with orderBy and take: the one sequence of the first BATCH_SIZE ids, all
\* if they are fewer.
FirstOf(ids) ==
    {q \in SeqOf(ids, BATCH_SIZE) :
        /\ \A i, j \in DOMAIN q : i < j => q[i] < q[j]
        /\ Len(q) = BATCH_SIZE \/ Range(q) = ids
        /\ \A i \in DOMAIN q, id \in ids \ Range(q) : q[i] < id}

\* Planted bug for mutation: recalls already notified are taken again.
PendingOrNot == FirstOf(indexed)

\* The first BATCH_SIZE pending recalls by id.
Pending == FirstOf(indexed \ notified)

pollOnce ==
    /\ pc = "poll"
    /\ indexed \ notified # {}
    /\ queue' \in Pending
    /\ pc' = "recall"
    /\ UNCHANGED <<tables, notified, alerts, job, faults, crashes, history>>

\* Planted bug for mutation: every holder of a unit of the batch.
RecipientsOfBatch == {o \in Owner : \E u \in Unit : <<o, u>> \in receipts}

Recipients == {o \in Owner : Holds(o, recallId)}

\* processOne: the recall and the owners of the units it affects.
ReadRecipients ==
    /\ pc = "recall"
    /\ owners' = Recipients
    /\ pc' = "preferences"
    /\ UNCHANGED <<tables, notified, alerts, queue, todo, current, delivered,
                   lastError, faults, crashes, history>>

ReadPreferences ==
    /\ pc = "preferences"
    /\ todo' = {[owner |-> o, channels |-> prefs[o]] :
                    o \in {p \in owners : prefs[p] # {}}}
    /\ pc' = "next"
    /\ UNCHANGED <<tables, notified, alerts, queue, owners, current, delivered,
                   lastError, faults, crashes, history>>

\* The alert row is created as pending; one that is there is left as it is.
OpenAlert(p) ==
    /\ pc = "next"
    /\ alerts' = IF alerts[recallId, p.owner] = None
                 THEN [alerts EXCEPT ![<<recallId, p.owner>>] =
                        [status |-> "pending", sentAt |-> FALSE, error |-> FALSE]]
                 ELSE alerts
    /\ todo' = todo \ {p}
    /\ current' = p
    /\ delivered' = FALSE /\ lastError' = FALSE
    /\ pc' = IF "email" \in p.channels THEN "email" ELSE "webhook"
    /\ UNCHANGED <<tables, notified, queue, owners, faults, crashes, history>>

\* One message on a channel is accepted.
Accept(channel) ==
    sent' = [sent EXCEPT ![<<recallId, current.owner, channel>>] = @ + 1]

Fault == faults < MaxFaults /\ faults' = faults + 1

\* A delivery returns, or throws: before the message was accepted or, the
\* answer being lost, after.  A webhook that answers non-2xx returns too
\* (delivery.ts logs a warning), so a return is no proof of acceptance there.
Deliver(channel) ==
    \/ /\ Accept(channel)
       /\ delivered' = TRUE
       /\ UNCHANGED <<lastError, faults>>
    \/ /\ channel = "webhook"
       /\ Fault
       /\ delivered' = TRUE
       /\ UNCHANGED <<lastError, sent>>
    \/ /\ Fault
       /\ lastError' = TRUE
       /\ Accept(channel) \/ UNCHANGED sent
       /\ UNCHANGED delivered

SendEmail ==
    /\ pc = "email"
    /\ Deliver("email")
    /\ pc' = IF "webhook" \in current.channels THEN "webhook" ELSE "close"
    /\ UNCHANGED <<tables, notified, alerts, queue, owners, todo, current,
                   crashes, entitled>>

SendWebhook ==
    /\ pc = "webhook"
    /\ Deliver("webhook")
    /\ pc' = "close"
    /\ UNCHANGED <<tables, notified, alerts, queue, owners, todo, current,
                   crashes, entitled>>

\* An undefined error leaves the column as it is.
ClosedAlert(row) ==
    [status |-> IF delivered THEN "delivered" ELSE "failed",
     sentAt |-> delivered,
     error |-> row.error \/ lastError]

CloseAlert ==
    /\ pc = "close"
    /\ alerts' = [alerts EXCEPT ![<<recallId, current.owner>>] = ClosedAlert(@)]
    /\ pc' = "next"
    /\ UNCHANGED <<tables, notified, queue, job, faults, crashes, history>>

\* Planted bug for mutation: the row is marked as soon as the recipients are
\* known.
AllDoneEarly == pc = "next"

AllDone == pc = "next" /\ todo = {}

\* The job ends, by its last line or by an exception pollOnce catches.
EndJob ==
    /\ queue' = Tail(queue)
    /\ pc' = IF queue' = <<>> THEN "poll" ELSE "recall"
    /\ NoJob

\* Planted bug for mutation: the row is not updated.
NotifiedUnchanged == notified

\* Planted bug for mutation: only a recall somebody was told of is marked.
NotifiedIfDelivered ==
    IF delivered THEN notified \cup {recallId} ELSE notified

NotifiedNext == notified \cup {recallId}

MarkNotified ==
    /\ AllDone
    /\ notified' = NotifiedNext
    /\ EndJob
    /\ UNCHANGED <<tables, alerts, faults, crashes, history>>

\* A database call of processOne fails.
JobFails ==
    /\ pc \in {"recall", "preferences", "next", "close"}
    /\ Fault
    /\ EndJob
    /\ UNCHANGED <<tables, notified, alerts, crashes, history>>

\* The process dies, or the query of pollOnce fails and ends main.
Crash ==
    /\ pc # "down"
    /\ crashes < MaxCrashes
    /\ crashes' = crashes + 1
    /\ pc' = "down"
    /\ queue' = <<>>
    /\ NoJob
    /\ UNCHANGED <<tables, notified, alerts, faults, history>>

-----------------------------------------------------------------------------
Init ==
    /\ indexed = {} /\ notified = {} /\ receipts = {}
    /\ prefs = [o \in Owner |-> {}]
    /\ alerts = [k \in RecallId \X Owner |-> None]
    /\ pc = "down" /\ queue = <<>>
    /\ owners = {} /\ todo = {} /\ current = NoPrefs
    /\ delivered = FALSE /\ lastError = FALSE
    /\ faults = 0 /\ crashes = 0
    /\ sent = [k \in RecallId \X Owner \X Channel |-> 0]
    /\ entitled = {}

Next ==
    \/ \E r \in RecallId : IndexRecall(r)
    \/ \E o \in Owner, u \in Unit : IndexReceipt(o, u)
    \/ \E o \in Owner, channels \in SUBSET Channel : SavePreferences(o, channels)
    \/ Start
    \/ pollOnce
    \/ ReadRecipients
    \/ ReadPreferences
    \/ \E p \in todo : OpenAlert(p)
    \/ SendEmail
    \/ SendWebhook
    \/ CloseAlert
    \/ MarkNotified
    \/ JobFails
    \/ Crash

Spec == Init /\ [][Next]_vars

\* The notifier keeps polling, is restarted when it dies, and every delivery
\* returns or throws.  Nothing is assumed of the writers of the tables.
FairSpec ==
    /\ Spec
    /\ WF_vars(Start) /\ WF_vars(pollOnce)
    /\ WF_vars(ReadRecipients) /\ WF_vars(ReadPreferences)
    /\ WF_vars(\E p \in todo : OpenAlert(p))
    /\ WF_vars(SendEmail) /\ WF_vars(SendWebhook)
    /\ WF_vars(CloseAlert) /\ WF_vars(MarkNotified)

-----------------------------------------------------------------------------
(* Properties *)

\* Types of the tables and of the process state.
TypeOK ==
    /\ notified \subseteq indexed /\ indexed \subseteq RecallId
    /\ receipts \subseteq Owner \X Unit
    /\ prefs \in [Owner -> SUBSET Channel]
    /\ alerts \in [RecallId \X Owner -> Alert \cup {None}]
    /\ pc \in {"down", "poll", "recall", "preferences", "next", "email",
               "webhook", "close"}
    /\ queue \in Seq(RecallId)
    /\ pc \in {"down", "poll"} <=> queue = <<>>
    /\ owners \subseteq Owner
    /\ todo \subseteq [owner : Owner, channels : SUBSET Channel]
    /\ delivered \in BOOLEAN /\ lastError \in BOOLEAN

\* When a recall row is marked notified, every owner who was alertable when the
\* recall was indexed has an alert with an outcome, and none is left pending:
\* no fault, crash or preference changed meanwhile loses one (notifier.ts
\* processOne).
NotifiedCoversEntitled ==
    \A r \in notified, o \in Owner :
        /\ <<r, o>> \in entitled => alerts[r, o] # None
        /\ alerts[r, o] # None => alerts[r, o].status # "pending"

\* A message is repeated only when a crash or a fault interrupted its job, and
\* at most once for each (notifier.ts: a job starts over from its first owner).
ResendsBounded ==
    \A r \in RecallId, o \in Owner, c \in Channel :
        sent[r, o, c] <= 1 + crashes + faults

\* Nothing is sent without an alert row to show for it, nor to anyone but a
\* holder of an affected unit who has opted in; and the tables keep their types.
SendsAreOnRecord ==
    /\ TypeOK
    /\ \A r \in RecallId, o \in Owner, c \in Channel :
        sent[r, o, c] > 0 => alerts[r, o] # None /\ Alertable(o, r)

\* A notified recall is finished with: none of its alerts changes and nobody
\* hears of it again.
NotifiedIsFinal ==
    [][\A r \in notified : \A o \in Owner :
            /\ alerts'[r, o] = alerts[r, o]
            /\ \A c \in Channel : sent'[r, o, c] = sent[r, o, c]]_vars

\* Every indexed recall is notified in the end, however many are pending and
\* whichever of them fail for a while.
EventuallyNotified ==
    \A r \in RecallId : r \in indexed ~> r \in notified

\* The states of a job: past its two queries, and with an alert at hand.
Working == {"next", "email", "webhook", "close"}
Sending == {"email", "webhook", "close"}

Waits(o) == \E p \in todo : p.owner = o

\* The recalls of a poll are each taken once.
QueueOK ==
    /\ \A i \in DOMAIN queue : queue[i] \in indexed \ notified
    /\ \A i, j \in DOMAIN queue : queue[i] = queue[j] => i = j

\* The job's list holds each owner once, and the one at hand no more.
JobOK ==
    /\ pc = "preferences" => \A o \in owners : Holds(o, recallId)
    /\ pc \in Working =>
        /\ \A p \in todo : Alertable(p.owner, recallId)
        /\ \A p, q \in todo : p.owner = q.owner => p = q
    /\ pc \in Sending =>
        /\ current \in [owner : Owner, channels : SUBSET Channel]
        /\ ~Waits(current.owner)
        /\ alerts[recallId, current.owner] # None

\* Who was alertable stays so: no receipt and no preference row is deleted.
AlertsOK ==
    /\ \A r \in RecallId, o \in Owner :
        alerts[r, o] # None \/ <<r, o>> \in entitled => Alertable(o, r)
    /\ \A r \in RecallId, o \in Owner : <<r, o>> \in entitled => r \in indexed

\* No one entitled is left out of the job's list without an alert, and no alert is
\* pending but of those in the list and the one at hand.
CoverageOK ==
    /\ pc = "preferences" => \A o \in Owner :
        alerts[recallId, o] # None \/ <<recallId, o>> \in entitled => o \in owners
    /\ pc \in Working => \A o \in Owner :
        /\ <<recallId, o>> \in entitled => Waits(o) \/ alerts[recallId, o] # None
        /\ alerts[recallId, o] # None /\ alerts[recallId, o].status = "pending" =>
            Waits(o) \/ (pc \in Sending /\ o = current.owner)

\* Whether the job at hand may have sent to the owner on the channel already, or
\* an earlier one finished.
Attempted(r, o, c) ==
    \/ r \in notified
    \/ /\ pc \in Working /\ r = recallId /\ ~Waits(o)
       /\ o = current.owner =>
            pc # "email" /\ (pc = "webhook" => c = "email")

SendsOK ==
    /\ sent \in [RecallId \X Owner \X Channel -> Nat]
    /\ faults \in Nat /\ crashes \in Nat
    /\ \A r \in RecallId, o \in Owner, c \in Channel :
        ~Attempted(r, o, c) => sent[r, o, c] <= crashes + faults

\* The inductive invariant of the notifier and its tables.
IInv ==
    /\ SendsAreOnRecord
    /\ NotifiedCoversEntitled
    /\ ResendsBounded
    /\ QueueOK /\ JobOK /\ AlertsOK /\ CoverageOK /\ SendsOK

=============================================================================
