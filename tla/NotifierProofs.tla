---------------------------- MODULE NotifierProofs ----------------------------
(***************************************************************************)
(* Theorems about the notifier, for any recalls, owners, units, size of a  *)
(* poll, and numbers of faults and crashes.                                *)
(***************************************************************************)
EXTENDS Notifier, SequenceTheorems, TLAPS

\* A poll's recalls are pending, and each is taken once.
LEMMA FirstOfFacts ==
    ASSUME NEW ids \in SUBSET RecallId, NEW q \in FirstOf(ids)
    PROVE  /\ q \in Seq(ids) /\ q \in Seq(RecallId)
           /\ \A i \in DOMAIN q : q[i] \in ids
           /\ \A i, j \in DOMAIN q : q[i] = q[j] => i = j
<1>1. PICK m \in 0..BATCH_SIZE : q \in [1..m -> ids]
    BY DEF FirstOf, SeqOf
<1>2. \A i, j \in DOMAIN q : i < j => q[i] < q[j]
    BY DEF FirstOf
<1>3. m \in Nat
    BY <1>1, ConstantsAssumption
<1>4. q \in Seq(ids) /\ q \in Seq(RecallId)
    BY <1>1, <1>3
<1>5. \A i \in DOMAIN q : q[i] \in ids
    BY <1>1
<1>6. \A i \in DOMAIN q : q[i] \in Nat
    BY <1>5, ConstantsAssumption
<1>7. \A i \in DOMAIN q : i \in Nat
    BY <1>1, <1>3
<1>8. \A i, j \in DOMAIN q : q[i] = q[j] => i = j
    BY <1>2, <1>6, <1>7
<1> QED BY <1>4, <1>5, <1>8

\* A poll that finds something has a first recall.
LEMMA PollNotEmpty ==
    ASSUME NEW ids \in SUBSET RecallId, ids # {}, NEW q \in FirstOf(ids)
    PROVE  q # <<>>
<1>1. Len(q) = BATCH_SIZE \/ Range(q) = ids
    BY DEF FirstOf
<1> QED BY <1>1, ConstantsAssumption DEF Range

\* A job is about a recall that is indexed and not notified.
LEMMA JobFacts ==
    ASSUME IInv, pc \notin {"down", "poll"}
    PROVE  /\ queue # <<>> /\ queue \in Seq(RecallId)
           /\ recallId \in RecallId /\ recallId \in indexed /\ recallId \notin notified
           /\ Tail(queue) \in Seq(RecallId)
           /\ \A i \in DOMAIN Tail(queue) :
                /\ Tail(queue)[i] \in indexed \ notified
                /\ Tail(queue)[i] # recallId
                /\ \A j \in DOMAIN Tail(queue) :
                        Tail(queue)[i] = Tail(queue)[j] => i = j
<1>1. queue # <<>> /\ queue \in Seq(RecallId)
    BY DEF IInv, SendsAreOnRecord, TypeOK
<1>2. /\ recallId = queue[1] /\ 1 \in DOMAIN queue
      /\ DOMAIN queue = 1..Len(queue) /\ Len(queue) \in Nat
    BY <1>1 DEF recallId
<1>3. /\ Tail(queue) \in Seq(RecallId) /\ Len(Tail(queue)) = Len(queue) - 1
      /\ DOMAIN Tail(queue) = 1..Len(Tail(queue))
      /\ \A i \in 1..Len(Tail(queue)) : Tail(queue)[i] = queue[i + 1]
    BY <1>1, HeadTailProperties
<1>4. \A i \in DOMAIN Tail(queue) :
        /\ i + 1 \in DOMAIN queue /\ i + 1 # 1 /\ Tail(queue)[i] = queue[i + 1]
        /\ \A j \in DOMAIN Tail(queue) : i + 1 = j + 1 => i = j
    BY <1>2, <1>3
<1>5. recallId \in RecallId /\ recallId \in indexed \ notified
    BY <1>1, <1>2 DEF IInv, QueueOK
<1>6. \A i \in DOMAIN Tail(queue) :
        Tail(queue)[i] \in indexed \ notified /\ Tail(queue)[i] # recallId
    BY <1>2, <1>4 DEF IInv, QueueOK
<1>7. \A i, j \in DOMAIN Tail(queue) : Tail(queue)[i] = Tail(queue)[j] => i = j
    BY <1>2, <1>4 DEF IInv, QueueOK
<1> QED BY <1>1, <1>3, <1>5, <1>6, <1>7

-----------------------------------------------------------------------------
(* The writers of the tables *)

\* What was alertable stays so when the tables grow.
LEMMA TablesGrow ==
    ASSUME IInv, UNCHANGED <<notified, alerts, process, faults, crashes, sent>>,
           TypeOK', indexed \subseteq indexed',
           \A r \in RecallId, o \in Owner : Holds(o, r) => Holds(o, r)',
           \A r \in RecallId, o \in Owner : Alertable(o, r) => Alertable(o, r)',
           entitled \subseteq entitled',
           \A r \in RecallId, o \in Owner : <<r, o>> \in entitled' =>
                \/ <<r, o>> \in entitled
                \/ r \in indexed' \ indexed /\ Alertable(o, r)'
    PROVE  IInv'
<1>1. UNCHANGED <<notified, alerts, pc, queue, owners, todo, current, delivered,
                  lastError, faults, crashes, sent>>
    BY DEF process, job
<1>2. recallId' = recallId
    BY <1>1 DEF recallId
<1>3. /\ TypeOK /\ SendsAreOnRecord /\ NotifiedCoversEntitled /\ ResendsBounded
      /\ QueueOK /\ JobOK /\ AlertsOK /\ CoverageOK /\ SendsOK
    BY DEF IInv, SendsAreOnRecord
<1>4. /\ \A o : Waits(o)' = Waits(o)
      /\ \A r, o, c : Attempted(r, o, c)' = Attempted(r, o, c)
    BY <1>1, <1>2 DEF Waits, Attempted
<1>5. pc \notin {"down", "poll"} => recallId \in RecallId /\ recallId \in indexed
    BY JobFacts
<1>6. notified \subseteq indexed /\ notified \subseteq RecallId /\ owners \subseteq Owner
      /\ todo \subseteq [owner : Owner, channels : SUBSET Channel]
    BY <1>3 DEF TypeOK
<1>7. SendsAreOnRecord'
    BY <1>1, <1>3 DEF SendsAreOnRecord
<1>8. NotifiedCoversEntitled'
    BY <1>1, <1>3, <1>6 DEF NotifiedCoversEntitled
<1>9. ResendsBounded' /\ QueueOK'
    BY <1>1, <1>3 DEF ResendsBounded, QueueOK
<1>10. JobOK'
    <2>1. pc = "preferences" => \A o \in owners : Holds(o, recallId)'
        BY <1>2, <1>3, <1>5, <1>6 DEF JobOK
    <2>2. pc \in Working => \A p \in todo : Alertable(p.owner, recallId)'
        BY <1>2, <1>3, <1>5, <1>6 DEF JobOK, Working
    <2> QED BY <2>1, <2>2, <1>1, <1>2, <1>3, <1>4 DEF JobOK
<1>11. AlertsOK'
    BY <1>1, <1>3 DEF AlertsOK
<1>12. CoverageOK'
    <2>1. \A o \in Owner : pc \in Working \cup {"preferences"} =>
            (<<recallId, o>> \in entitled' => <<recallId, o>> \in entitled)
        BY <1>5 DEF Working
    <2> QED BY <2>1, <1>1, <1>2, <1>3, <1>4 DEF CoverageOK
<1>13. SendsOK'
    BY <1>1, <1>3, <1>4 DEF SendsOK
<1> QED BY <1>7, <1>8, <1>9, <1>10, <1>11, <1>12, <1>13 DEF IInv

\* Who is entitled to a recall is settled when it is indexed, before any job takes it.
LEMMA IndexRecallKeeps ==
    ASSUME IInv, NEW r \in RecallId, IndexRecall(r)
    PROVE  IInv'
<1>1. /\ r \notin indexed /\ indexed' = indexed \cup {r}
      /\ entitled' = entitled \cup {<<r, o>> : o \in {p \in Owner : Alertable(p, r)}}
      /\ UNCHANGED <<notified, receipts, prefs, alerts, process, faults, crashes, sent>>
    BY DEF IndexRecall
<1>2. \A s \in RecallId, o \in Owner :
        Holds(o, s)' = Holds(o, s) /\ Alertable(o, s)' = Alertable(o, s)
    BY <1>1 DEF Holds, Alertable
<1>3. \A s \in RecallId, o \in Owner : <<s, o>> \in entitled' =>
        \/ <<s, o>> \in entitled
        \/ s = r /\ Alertable(o, r)
    BY <1>1
<1>4. TypeOK'
    BY <1>1 DEF IInv, SendsAreOnRecord, TypeOK, process, job
<1> QED BY <1>1, <1>2, <1>3, <1>4, TablesGrow

LEMMA IndexReceiptKeeps ==
    ASSUME IInv, NEW o \in Owner, NEW u \in Unit, IndexReceipt(o, u)
    PROVE  IInv'
<1>1. /\ receipts' = receipts \cup {<<o, u>>}
      /\ UNCHANGED <<indexed, notified, prefs, alerts, process, faults, crashes, sent,
                     entitled>>
    BY DEF IndexReceipt, history
<1>2. \A s \in RecallId, p \in Owner :
        (Holds(p, s) => Holds(p, s)') /\ (Alertable(p, s) => Alertable(p, s)')
    BY <1>1 DEF Holds, Alertable
<1>3. TypeOK'
    <2>1. receipts \subseteq Owner \X Unit
        BY DEF IInv, SendsAreOnRecord, TypeOK
    <2>2. <<o, u>> \in Owner \X Unit
        OBVIOUS
    <2>3. receipts' \subseteq Owner \X Unit
        BY <2>1, <2>2, <1>1
    <2> QED BY <2>3, <1>1 DEF IInv, SendsAreOnRecord, TypeOK, process, job
<1> QED BY <1>1, <1>2, <1>3, TablesGrow

LEMMA SavePreferencesKeeps ==
    ASSUME IInv, NEW o \in Owner, NEW channels \in SUBSET Channel,
           SavePreferences(o, channels)
    PROVE  IInv'
<1>1. /\ channels # {} /\ prefs' = [prefs EXCEPT ![o] = channels]
      /\ UNCHANGED <<indexed, notified, receipts, alerts, process, faults, crashes,
                     sent, entitled>>
    BY DEF SavePreferences, history
<1>2. prefs \in [Owner -> SUBSET Channel]
    BY DEF IInv, SendsAreOnRecord, TypeOK
<1>3. \A p \in Owner : prefs[p] # {} => prefs'[p] # {}
    BY <1>1, <1>2
<1>4. \A s \in RecallId, p \in Owner :
        (Holds(p, s) => Holds(p, s)') /\ (Alertable(p, s) => Alertable(p, s)')
    BY <1>1, <1>3 DEF Holds, Alertable
<1>5. TypeOK'
    BY <1>1, <1>2 DEF IInv, SendsAreOnRecord, TypeOK, process, job
<1> QED BY <1>1, <1>4, <1>5, TablesGrow

-----------------------------------------------------------------------------
(* The start and the end of a job *)

\* One more fault or crash makes room for one more message.
LEMMA RoomForOneMore ==
    ASSUME NEW n \in Nat, NEW a \in Nat, NEW b \in Nat, NEW c \in Nat, NEW d \in Nat,
           n <= 1 + a + b, c + d = a + b + 1
    PROVE  n <= c + d /\ n <= 1 + c + d
OBVIOUS

\* A job that ends has either finished with its recall or cost a fault or a crash.
LEMMA JobEnds ==
    ASSUME IInv, UNCHANGED <<tables, alerts, history>>, NoJob,
           queue' = <<>> \/ (queue' = Tail(queue) /\ pc \notin {"down", "poll"}),
           pc' \in {"down", "poll", "recall"},
           pc' \in {"down", "poll"} <=> queue' = <<>>,
           faults' \in Nat, crashes' \in Nat,
           \/ /\ notified' = notified
              /\ crashes' + faults' = crashes + faults + 1
           \/ /\ AllDone /\ notified' = notified \cup {recallId}
              /\ crashes' = crashes /\ faults' = faults
    PROVE  IInv'
<1>1. UNCHANGED <<indexed, receipts, prefs, alerts, sent, entitled>>
    BY DEF tables, history
<1>2. /\ TypeOK /\ SendsAreOnRecord /\ NotifiedCoversEntitled /\ ResendsBounded
      /\ QueueOK /\ JobOK /\ AlertsOK /\ CoverageOK /\ SendsOK
    BY DEF IInv, SendsAreOnRecord
<1>3. \A r, o : Alertable(o, r)' = Alertable(o, r)
    BY <1>1 DEF Alertable, Holds
<1>4. AllDone => recallId \in indexed /\ recallId \in RecallId
    BY JobFacts DEF AllDone
<1>5. notified' \subseteq notified \cup {recallId} /\ notified \subseteq notified'
    OBVIOUS
<1>6. /\ queue' \in Seq(RecallId)
      /\ \A i \in DOMAIN queue' : queue'[i] \in indexed \ notified'
      /\ \A i, j \in DOMAIN queue' : queue'[i] = queue'[j] => i = j
    <2>1. CASE queue' = <<>>
        BY <2>1
    <2>2. CASE queue' = Tail(queue) /\ pc \notin {"down", "poll"}
        BY <2>2, <1>5, JobFacts
    <2> QED BY <2>1, <2>2
<1>7. TypeOK'
    <2>1. notified' \subseteq indexed'
        BY <1>1, <1>2, <1>4 DEF TypeOK
    <2>2. /\ owners' = {} /\ todo' = {} /\ delivered' \in BOOLEAN
          /\ lastError' \in BOOLEAN
        BY DEF NoJob
    <2> QED BY <2>1, <2>2, <1>1, <1>2, <1>6 DEF TypeOK
<1>8. SendsAreOnRecord'
    BY <1>1, <1>2, <1>3, <1>7 DEF SendsAreOnRecord
<1>9. NotifiedCoversEntitled'
    <2> SUFFICES ASSUME NEW r \in notified', NEW o \in Owner
                 PROVE  /\ <<r, o>> \in entitled => alerts[r, o] # None
                        /\ alerts[r, o] # None => alerts[r, o].status # "pending"
        BY <1>1 DEF NotifiedCoversEntitled
    <2>1. CASE r \in notified
        BY <2>1, <1>2 DEF NotifiedCoversEntitled
    <2>2. CASE r = recallId /\ AllDone
        BY <2>2, <1>2 DEF CoverageOK, AllDone, Waits, Working, Sending
    <2> QED BY <2>1, <2>2
<1>10. /\ faults \in Nat /\ crashes \in Nat /\ faults' \in Nat /\ crashes' \in Nat
       /\ \A r \in RecallId, o \in Owner, c \in Channel : sent[r, o, c] \in Nat
    BY <1>2 DEF SendsOK
<1>11. ResendsBounded'
    <2> SUFFICES ASSUME NEW r \in RecallId, NEW o \in Owner, NEW c \in Channel
                 PROVE  sent[r, o, c] <= 1 + crashes' + faults'
        BY <1>1 DEF ResendsBounded
    <2>1. sent[r, o, c] <= 1 + crashes + faults /\ sent[r, o, c] \in Nat
        BY <1>2, <1>10 DEF ResendsBounded
    <2>2. CASE crashes' + faults' = crashes + faults + 1
        BY <2>1, <2>2, <1>10, RoomForOneMore
    <2>3. CASE crashes' = crashes /\ faults' = faults
        BY <2>1, <2>3
    <2> QED BY <2>2, <2>3
<1>12. QueueOK'
    BY <1>1, <1>6 DEF QueueOK
<1>13. JobOK'
    BY DEF JobOK, Working, Sending
<1>14. AlertsOK'
    BY <1>1, <1>2, <1>3 DEF AlertsOK
<1>15. CoverageOK'
    BY DEF CoverageOK, Working
<1>16. SendsOK'
    <2> SUFFICES ASSUME NEW r \in RecallId, NEW o \in Owner, NEW c \in Channel,
                        r \notin notified'
                 PROVE  sent[r, o, c] <= crashes' + faults'
        BY <1>1, <1>2, <1>10 DEF SendsOK, Attempted
    <2>1. sent[r, o, c] <= 1 + crashes + faults /\ sent[r, o, c] \in Nat
        BY <1>2, <1>10 DEF ResendsBounded
    <2>2. CASE crashes' + faults' = crashes + faults + 1
        BY <2>1, <2>2, <1>10, RoomForOneMore
    <2>3. CASE /\ notified' = notified \cup {recallId}
               /\ crashes' = crashes /\ faults' = faults
        <3>1. ~Attempted(r, o, c)
            BY <2>3 DEF Attempted
        <3> QED BY <3>1, <2>3, <1>2 DEF SendsOK
    <2> QED BY <2>2, <2>3
<1> QED BY <1>8, <1>9, <1>11, <1>12, <1>13, <1>14, <1>15, <1>16 DEF IInv

\* Marking a recall whose list of owners is done with.
LEMMA MarkNotifiedKeeps ==
    ASSUME IInv, MarkNotified
    PROVE  IInv'
<1>1. /\ AllDone /\ notified' = notified \cup {recallId} /\ EndJob
      /\ UNCHANGED <<tables, alerts, faults, crashes, history>>
    BY DEF MarkNotified, NotifiedNext
<1>2. pc \notin {"down", "poll"}
    BY <1>1 DEF AllDone
<1>3. /\ queue' = Tail(queue) /\ NoJob /\ pc' \in {"poll", "recall"}
      /\ pc' \in {"down", "poll"} <=> queue' = <<>>
    BY <1>1 DEF EndJob
<1>4. faults' \in Nat /\ crashes' \in Nat
    BY <1>1 DEF IInv, SendsOK
<1> QED BY <1>1, <1>2, <1>3, <1>4, JobEnds

LEMMA JobFailsKeeps ==
    ASSUME IInv, JobFails
    PROVE  IInv'
<1>1. /\ pc \notin {"down", "poll"} /\ faults' = faults + 1 /\ EndJob
      /\ UNCHANGED <<tables, notified, alerts, crashes, history>>
    BY DEF JobFails, Fault
<1>2. /\ queue' = Tail(queue) /\ NoJob /\ pc' \in {"poll", "recall"}
      /\ pc' \in {"down", "poll"} <=> queue' = <<>>
    BY <1>1 DEF EndJob
<1>3. faults \in Nat /\ crashes \in Nat
    BY DEF IInv, SendsOK
<1>4. /\ faults' \in Nat /\ crashes' \in Nat
      /\ crashes' + faults' = crashes + faults + 1
    BY <1>1, <1>3
<1> QED BY <1>1, <1>2, <1>4, JobEnds

LEMMA CrashKeeps ==
    ASSUME IInv, Crash
    PROVE  IInv'
<1>1. /\ crashes' = crashes + 1 /\ pc' = "down" /\ queue' = <<>> /\ NoJob
      /\ UNCHANGED <<tables, notified, alerts, faults, history>>
    BY DEF Crash
<1>2. faults \in Nat /\ crashes \in Nat
    BY DEF IInv, SendsOK
<1>3. /\ faults' \in Nat /\ crashes' \in Nat
      /\ crashes' + faults' = crashes + faults + 1
    BY <1>1, <1>2
<1>4. pc' \in {"down", "poll", "recall"}
    BY <1>1
<1>5. pc' \in {"down", "poll"} <=> queue' = <<>>
    BY <1>1
<1>6. queue' = <<>> \/ (queue' = Tail(queue) /\ pc \notin {"down", "poll"})
    BY <1>1
<1>7. UNCHANGED <<tables, alerts, history>>
    BY <1>1
<1> QED BY <1>1, <1>3, <1>4, <1>5, <1>6, <1>7, JobEnds

\* Between two jobs nothing is attempted but what earlier jobs did.
LEMMA StartKeeps ==
    ASSUME IInv, Start \/ pollOnce
    PROVE  IInv'
<1>1. /\ pc \in {"down", "poll"} /\ pc' \in {"poll", "recall"}
      /\ UNCHANGED <<indexed, receipts, prefs, notified, alerts, owners, todo, current,
                     delivered, lastError, faults, crashes, sent, entitled>>
    BY DEF Start, pollOnce, tables, job, history
<1>2. /\ TypeOK /\ SendsAreOnRecord /\ NotifiedCoversEntitled /\ ResendsBounded
      /\ QueueOK /\ AlertsOK /\ SendsOK
    BY DEF IInv, SendsAreOnRecord
<1>3. indexed \ notified \in SUBSET RecallId
    BY <1>2 DEF TypeOK
<1>4. /\ queue' \in Seq(RecallId) /\ (pc' = "poll" <=> queue' = <<>>)
      /\ \A i \in DOMAIN queue' : queue'[i] \in indexed \ notified
      /\ \A i, j \in DOMAIN queue' : queue'[i] = queue'[j] => i = j
    <2>1. CASE Start
        BY <2>1, <1>2 DEF Start, TypeOK, QueueOK
    <2>2. CASE pollOnce
        <3>1. /\ indexed \ notified # {} /\ queue' \in FirstOf(indexed \ notified)
              /\ pc' = "recall"
            BY <2>2 DEF pollOnce, Pending
        <3> QED BY <3>1, <1>3, FirstOfFacts, PollNotEmpty
    <2> QED BY <2>1, <2>2
<1>5. TypeOK'
    BY <1>1, <1>2, <1>4 DEF TypeOK
<1>6. \A r, o : Alertable(o, r)' = Alertable(o, r)
    BY <1>1 DEF Alertable, Holds
<1>7. SendsAreOnRecord' /\ NotifiedCoversEntitled' /\ ResendsBounded'
    BY <1>1, <1>2, <1>5, <1>6 DEF SendsAreOnRecord, NotifiedCoversEntitled,
        ResendsBounded
<1>8. QueueOK'
    BY <1>1, <1>4 DEF QueueOK
<1>9. JobOK' /\ CoverageOK'
    BY <1>1 DEF JobOK, CoverageOK, Working, Sending
<1>10. AlertsOK'
    BY <1>1, <1>2, <1>6 DEF AlertsOK
<1>11. SendsOK'
    <2>1. \A r, o, c : Attempted(r, o, c) => Attempted(r, o, c)'
        BY <1>1 DEF Attempted, Working
    <2> QED BY <2>1, <1>1, <1>2 DEF SendsOK
<1> QED BY <1>7, <1>8, <1>9, <1>10, <1>11 DEF IInv

-----------------------------------------------------------------------------
(* The steps of a job *)

\* The bounds on what was sent, before and after a message or a fault.
LEMMA BoundsGrow ==
    ASSUME NEW n \in Nat, NEW a \in Nat, NEW b \in Nat, NEW d \in Nat, b <= d
    PROVE  /\ n <= 1 + a + b => n <= 1 + a + d
           /\ n <= a + b => n <= a + d /\ n + 1 <= 1 + a + d
OBVIOUS

\* A step of a job touches the alerts of its own recall, and sends only what the job has
\* not attempted yet.
LEMMA JobSteps ==
    ASSUME IInv, UNCHANGED <<tables, notified, queue, crashes, entitled>>,
           pc \notin {"down", "poll"},
           pc' \in {"preferences", "next", "email", "webhook", "close"},
           owners' \subseteq Owner,
           todo' \subseteq [owner : Owner, channels : SUBSET Channel],
           delivered' \in BOOLEAN, lastError' \in BOOLEAN,
           faults' \in Nat, faults <= faults',
           alerts' \in [RecallId \X Owner -> Alert \cup {None}],
           \A r \in RecallId, o \in Owner :
                /\ alerts[r, o] # None => alerts'[r, o] # None
                /\ alerts'[r, o] # None => alerts[r, o] # None \/ Alertable(o, r)
                /\ r # recallId => alerts'[r, o] = alerts[r, o],
           sent' \in [RecallId \X Owner \X Channel -> Nat],
           \A r \in RecallId, o \in Owner, c \in Channel :
                \/ /\ sent'[r, o, c] = sent[r, o, c]
                   /\ Attempted(r, o, c) => Attempted(r, o, c)'
                \/ /\ sent'[r, o, c] = sent[r, o, c] + 1
                   /\ ~Attempted(r, o, c) /\ Attempted(r, o, c)'
                   /\ alerts[r, o] # None,
           JobOK', CoverageOK'
    PROVE  IInv'
<1>1. UNCHANGED <<indexed, receipts, prefs, notified, queue, crashes, entitled>>
    BY DEF tables
<1>2. /\ TypeOK /\ SendsAreOnRecord /\ NotifiedCoversEntitled /\ ResendsBounded
      /\ QueueOK /\ AlertsOK /\ SendsOK
    BY DEF IInv, SendsAreOnRecord
<1>3. \A r, o : Alertable(o, r)' = Alertable(o, r)
    BY <1>1 DEF Alertable, Holds
<1>4. queue # <<>> /\ recallId \notin notified /\ notified \subseteq RecallId
    BY <1>2, JobFacts DEF TypeOK
<1>5. TypeOK'
    BY <1>1, <1>2, <1>4 DEF TypeOK
<1>6. SendsAreOnRecord'
    <2> SUFFICES ASSUME NEW r \in RecallId, NEW o \in Owner, NEW c \in Channel,
                        sent'[r, o, c] > 0
                 PROVE  alerts'[r, o] # None /\ Alertable(o, r)'
        BY <1>5 DEF SendsAreOnRecord
    <2>1. alerts[r, o] # None
        BY <1>2 DEF SendsAreOnRecord
    <2>2. Alertable(o, r)
        BY <2>1, <1>2 DEF AlertsOK
    <2> QED BY <2>1, <2>2, <1>3
<1>7. NotifiedCoversEntitled'
    BY <1>1, <1>2, <1>4 DEF NotifiedCoversEntitled
<1>8. /\ faults \in Nat /\ crashes \in Nat
      /\ \A r \in RecallId, o \in Owner, c \in Channel :
            /\ sent[r, o, c] \in Nat
            /\ sent[r, o, c] <= 1 + crashes + faults
            /\ ~Attempted(r, o, c) => sent[r, o, c] <= crashes + faults
    BY <1>2 DEF SendsOK, ResendsBounded
<1>9. ASSUME NEW r \in RecallId, NEW o \in Owner, NEW c \in Channel
      PROVE  /\ sent'[r, o, c] <= 1 + crashes + faults'
             /\ ~Attempted(r, o, c)' => sent'[r, o, c] <= crashes + faults'
    <2>1. /\ sent[r, o, c] <= 1 + crashes + faults => sent[r, o, c] <= 1 + crashes + faults'
          /\ sent[r, o, c] <= crashes + faults =>
                /\ sent[r, o, c] <= crashes + faults'
                /\ sent[r, o, c] + 1 <= 1 + crashes + faults'
        BY <1>8, BoundsGrow
    <2>2. CASE /\ sent'[r, o, c] = sent[r, o, c]
               /\ Attempted(r, o, c) => Attempted(r, o, c)'
        BY <2>1, <2>2, <1>8, Zenon
    <2>3. CASE /\ sent'[r, o, c] = sent[r, o, c] + 1
               /\ ~Attempted(r, o, c) /\ Attempted(r, o, c)'
        BY <2>1, <2>3, <1>8, Zenon
    <2> QED BY <2>2, <2>3, Zenon
<1>10. ResendsBounded' /\ SendsOK'
    BY <1>1, <1>8, <1>9 DEF ResendsBounded, SendsOK
<1>11. QueueOK'
    BY <1>1, <1>2 DEF QueueOK
<1>12. AlertsOK'
    BY <1>1, <1>2, <1>3 DEF AlertsOK
<1> QED BY <1>6, <1>7, <1>10, <1>11, <1>12 DEF IInv

\* The job reads its recipients, then their preferences: both only grow between the
\* two reads and after them.
LEMMA ReadsKeep ==
    ASSUME IInv, ReadRecipients \/ ReadPreferences
    PROVE  IInv'
<1>1. /\ pc \in {"recall", "preferences"} /\ pc' \in {"preferences", "next"}
      /\ UNCHANGED <<tables, indexed, receipts, prefs, notified, alerts, queue, current,
                     delivered, lastError, faults, crashes, sent, entitled>>
    BY DEF ReadRecipients, ReadPreferences, tables, history
<1>2. TypeOK /\ AlertsOK /\ JobOK /\ CoverageOK /\ SendsOK
    BY DEF IInv, SendsAreOnRecord
<1>3. recallId' = recallId /\ recallId \in RecallId
    BY <1>1, JobFacts DEF recallId
<1>4. \A r, o : Alertable(o, r)' = Alertable(o, r) /\ Holds(o, r)' = Holds(o, r)
    BY <1>1 DEF Alertable, Holds
<1>5. \A r, o, c : Attempted(r, o, c) => Attempted(r, o, c)'
    BY <1>1 DEF Attempted, Working
<1>6. /\ owners' \subseteq Owner
      /\ todo' \subseteq [owner : Owner, channels : SUBSET Channel]
    BY <1>1, <1>2 DEF TypeOK, ReadRecipients, ReadPreferences, Recipients
<1>7. JobOK' /\ CoverageOK'
    <2>1. CASE ReadRecipients
        <3>1. owners' = {o \in Owner : Holds(o, recallId)} /\ pc' = "preferences"
            BY <2>1 DEF ReadRecipients, Recipients
        <3>2. JobOK'
            BY <3>1, <1>3, <1>4 DEF JobOK, Working, Sending
        <3>3. CoverageOK'
            BY <3>1, <1>1, <1>2, <1>3 DEF CoverageOK, Working, AlertsOK, Alertable
        <3> QED BY <3>2, <3>3
    <2>2. CASE ReadPreferences
        <3>1. /\ todo' = {[owner |-> o, channels |-> prefs[o]] :
                            o \in {p \in owners : prefs[p] # {}}}
              /\ pc = "preferences" /\ pc' = "next" /\ owners \subseteq Owner
            BY <2>2, <1>2 DEF ReadPreferences, TypeOK
        <3>2. \A p \in todo' :
                /\ p.owner \in owners /\ prefs[p.owner] # {}
                /\ p = [owner |-> p.owner, channels |-> prefs[p.owner]]
            BY <3>1
        <3>3. \A o \in owners : prefs[o] # {} => Waits(o)'
            <4> SUFFICES ASSUME NEW o \in owners, prefs[o] # {}
                         PROVE  \E p \in todo' : p.owner = o
                BY DEF Waits
            <4> DEFINE p == [owner |-> o, channels |-> prefs[o]]
            <4>1. p \in todo' /\ p.owner = o
                BY <3>1
            <4> QED BY <4>1
        <3>4. JobOK'
            <4>1. \A p \in todo' : Alertable(p.owner, recallId)
                BY <3>1, <3>2, <1>2 DEF JobOK, Alertable
            <4>2. \A p, q \in todo' : p.owner = q.owner => p = q
                BY <3>2
            <4> QED BY <4>1, <4>2, <3>1, <1>3, <1>4 DEF JobOK, Sending
        <3>5. CoverageOK'
            <4>1. \A o \in Owner :
                    alerts[recallId, o] # None \/ <<recallId, o>> \in entitled => Waits(o)'
                BY <3>1, <3>3, <1>2, <1>3 DEF CoverageOK, AlertsOK, Alertable
            <4> QED BY <4>1, <3>1, <1>1, <1>3 DEF CoverageOK
        <3> QED BY <3>4, <3>5
    <2> QED BY <2>1, <2>2
<1>8. faults \in Nat
    BY <1>2 DEF SendsOK
<1>9. faults' \in Nat /\ faults <= faults'
    BY <1>1, <1>8
<1> QED
    <2>1. /\ delivered' \in BOOLEAN /\ lastError' \in BOOLEAN
          /\ alerts' \in [RecallId \X Owner -> Alert \cup {None}]
          /\ sent' \in [RecallId \X Owner \X Channel -> Nat]
        BY <1>1, <1>2 DEF TypeOK, SendsOK
    <2> QED BY <2>1, <1>1, <1>5, <1>6, <1>7, <1>9, JobSteps

\* The next owner of the list gets an alert row, or finds the one an earlier job left.
LEMMA OpenAlertKeeps ==
    ASSUME IInv, NEW p \in todo, OpenAlert(p)
    PROVE  IInv'
<1> DEFINE row == [status |-> "pending", sentAt |-> FALSE, error |-> FALSE]
           key == <<recallId, p.owner>>
<1>1. /\ pc = "next" /\ pc' \in {"email", "webhook"}
      /\ UNCHANGED <<tables, indexed, receipts, prefs, notified, queue, owners, faults,
                     crashes, sent, entitled>>
      /\ todo' = todo \ {p} /\ current' = p /\ delivered' = FALSE /\ lastError' = FALSE
      /\ \/ alerts[recallId, p.owner] # None /\ alerts' = alerts
         \/ /\ alerts[recallId, p.owner] = None
            /\ alerts' = [alerts EXCEPT ![key] = row]
    BY DEF OpenAlert, tables, history
<1>2. TypeOK /\ JobOK /\ CoverageOK /\ SendsOK
    BY DEF IInv, SendsAreOnRecord
<1>3. recallId' = recallId /\ recallId \in RecallId
    BY <1>1, JobFacts DEF recallId
<1>4. /\ p \in [owner : Owner, channels : SUBSET Channel] /\ p.owner \in Owner
      /\ todo \subseteq [owner : Owner, channels : SUBSET Channel]
      /\ alerts \in [RecallId \X Owner -> Alert \cup {None}]
      /\ owners \subseteq Owner
    BY <1>2 DEF TypeOK
<1>5. \A r, o : Alertable(o, r)' = Alertable(o, r)
    BY <1>1 DEF Alertable, Holds
<1>6. /\ \A q \in todo : Alertable(q.owner, recallId)
      /\ \A q, t \in todo : q.owner = t.owner => q = t
    BY <1>1, <1>2 DEF JobOK, Working
<1>7. Waits(p.owner) /\ \A o : Waits(o)' <=> (Waits(o) /\ o # p.owner)
    BY <1>1, <1>6 DEF Waits
<1>8. row \in Alert /\ row # None
    <2>1. row \in Alert
        BY DEF Alert
    <2> QED BY <2>1, ConstantsAssumption
<1>9. /\ alerts' \in [RecallId \X Owner -> Alert \cup {None}]
      /\ \A r \in RecallId, o \in Owner : <<r, o>> # key => alerts'[r, o] = alerts[r, o]
      /\ alerts'[recallId, p.owner] # None
    BY <1>1, <1>3, <1>4, <1>8
<1>10. \A r \in RecallId, o \in Owner :
        /\ alerts[r, o] # None => alerts'[r, o] # None
        /\ alerts'[r, o] # None => alerts[r, o] # None \/ Alertable(o, r)
        /\ r # recallId => alerts'[r, o] = alerts[r, o]
    BY <1>6, <1>9
<1>11. \A r, o, c : Attempted(r, o, c) => Attempted(r, o, c)'
    BY <1>1, <1>3, <1>7 DEF Attempted, Working
<1>12. JobOK'
    <2>1. \A q \in todo' : Alertable(q.owner, recallId)'
        BY <1>1, <1>3, <1>5, <1>6
    <2>2. \A q, t \in todo' : q.owner = t.owner => q = t
        BY <1>1, <1>6
    <2> QED BY <2>1, <2>2, <1>1, <1>3, <1>4, <1>7, <1>9 DEF JobOK
<1>13. CoverageOK'
    <2> SUFFICES ASSUME NEW o \in Owner
                 PROVE  /\ <<recallId, o>> \in entitled => Waits(o)' \/ alerts'[recallId, o] # None
                        /\ alerts'[recallId, o] # None /\ alerts'[recallId, o].status = "pending"
                            => Waits(o)' \/ (pc' \in Sending /\ o = current'.owner)
        BY <1>1, <1>3 DEF CoverageOK
    <2>1. CASE o = p.owner
        BY <2>1, <1>1, <1>9 DEF Sending
    <2>2. CASE o # p.owner
        <3>1. <<recallId, o>> # key
            BY <2>2
        <3>2. alerts'[recallId, o] = alerts[recallId, o]
            BY <3>1, <1>3, <1>9
        <3>3. Waits(o)' <=> Waits(o)
            BY <2>2, <1>7, Zenon
        <3> QED BY <3>2, <3>3, <1>1, <1>2 DEF CoverageOK, Working, Sending
    <2> QED BY <2>1, <2>2
<1>14. /\ faults \in Nat /\ faults' = faults
       /\ sent' \in [RecallId \X Owner \X Channel -> Nat]
    BY <1>1, <1>2 DEF SendsOK
<1>15. faults' \in Nat /\ faults <= faults'
    BY <1>14
<1>16. /\ todo' \subseteq [owner : Owner, channels : SUBSET Channel]
       /\ owners' \subseteq Owner
    BY <1>1, <1>4
<1> QED BY <1>1, <1>9, <1>10, <1>11, <1>12, <1>13, <1>14, <1>15, <1>16, JobSteps

\* A message goes out at most once to an owner of the list on a channel.
LEMMA SendKeeps ==
    ASSUME IInv, NEW channel \in Channel, pc = channel, Deliver(channel),
           pc' \in {"webhook", "close"} \ {channel},
           UNCHANGED <<tables, notified, alerts, queue, owners, todo, current, crashes,
                       entitled>>
    PROVE  IInv'
<1> DEFINE key == <<recallId, current.owner, channel>>
<1>1. /\ pc \in Channel /\ pc = channel /\ Deliver(channel)
      /\ pc' \in {"webhook", "close"} /\ pc' # channel
      /\ UNCHANGED <<tables, indexed, receipts, prefs, notified, alerts, queue, owners,
                     todo, current, crashes, entitled>>
    BY DEF tables
<1>2. TypeOK /\ JobOK /\ CoverageOK /\ SendsOK
    BY DEF IInv, SendsAreOnRecord
<1>3. recallId' = recallId /\ recallId \in RecallId /\ recallId \notin notified
    BY <1>1, JobFacts DEF recallId, Channel
<1>4. /\ current.owner \in Owner /\ ~Waits(current.owner)
      /\ alerts[recallId, current.owner] # None
    BY <1>1, <1>2 DEF JobOK, Sending, Channel
<1>5. /\ faults \in Nat
      /\ sent \in [RecallId \X Owner \X Channel -> Nat]
      /\ delivered \in BOOLEAN /\ lastError \in BOOLEAN
    BY <1>2 DEF SendsOK, TypeOK
<1>6. /\ sent' = sent \/ sent' = [sent EXCEPT ![key] = @ + 1]
      /\ faults' = faults \/ faults' = faults + 1
      /\ delivered' = delivered \/ delivered' = TRUE
      /\ lastError' = lastError \/ lastError' = TRUE
    BY <1>1 DEF Deliver, Accept, Fault
<1>7. faults' \in Nat /\ faults <= faults'
    BY <1>5, <1>6
<1>8. delivered' \in BOOLEAN /\ lastError' \in BOOLEAN
    BY <1>5, <1>6, Zenon
<1>9. key \in RecallId \X Owner \X Channel
    BY <1>3, <1>4
<1>10. \A o : Waits(o)' = Waits(o)
    BY <1>1 DEF Waits
<1>11. ~Attempted(recallId, current.owner, channel)
    BY <1>1, <1>3 DEF Attempted, Working, Channel
<1>12. \A r, o, c : Attempted(r, o, c) => Attempted(r, o, c)'
    BY <1>1, <1>3, <1>10 DEF Attempted, Working, Channel
<1>13. sent' = sent \/ sent' = [sent EXCEPT ![key] = sent[key] + 1]
    BY <1>6
<1>14. sent[key] \in Nat /\ sent[key] + 1 \in Nat
    BY <1>5, <1>9
<1>15. sent' \in [RecallId \X Owner \X Channel -> Nat]
    BY <1>5, <1>13, <1>14
<1>16. ASSUME NEW r \in RecallId, NEW o \in Owner, NEW c \in Channel
       PROVE  \/ /\ sent'[r, o, c] = sent[r, o, c]
                 /\ Attempted(r, o, c) => Attempted(r, o, c)'
              \/ /\ sent'[r, o, c] = sent[r, o, c] + 1
                 /\ ~Attempted(r, o, c) /\ Attempted(r, o, c)'
                 /\ alerts[r, o] # None
    <2> DEFINE k == <<r, o, c>>
    <2>1. k \in RecallId \X Owner \X Channel
        OBVIOUS
    <2>2. CASE sent'[k] = sent[k]
        BY <2>2, <1>12
    <2>3. CASE sent'[k] # sent[k]
        <3>1. k = key /\ sent'[k] = sent[k] + 1
            BY <2>1, <2>3, <1>5, <1>13
        <3>2. r = recallId /\ o = current.owner /\ c = channel
            BY <3>1
        <3>3. Attempted(r, o, c)'
            BY <3>2, <1>1, <1>3, <1>4, <1>10 DEF Attempted, Working, Channel
        <3> QED BY <3>1, <3>2, <3>3, <1>4, <1>11
    <2> QED BY <2>2, <2>3
<1>17. JobOK'
    BY <1>1, <1>2, <1>3, <1>10 DEF JobOK, Working, Sending, Channel, Alertable, Holds
<1>18. CoverageOK'
    BY <1>1, <1>2, <1>3, <1>10 DEF CoverageOK, Working, Sending, Channel
<1>19. /\ alerts' \in [RecallId \X Owner -> Alert \cup {None}]
       /\ owners' \subseteq Owner
       /\ todo' \subseteq [owner : Owner, channels : SUBSET Channel]
    BY <1>1, <1>2 DEF TypeOK
<1>20. \A r \in RecallId, o \in Owner : alerts'[r, o] = alerts[r, o]
    BY <1>1
<1>21. pc \notin {"down", "poll"}
    BY <1>1 DEF Channel
<1> QED
    BY <1>1, <1>7, <1>8, <1>15, <1>16, <1>17, <1>18, <1>19, <1>20, <1>21, JobSteps

\* The alert at hand gets its outcome.
LEMMA CloseAlertKeeps ==
    ASSUME IInv, CloseAlert
    PROVE  IInv'
<1> DEFINE key == <<recallId, current.owner>>
           row == ClosedAlert(alerts[key])
<1>1. /\ pc = "close" /\ pc' = "next"
      /\ alerts' = [alerts EXCEPT ![key] = row]
      /\ UNCHANGED <<tables, indexed, receipts, prefs, notified, queue, owners, todo,
                     current, delivered, lastError, faults, crashes, sent, entitled>>
    BY DEF CloseAlert, tables, job, history
<1>2. TypeOK /\ JobOK /\ CoverageOK /\ SendsOK
    BY DEF IInv, SendsAreOnRecord
<1>3. recallId' = recallId /\ recallId \in RecallId
    BY <1>1, JobFacts DEF recallId
<1>4. /\ current.owner \in Owner /\ ~Waits(current.owner)
      /\ alerts[recallId, current.owner] # None
    BY <1>1, <1>2 DEF JobOK, Sending
<1>5. /\ alerts \in [RecallId \X Owner -> Alert \cup {None}]
      /\ delivered \in BOOLEAN /\ lastError \in BOOLEAN
    BY <1>2 DEF TypeOK
<1>6. alerts[key] \in Alert
    BY <1>3, <1>4, <1>5
<1>7. row \in Alert /\ row # None /\ row.status # "pending"
    <2>1. (IF delivered THEN "delivered" ELSE "failed") \in {"delivered", "failed"}
        OBVIOUS
    <2>2. (alerts[key].error \/ lastError) \in BOOLEAN
        BY Zenon
    <2>3. (IF delivered THEN "delivered" ELSE "failed") # "pending"
        OBVIOUS
    <2>4. /\ row.status = (IF delivered THEN "delivered" ELSE "failed")
          /\ row.sentAt = delivered
          /\ row.error = (alerts[key].error \/ lastError)
          /\ row = [status |-> row.status, sentAt |-> row.sentAt, error |-> row.error]
        BY Zenon DEF ClosedAlert
    <2>5. row \in Alert
        BY <2>1, <2>2, <2>4, <1>5 DEF Alert
    <2> HIDE DEF row
    <2> QED BY <2>3, <2>4, <2>5, ConstantsAssumption
<1>8. /\ alerts' \in [RecallId \X Owner -> Alert \cup {None}]
      /\ \A r \in RecallId, o \in Owner : <<r, o>> # key => alerts'[r, o] = alerts[r, o]
      /\ alerts'[recallId, current.owner] = row
    BY <1>1, <1>3, <1>4, <1>5, <1>7
<1>9. \A r \in RecallId, o \in Owner :
        /\ alerts[r, o] # None => alerts'[r, o] # None
        /\ alerts'[r, o] # None => alerts[r, o] # None \/ Alertable(o, r)
        /\ r # recallId => alerts'[r, o] = alerts[r, o]
    BY <1>4, <1>7, <1>8
<1>10. \A o : Waits(o)' = Waits(o)
    BY <1>1 DEF Waits
<1>11. \A r, o, c : Attempted(r, o, c) => Attempted(r, o, c)'
    BY <1>1, <1>3, <1>10 DEF Attempted, Working
<1>12. JobOK'
    BY <1>1, <1>2, <1>3, <1>10 DEF JobOK, Working, Sending, Alertable, Holds
<1>13. CoverageOK'
    <2> SUFFICES ASSUME NEW o \in Owner
                 PROVE  /\ <<recallId, o>> \in entitled => Waits(o) \/ alerts'[recallId, o] # None
                        /\ alerts'[recallId, o] # None /\ alerts'[recallId, o].status = "pending"
                            => Waits(o)
        BY <1>1, <1>3, <1>10 DEF CoverageOK
    <2>1. CASE o = current.owner
        BY <2>1, <1>7, <1>8
    <2>2. CASE o # current.owner
        <3>1. alerts'[recallId, o] = alerts[recallId, o]
            BY <2>2, <1>3, <1>8
        <3> QED BY <2>2, <3>1, <1>1, <1>2 DEF CoverageOK, Working
    <2> QED BY <2>1, <2>2
<1>14. /\ faults \in Nat /\ faults' = faults
       /\ sent' \in [RecallId \X Owner \X Channel -> Nat]
       /\ delivered' \in BOOLEAN /\ lastError' \in BOOLEAN
       /\ owners' \subseteq Owner
       /\ todo' \subseteq [owner : Owner, channels : SUBSET Channel]
    BY <1>1, <1>2 DEF SendsOK, TypeOK
<1>15. faults' \in Nat /\ faults <= faults'
    BY <1>14
<1> QED BY <1>1, <1>8, <1>9, <1>11, <1>12, <1>13, <1>14, <1>15, JobSteps

\* Sending by email, then by webhook, as the preferences say.
LEMMA DeliveriesKeep ==
    ASSUME IInv, SendEmail \/ SendWebhook
    PROVE  IInv'
<1>1. CASE SendEmail
    BY <1>1, SendKeeps DEF SendEmail, Channel
<1>2. CASE SendWebhook
    BY <1>2, SendKeeps DEF SendWebhook, Channel
<1> QED BY <1>1, <1>2

LEMMA Initial ==
    ASSUME Init
    PROVE  IInv
<1>1. /\ notified = {} /\ entitled = {} /\ faults = 0 /\ crashes = 0
      /\ sent = [k \in RecallId \X Owner \X Channel |-> 0]
      /\ alerts = [k \in RecallId \X Owner |-> None]
    BY DEF Init
<1>2. sent \in [RecallId \X Owner \X Channel -> Nat]
    BY <1>1
<1>3. \A r \in RecallId, o \in Owner, c \in Channel : sent[r, o, c] = 0
    BY <1>1
<1>4. \A r \in RecallId, o \in Owner : alerts[r, o] = None
    BY <1>1
<1>5. TypeOK
    <2>1. alerts \in [RecallId \X Owner -> Alert \cup {None}]
        BY <1>1
    <2>2. prefs \in [Owner -> SUBSET Channel]
        BY DEF Init
    <2>3. queue \in Seq(RecallId) /\ (pc \in {"down", "poll"} <=> queue = <<>>)
        BY DEF Init
    <2>4. notified \subseteq indexed /\ indexed \subseteq RecallId
        BY DEF Init
    <2>5. /\ receipts \subseteq Owner \X Unit /\ owners \subseteq Owner
          /\ todo \subseteq [owner : Owner, channels : SUBSET Channel]
          /\ delivered \in BOOLEAN /\ lastError \in BOOLEAN
        BY DEF Init
    <2>6. pc \in {"down", "poll", "recall", "preferences", "next", "email", "webhook",
                  "close"}
        BY DEF Init
    <2> QED BY <2>1, <2>2, <2>3, <2>4, <2>5, <2>6 DEF TypeOK
<1>6. SendsAreOnRecord
    <2>1. ~(0 > 0)
        OBVIOUS
    <2> QED BY <2>1, <1>3, <1>5, Zenon DEF SendsAreOnRecord
<1>7. NotifiedCoversEntitled
    BY <1>1 DEF NotifiedCoversEntitled
<1>8. ResendsBounded
    <2>1. 0 <= 1 + crashes + faults
        BY <1>1
    <2> QED BY <2>1, <1>3, Zenon DEF ResendsBounded
<1>9. QueueOK /\ JobOK /\ CoverageOK
    BY DEF Init, QueueOK, JobOK, CoverageOK, Working, Sending
<1>10. AlertsOK
    BY <1>1, <1>4 DEF AlertsOK
<1>11. SendsOK
    <2>1. faults \in Nat /\ crashes \in Nat /\ 0 <= crashes + faults
        BY <1>1
    <2> QED BY <2>1, <1>2, <1>3, Zenon DEF SendsOK
<1> QED BY <1>6, <1>7, <1>8, <1>9, <1>10, <1>11 DEF IInv

LEMMA Stuttering ==
    ASSUME IInv, UNCHANGED vars
    PROVE  IInv'
<1>1. UNCHANGED <<indexed, receipts, prefs, notified, alerts, pc, queue, owners, todo,
                  current, delivered, lastError, faults, crashes, sent, entitled>>
    BY DEF vars, tables, process, job, history
<1>2. /\ \A r, o : Alertable(o, r)' <=> Alertable(o, r)
      /\ \A r, o : Holds(o, r)' <=> Holds(o, r)
      /\ \A o : Waits(o)' <=> Waits(o)
      /\ recallId' = recallId
    BY <1>1 DEF Alertable, Holds, Waits, recallId
<1>3. \A r, o, c : Attempted(r, o, c)' <=> Attempted(r, o, c)
    BY <1>1, <1>2 DEF Attempted
<1>4. /\ TypeOK /\ SendsAreOnRecord /\ NotifiedCoversEntitled /\ ResendsBounded
      /\ QueueOK /\ JobOK /\ AlertsOK /\ CoverageOK /\ SendsOK
    BY DEF IInv, SendsAreOnRecord
<1>5. TypeOK'
    BY <1>1, <1>4 DEF TypeOK
<1>6. SendsAreOnRecord'
    BY <1>1, <1>2, <1>4, <1>5 DEF SendsAreOnRecord
<1>7. NotifiedCoversEntitled' /\ ResendsBounded' /\ QueueOK'
    BY <1>1, <1>4 DEF NotifiedCoversEntitled, ResendsBounded, QueueOK
<1>8. JobOK'
    BY <1>1, <1>2, <1>4 DEF JobOK
<1>9. AlertsOK'
    BY <1>1, <1>2, <1>4 DEF AlertsOK
<1>10. CoverageOK'
    BY <1>1, <1>2, <1>4 DEF CoverageOK
<1>11. SendsOK'
    BY <1>1, <1>3, <1>4 DEF SendsOK
<1> QED BY <1>6, <1>7, <1>8, <1>9, <1>10, <1>11 DEF IInv

-----------------------------------------------------------------------------
\* The inductive invariant holds of every behaviour of the notifier (notifier.ts)
\* and the writers of its tables, whatever fails.
THEOREM Invariant == Spec => []IInv
<1>1. Init => IInv
    BY Initial
<1>2. IInv /\ [Next]_vars => IInv'
    <2> SUFFICES ASSUME IInv, [Next]_vars
                 PROVE  IInv'
        OBVIOUS
    <2>1. CASE \E r \in RecallId : IndexRecall(r)
        BY <2>1, IndexRecallKeeps
    <2>2. CASE \E o \in Owner, u \in Unit : IndexReceipt(o, u)
        BY <2>2, IndexReceiptKeeps
    <2>3. CASE \E o \in Owner, channels \in SUBSET Channel : SavePreferences(o, channels)
        BY <2>3, SavePreferencesKeeps
    <2>4. CASE Start \/ pollOnce
        BY <2>4, StartKeeps
    <2>5. CASE ReadRecipients \/ ReadPreferences
        BY <2>5, ReadsKeep
    <2>6. CASE \E p \in todo : OpenAlert(p)
        BY <2>6, OpenAlertKeeps
    <2>7. CASE SendEmail \/ SendWebhook
        BY <2>7, DeliveriesKeep
    <2>8. CASE CloseAlert
        BY <2>8, CloseAlertKeeps
    <2>9. CASE MarkNotified
        BY <2>9, MarkNotifiedKeeps
    <2>10. CASE JobFails
        BY <2>10, JobFailsKeeps
    <2>11. CASE Crash
        BY <2>11, CrashKeeps
    <2>12. CASE UNCHANGED vars
        BY <2>12, Stuttering
    <2> QED BY <2>1, <2>2, <2>3, <2>4, <2>5, <2>6, <2>7, <2>8, <2>9, <2>10, <2>11,
               <2>12 DEF Next
<1> QED BY <1>1, <1>2, PTL DEF Spec

\* A recall marked notified has reached, with an outcome, everyone who was alertable
\* when it was indexed (notifier.ts processOne).
THEOREM NotifiedAlwaysCoversEntitled == Spec => []NotifiedCoversEntitled
<1>1. IInv => NotifiedCoversEntitled
    BY DEF IInv
<1> QED BY <1>1, Invariant, PTL

\* Repeats of a message are paid for by faults and crashes (notifier.ts: a job starts
\* over from its first owner).
THEOREM ResendsAlwaysBounded == Spec => []ResendsBounded
<1>1. IInv => ResendsBounded
    BY DEF IInv
<1> QED BY <1>1, Invariant, PTL

\* Whatever was sent has an alert row, and went to a holder of an affected unit who has
\* opted in (notifier.ts processOne).
THEOREM SendsAlwaysOnRecord == Spec => []SendsAreOnRecord
<1>1. IInv => SendsAreOnRecord
    BY DEF IInv
<1> QED BY <1>1, Invariant, PTL

\* A notified recall is finished with: no job takes it up again (notifier.ts pollOnce).
THEOREM NotifiedAlwaysFinal == Spec => NotifiedIsFinal
<1> DEFINE Final == \A r \in notified : \A o \in Owner :
                        /\ alerts'[r, o] = alerts[r, o]
                        /\ \A c \in Channel : sent'[r, o, c] = sent[r, o, c]
<1>1. IInv /\ [Next]_vars => [Final]_vars
    <2> SUFFICES ASSUME IInv, Next
                 PROVE  Final
        BY DEF vars
    <2>1. CASE \/ \E r \in RecallId : IndexRecall(r)
               \/ \E o \in Owner, u \in Unit : IndexReceipt(o, u)
               \/ \E o \in Owner, channels \in SUBSET Channel : SavePreferences(o, channels)
               \/ Start \/ pollOnce \/ ReadRecipients \/ ReadPreferences
               \/ MarkNotified \/ JobFails \/ Crash
        BY <2>1 DEF IndexRecall, IndexReceipt, SavePreferences, Start, pollOnce,
                    ReadRecipients, ReadPreferences, MarkNotified, JobFails, Crash, history
    <2>2. /\ notified \subseteq RecallId
          /\ alerts \in [RecallId \X Owner -> Alert \cup {None}]
          /\ sent \in [RecallId \X Owner \X Channel -> Nat]
        BY DEF IInv, SendsAreOnRecord, TypeOK, SendsOK
    <2>3. pc \notin {"down", "poll"} => recallId \notin notified
        BY JobFacts
    <2>4. CASE \E p \in todo : OpenAlert(p)
        BY <2>2, <2>3, <2>4 DEF OpenAlert, history
    <2>5. CASE SendEmail \/ SendWebhook
        <3>1. /\ alerts' = alerts /\ recallId \notin notified
              /\ \/ sent' = sent
                 \/ \E c \in Channel :
                        sent' = [sent EXCEPT ![<<recallId, current.owner, c>>] = @ + 1]
            BY <2>3, <2>5 DEF SendEmail, SendWebhook, Deliver, Accept, Channel
        <3> QED BY <2>2, <3>1
    <2>6. CASE CloseAlert
        BY <2>2, <2>3, <2>6 DEF CloseAlert, history
    <2> QED BY <2>1, <2>4, <2>5, <2>6 DEF Next
<1> QED BY <1>1, Invariant, PTL DEF Spec, NotifiedIsFinal

=============================================================================
