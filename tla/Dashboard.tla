------------------------------ MODULE Dashboard ------------------------------
(***************************************************************************)
(* The manufacturer's dashboard (frontend/src/app/dashboard/page.tsx) with *)
(* its batch and recall forms (components/dashboard) and the contract      *)
(* reads and writes behind them (lib/contract.ts).  A form is on the       *)
(* screen while its tab is chosen and nothing is being loaded; otherwise   *)
(* React drops it with its state, but not the submission it has started.   *)
(*                                                                         *)
(* The chain is external and does what Registry.tla says: a batch is taken *)
(* once and from a registered manufacturer, a recall from its batch's own, *)
(* as often as it is sent.  How one submission ends is in WalletClient.tla.*)
(* The user sends an operation until the page says that it is done.        *)
(***************************************************************************)
EXTENDS Integers, FiniteSets

CONSTANTS
    Account, Batch,
    MaxConnects, MaxLoads, MaxSubmissions, MaxFaults,   \* bounds
    None

ASSUME ConstantsAssumption ==
    /\ {MaxConnects, MaxLoads, MaxSubmissions, MaxFaults} \subseteq Nat
    /\ None \notin Account

VARIABLES
    \* the contract
    manufacturers,  \* the accounts that are manufacturers
    owner,          \* the account of each batch, or None
    recalls,        \* the recalls of each batch
    \* the page
    connecting,     \* calls of connectWallet not answered yet
    wallet,         \* the account connected, or None
    tab,
    manufacturerId, \* whose id is shown, or None
    batches,        \* the batches listed
    loading, loadError,
    loads,          \* calls of loadManufacturer in progress
    form,           \* the form on the screen: the submission it waits for, 0
                    \* for none, and the message it shows
    submissions,    \* in progress, of this form or of one that is gone
    connects, loaded, submitted, faults,
    \* history
    done,           \* the operations the page has said are done
    abandoned,      \* submissions whose form is gone
    reconnected     \* two wallet requests were open at once

chain == <<manufacturers, owner, recalls>>
page == <<connecting, wallet, tab, manufacturerId, batches, loading, loadError,
          loads>>
history == <<done, abandoned, reconnected>>
vars == <<chain, page, form, submissions, connects, loaded, submitted, faults,
          history>>

FreshForm == [submission |-> 0, shows |-> "none"]

\* The form on the screen goes, with what it was waiting for.
Unmount ==
    /\ form' = FreshForm
    /\ abandoned' = abandoned \cup ({form.submission} \ {0})

-----------------------------------------------------------------------------
(* The contract, by other hands *)

RegisterManufacturer(a) ==
    /\ a \notin manufacturers
    /\ manufacturers' = manufacturers \cup {a}
    /\ UNCHANGED <<owner, recalls, page, form, submissions, connects, loaded,
                   submitted, faults, history>>

RegisterBatchElsewhere(a, b) ==
    /\ a \in manufacturers /\ owner[b] = None
    /\ owner' = [owner EXCEPT ![b] = a]
    /\ UNCHANGED <<manufacturers, recalls, page, form, submissions, connects,
                   loaded, submitted, faults, history>>

\* The contract's read.  An id stands for the account it was given to.
get_manufacturer_id(a) == IF a \in manufacturers THEN a ELSE None

\* Planted bug for mutation: get_batches, that is, everybody's.
get_batches(a) == {b \in Batch : owner[b] # None}

get_batches_for_manufacturer(a) == {b \in Batch : owner[b] = a}

-----------------------------------------------------------------------------
(* The wallet, and what is loaded when it changes *)

\* Planted bug for mutation: a connected wallet can be exchanged.
ConnectableAlways == TRUE

\* The button is there while no wallet is connected.
Connectable == wallet = None

handleConnect ==
    /\ Connectable /\ connects < MaxConnects
    /\ connecting' = connecting + 1
    /\ connects' = connects + 1
    /\ reconnected' = (reconnected \/ connecting > 0)
    /\ UNCHANGED <<chain, wallet, tab, manufacturerId, batches, loading,
                   loadError, loads, form, submissions, loaded, submitted,
                   faults, done, abandoned>>

\* loadManufacturer starts; the tabs make way for a spinner.
StartLoad(a) ==
    /\ loaded < MaxLoads
    /\ loaded' = loaded + 1
    /\ loads' = loads \cup
        {[n |-> loaded + 1, account |-> a, id |-> {}, batches |-> {}]}
    /\ loading' = TRUE /\ loadError' = FALSE
    /\ Unmount

\* Freighter gives the account it has chosen, or refuses.  An account that was
\* not the page's is loaded by the effect.
Connected(a) ==
    /\ connecting > 0
    /\ connecting' = connecting - 1
    /\ wallet' = a
    /\ IF a \notin {wallet, None}
       THEN StartLoad(a)
       ELSE /\ IF a = None THEN Unmount ELSE UNCHANGED <<form, abandoned>>
            /\ UNCHANGED <<loading, loadError, loads, loaded>>
    /\ UNCHANGED <<chain, tab, manufacturerId, batches, submissions, connects,
                   submitted, faults, done, reconnected>>

\* Planted bug for mutation: the button stays enabled while loading.
RefreshableAlways == wallet # None

Refreshable == wallet # None /\ ~loading

Refresh ==
    /\ Refreshable
    /\ StartLoad(wallet)
    /\ UNCHANGED <<chain, connecting, wallet, tab, manufacturerId, batches,
                   submissions, connects, submitted, faults, done, reconnected>>

Reading(l, change) ==
    /\ loads' = (loads \ {l}) \cup {change}
    /\ UNCHANGED <<chain, connecting, wallet, tab, manufacturerId, batches,
                   loading, loadError, form, submissions, connects, loaded,
                   submitted, faults, history>>

\* The two simulated reads answer one after the other; the field holds the
\* answer once it is there.
ReadId(l) ==
    /\ l.id = {}
    /\ Reading(l, [l EXCEPT !.id = {get_manufacturer_id(l.account)}])

ReadBatches(l) ==
    /\ l.batches = {}
    /\ Reading(l, [l EXCEPT !.batches =
                                {get_batches_for_manufacturer(l.account)}])

EndLoad(l) ==
    /\ loads' = loads \ {l}
    /\ loading' = FALSE
    /\ UNCHANGED <<chain, connecting, wallet, tab, form, submissions, connects,
                   loaded, submitted, history>>

Loaded(l) ==
    /\ l.id # {} /\ l.batches # {}
    /\ manufacturerId' \in l.id
    /\ batches' \in l.batches
    /\ EndLoad(l)
    /\ UNCHANGED <<loadError, faults>>

\* One of the reads fails; the other is not waited for.
LoadFails(l) ==
    /\ faults < MaxFaults
    /\ faults' = faults + 1
    /\ loadError' = TRUE
    /\ EndLoad(l)
    /\ UNCHANGED <<manufacturerId, batches>>

-----------------------------------------------------------------------------
(* Tabs and forms *)

SwitchTab(t) ==
    /\ wallet # None /\ t # tab
    /\ tab' = t
    /\ Unmount
    /\ UNCHANGED <<chain, connecting, wallet, manufacturerId, batches, loading,
                   loadError, loads, submissions, connects, loaded, submitted,
                   faults, done, reconnected>>

Mounted(kind) == wallet # None /\ ~loading /\ tab = kind

\* The batch of a new batch is the user's choice, that of a recall is one of
\* the list.
Offered(kind) == IF kind = "recall" THEN batches ELSE Batch

\* Planted bug for mutation: the button stays enabled while a submission is
\* under way.
IdleAlways == TRUE

Idle == form.submission = 0

\* handleSubmit of RegisterBatchForm and of IssueRecallForm.
handleSubmit(kind, b) ==
    /\ Mounted(kind) /\ Idle /\ b \in Offered(kind)
    /\ <<kind, b>> \notin done
    /\ submitted < MaxSubmissions
    /\ submitted' = submitted + 1
    /\ submissions' = submissions \cup
        {[n |-> submitted + 1, kind |-> kind, batch |-> b, account |-> wallet,
          status |-> "sent"]}
    /\ form' = [submission |-> submitted + 1, shows |-> "none"]
    /\ UNCHANGED <<chain, page, connects, loaded, faults, history>>

\* Whether the contract takes it.
Acceptable(s) ==
    IF s.kind = "recall" THEN owner[s.batch] = s.account
    ELSE s.account \in manufacturers /\ owner[s.batch] = None

Becomes(s, status) ==
    submissions' = (submissions \ {s}) \cup {[s EXCEPT !.status = status]}

Applied(s) ==
    /\ s.status = "sent" /\ Acceptable(s)
    /\ Becomes(s, "applied")
    /\ IF s.kind = "recall"
       THEN /\ recalls' = [recalls EXCEPT ![s.batch] = @ \cup {s.n}]
            /\ UNCHANGED owner
       ELSE /\ owner' = [owner EXCEPT ![s.batch] = s.account]
            /\ UNCHANGED recalls
    /\ UNCHANGED <<manufacturers, page, form, connects, loaded, submitted,
                   faults, history>>

\* It is refused, or expires, or is not signed.
Refused(s) ==
    /\ s.status = "sent"
    /\ Becomes(s, "refused")
    /\ UNCHANGED <<chain, page, form, connects, loaded, submitted, faults,
                   history>>

Message(s) == IF s.status = "applied" THEN "success" ELSE "error"

\* The answer reaches the form, if it is still there.
Show(s, message) ==
    IF form.submission = s.n
    THEN /\ form' = [submission |-> 0, shows |-> message]
         /\ done' = done \cup {x \in {<<s.kind, s.batch>>} : message = "success"}
    ELSE UNCHANGED <<form, done>>

Report(s) ==
    /\ s.status # "sent"
    /\ submissions' = submissions \ {s}
    /\ Show(s, Message(s))
    /\ UNCHANGED <<chain, page, connects, loaded, submitted, faults, abandoned,
                   reconnected>>

\* The answer is lost: the form shows an error, whatever becomes of it.
AnswerLost(s) ==
    /\ form.submission = s.n
    /\ faults < MaxFaults
    /\ faults' = faults + 1
    /\ Show(s, "error")
    /\ UNCHANGED <<chain, page, submissions, connects, loaded, submitted,
                   abandoned, reconnected>>

-----------------------------------------------------------------------------
Tab == {"batches", "register", "recall", "analytics"}

Init ==
    /\ manufacturers = {}
    /\ owner = [b \in Batch |-> None]
    /\ recalls = [b \in Batch |-> {}]
    /\ connecting = 0 /\ wallet = None
    /\ tab = "batches"
    /\ manufacturerId = None /\ batches = {}
    /\ loading = FALSE /\ loadError = FALSE /\ loads = {}
    /\ form = FreshForm /\ submissions = {}
    /\ connects = 0 /\ loaded = 0 /\ submitted = 0 /\ faults = 0
    /\ done = {} /\ abandoned = {} /\ reconnected = FALSE

Next ==
    \/ \E a \in Account : RegisterManufacturer(a)
    \/ \E a \in Account, b \in Batch : RegisterBatchElsewhere(a, b)
    \/ handleConnect
    \/ \E a \in Account \cup {None} : Connected(a)
    \/ Refresh
    \/ \E l \in loads : ReadId(l)
    \/ \E l \in loads : ReadBatches(l)
    \/ \E l \in loads : Loaded(l)
    \/ \E l \in loads : LoadFails(l)
    \/ \E t \in Tab : SwitchTab(t)
    \/ \E kind \in {"register", "recall"}, b \in Batch : handleSubmit(kind, b)
    \/ \E s \in submissions : Applied(s)
    \/ \E s \in submissions : Refused(s)
    \/ \E s \in submissions : Report(s)
    \/ \E s \in submissions : AnswerLost(s)

Spec == Init /\ [][Next]_vars

-----------------------------------------------------------------------------
(* Properties *)

Load == [n : 1..MaxLoads, account : Account,
         id : SUBSET (Account \cup {None}), batches : SUBSET SUBSET Batch]

Submission == [n : 1..MaxSubmissions, kind : {"register", "recall"},
               batch : Batch, account : Account,
               status : {"sent", "applied", "refused"}]

\* Types of the contract's and the page's state; a form waits only while it is
\* on the screen.
TypeOK ==
    /\ manufacturers \subseteq Account
    /\ owner \in [Batch -> Account \cup {None}]
    /\ recalls \in [Batch -> SUBSET (1..submitted)]
    /\ connecting \in Nat
    /\ wallet \in Account \cup {None} /\ tab \in Tab
    /\ manufacturerId \in Account \cup {None} /\ batches \subseteq Batch
    /\ loading \in BOOLEAN /\ loadError \in BOOLEAN /\ loads \subseteq Load
    /\ form \in [submission : 0..submitted,
                 shows : {"none", "success", "error"}]
    /\ form.submission # 0 => \E kind \in {"register", "recall"} : Mounted(kind)
    /\ submissions \subseteq Submission
    /\ {connects, loaded, submitted, faults} \subseteq Nat
    /\ done \subseteq {"register", "recall"} \X Batch
    /\ abandoned \subseteq 1..submitted /\ reconnected \in BOOLEAN

\* The id and the batches under an address are that address's, unless two
\* wallet requests were open at once: nothing else ever changes the account
\* under a load (page.tsx handleConnect, loadManufacturer).
ShownIsOfWallet ==
    wallet # None /\ ~reconnected =>
        /\ manufacturerId # None =>
            manufacturerId = wallet /\ wallet \in manufacturers
        /\ \A b \in batches : owner[b] = wallet

\* A batch once listed stays listed, and an id once shown stays shown, because
\* loads do not overlap: an older answer never replaces a newer one (page.tsx,
\* the disabled attribute of Refresh).
ListNeverShrinks ==
    [][~reconnected' =>
        /\ batches \subseteq batches'
        /\ manufacturerId # None => manufacturerId' = manufacturerId]_vars

\* A recall is issued again only if the form was taken away from the screen
\* while it was being submitted, by Refresh or another tab, or its answer was
\* lost; each of those is worth one repetition (issue-recall-form.tsx, whose
\* state goes with it).
RepeatsNeedALostForm ==
    \A b \in Batch :
        Cardinality(recalls[b]) <= 1 + Cardinality(abandoned) + faults

\* Types apart, success is shown of an operation that the contract has taken, and
\* the contract never refuses a recall for its batch being somebody else's, though
\* the list may be old (issue-recall-form.tsx, batches).
RecallsNameOwnBatches ==
    /\ TypeOK
    /\ \A x \in done :
        IF x[1] = "recall" THEN recalls[x[2]] # {} ELSE owner[x[2]] # None
    /\ \A s \in submissions :
        s.kind = "recall" /\ ~reconnected => owner[s.batch] = s.account

-----------------------------------------------------------------------------
(* The inductive invariant *)

\* Until two wallet requests were open at once, one load at a time is for the
\* account connected, and what it has read so far is that account's and
\* includes what is shown.
LoadsAreOfWallet ==
    ~reconnected =>
        /\ connecting \in {0, 1} /\ (wallet # None => connecting = 0)
        /\ wallet = None => loads = {} /\ manufacturerId = None /\ batches = {}
        /\ loads # {} => loading
        /\ \A l \in loads :
            /\ \A k \in loads : k = l
            /\ l.account = wallet
            /\ \A id \in l.id : /\ id # None => id = wallet /\ id \in manufacturers
                                /\ manufacturerId # None => id = manufacturerId
            /\ \A list \in l.batches : /\ \A b \in list : owner[b] = wallet
                                       /\ batches \subseteq list

\* A submission is one operation, done at most once, and the form waits for one
\* of an operation that is not known to be done.
SubmissionsOK ==
    /\ \A s \in submissions :
        /\ s.n <= submitted
        /\ \A t \in submissions : t.n = s.n => t = s
        /\ \A b \in Batch :
            s.n \in recalls[b] <=>
                s.kind = "recall" /\ s.batch = b /\ s.status = "applied"
        /\ s.kind = "register" /\ s.status = "applied" => owner[s.batch] # None
    /\ form.submission # 0 =>
        \E s \in submissions : s.n = form.submission /\ <<s.kind, s.batch>> \notin done

\* The recalls of b that were issued or may yet be.
Underway(b) ==
    recalls[b] \cup {s.n : s \in {t \in submissions :
                        t.kind = "recall" /\ t.batch = b /\ t.status = "sent"}}

\* Those whose form neither waits for them nor was taken away with them: the answer
\* was lost, but for one if the page has said that the recall is issued.
RepeatsAccountedFor ==
    \A b \in Batch :
        Cardinality(Underway(b) \ (abandoned \cup {form.submission}))
            <= faults + (IF <<"recall", b>> \in done THEN 1 ELSE 0)

\* What keeps ShownIsOfWallet, RepeatsNeedALostForm and RecallsNameOwnBatches.
IInv ==
    /\ TypeOK /\ LoadsAreOfWallet /\ ShownIsOfWallet
    /\ SubmissionsOK /\ RecallsNameOwnBatches /\ RepeatsAccountedFor

=============================================================================
