--------------------------- MODULE AlertPreferences ---------------------------
(***************************************************************************)
(* Recall-alert preferences, from the purchase page                        *)
(* (frontend/src/components/register-purchase.tsx, lib/wallet.ts) to the   *)
(* table (backend/src/routes/alertPreferences.ts, services/alertService.ts)*)
(* One page; its wallet extension may change account or decline at any     *)
(* time, and answers of the API may be lost.                               *)
(*                                                                         *)
(* The page never learns the stored address: it gets a mask of it, and puts*)
(* the mask in the field it saves from.                                    *)
(***************************************************************************)
EXTENDS Integers

CONSTANTS
    Account, Email, Hook,
    MaxConnects, MaxSaves, MaxFaults,   \* bounds
    None,
    NoKey       \* the empty address of a wallet that grants no access

ASSUME ConstantsAssumption ==
    /\ {MaxConnects, MaxSaves, MaxFaults} \subseteq Nat
    /\ None \notin Account \cup Email \cup Hook /\ NoKey \notin Account
    /\ None # NoKey

VARIABLES
    active,     \* the extension's account
    rows,       \* alert_preferences: owner -> [email, webhookUrl], or None
    \* the page
    wallet,     \* the page's account; None when not connected, or NoKey
    checking,   \* the check on mount: "reading", its answer, or "done"
    connecting, \* calls of connectWallet not answered yet
    fetches,    \* calls of getAlertPreferences in progress
    email, webhookUrl,  \* the fields
    save,       \* the number of the save in progress, or 0
    prefsMessage,       \* "none", "saved" or "error"
    posts,      \* saves on their way: to the wallet, the API or back
    connects, saves, faults,
    \* history
    writer,     \* owner -> the save that wrote its row, or 0
    reported,   \* owner -> the last save reported to be stored, or 0
    lost        \* saves whose answer was lost

page == <<wallet, checking, connecting, fetches, email, webhookUrl>>
saving == <<save, prefsMessage, posts>>
counters == <<connects, saves, faults>>
history == <<writer, reported, lost>>
vars == <<active, rows, page, saving, counters, history>>

-----------------------------------------------------------------------------
(* The wallet and the fields *)

SwitchAccount(a) ==
    /\ active' = a
    /\ UNCHANGED <<rows, page, saving, counters, history>>

\* checkWallet, on mount: no extension, an extension that has not granted
\* access, or its account.
CheckReads ==
    /\ checking = "reading"
    /\ checking' \in {None, NoKey, active}
    /\ UNCHANGED <<active, rows, wallet, connecting, fetches, email, webhookUrl,
                   saving, counters, history>>

\* Its answer replaces whatever the page has; nothing is fetched for it.
CheckDelivers ==
    /\ checking \notin {"reading", "done"}
    /\ wallet' = checking
    /\ checking' = "done"
    /\ UNCHANGED <<active, rows, connecting, fetches, email, webhookUrl, saving,
                   counters, history>>

handleConnect ==
    /\ wallet = None
    /\ connects < MaxConnects
    /\ connects' = connects + 1
    /\ connecting' = connecting + 1
    /\ UNCHANGED <<active, rows, wallet, checking, fetches, email, webhookUrl,
                   saving, saves, faults, history>>

\* connectWallet answers: access to the account, whose preferences are fetched,
\* or not.
Connected ==
    /\ connecting > 0
    /\ connecting' = connecting - 1
    /\ \/ /\ wallet' = active
          /\ fetches' = fetches \cup
                {[n |-> connects - connecting, owner |-> active, answer |-> {}]}
       \/ wallet' = None /\ UNCHANGED fetches
    /\ UNCHANGED <<active, rows, checking, email, webhookUrl, saving, counters,
                   history>>

\* What may be typed; the page trims it, and takes empty for none.
Type ==
    /\ \/ email' \in Email \cup {None} /\ UNCHANGED webhookUrl
       \/ webhookUrl' \in Hook \cup {None} /\ UNCHANGED email
    /\ UNCHANGED <<active, rows, wallet, checking, connecting, fetches, saving,
                   counters, history>>

\* Some letters of the address are starred.
maskEmail(e) == IF e = None THEN None ELSE [masked |-> e]

IsMask(e) == e \in {maskEmail(x) : x \in Email}

\* GET /api/alert-preferences/:owner.
GetPreferences(f) ==
    /\ f.answer = {}
    /\ fetches' = (fetches \ {f}) \cup
        {[f EXCEPT !.answer =
            {IF rows[f.owner] = None THEN None
                                     ELSE maskEmail(rows[f.owner].email)}]}
    /\ UNCHANGED <<active, rows, wallet, checking, connecting, email, webhookUrl,
                   saving, counters, history>>

\* The answer fills the form, over what was typed meanwhile; the webhook it
\* does not have.
Prefill(f) ==
    /\ email' \in f.answer
    /\ webhookUrl' = None
    /\ fetches' = fetches \ {f}
    /\ UNCHANGED <<active, rows, wallet, checking, connecting, saving, counters,
                   history>>

\* The fetch failed, which the page does not mind.
FetchFails(f) ==
    /\ faults < MaxFaults
    /\ faults' = faults + 1
    /\ fetches' = fetches \ {f}
    /\ UNCHANGED <<active, rows, wallet, checking, connecting, email, webhookUrl,
                   saving, connects, saves, history>>

-----------------------------------------------------------------------------
(* handleSavePrefs *)

\* Planted bug for mutation: the button stays enabled while saving.
SavableAlways == wallet \in Account /\ {email, webhookUrl} # {None}

Savable == save = 0 /\ wallet \in Account /\ {email, webhookUrl} # {None}

handleSavePrefs ==
    /\ Savable
    /\ saves < MaxSaves
    /\ saves' = saves + 1
    /\ save' = saves + 1
    /\ prefsMessage' = "none"
    /\ posts' = posts \cup
        {[n |-> saves + 1, at |-> "wallet", owner |-> wallet, email |-> email,
          webhookUrl |-> webhookUrl, signer |-> None]}
    /\ UNCHANGED <<active, rows, page, connects, faults, history>>

Moves(p, change) ==
    posts' = (posts \ {p}) \cup
        {[f \in DOMAIN p |-> IF f \in DOMAIN change THEN change[f] ELSE p[f]]}

\* The wallet signs, with the account it has then.
signAlertPrefsMessage(p) ==
    /\ p.at = "wallet"
    /\ Moves(p, [at |-> "api", signer |-> active])
    /\ UNCHANGED <<active, rows, page, save, prefsMessage, counters, history>>

\* The save ends for the page, with a message.
Ends(p, message) ==
    IF save = p.n THEN save' = 0 /\ prefsMessage' = message
                  ELSE UNCHANGED <<save, prefsMessage>>

\* It declines, or has another account than it was asked for.
SigningFails(p) ==
    /\ p.at = "wallet"
    /\ posts' = posts \ {p}
    /\ Ends(p, "error")
    /\ UNCHANGED <<active, rows, page, counters, history>>

\* Planted bug for mutation: any string is an address.
WellFormedAny(p) == {p.email, p.webhookUrl} # {None}

\* upsertSchema: a star is no part of an e-mail address.
WellFormed(p) == {p.email, p.webhookUrl} # {None} /\ ~IsMask(p.email)

\* Planted bug for mutation: that there is a signature is enough.
verifyMessageSignatureAny(p) == p.signer # None

\* The signature is over these values, by the owner's key.
verifyMessageSignature(p) == p.signer = p.owner

\* POST /api/alert-preferences: both columns are written, the one left out too.
PostPreferences(p) ==
    /\ p.at = "api"
    /\ \/ /\ WellFormed(p) /\ verifyMessageSignature(p)
          /\ rows' = [rows EXCEPT ![p.owner] =
                        [email |-> p.email, webhookUrl |-> p.webhookUrl]]
          /\ writer' = [writer EXCEPT ![p.owner] = p.n]
          /\ Moves(p, [at |-> "stored"])
       \/ /\ ~(WellFormed(p) /\ verifyMessageSignature(p))
          /\ Moves(p, [at |-> "rejected"])
          /\ UNCHANGED <<rows, writer>>
    /\ UNCHANGED <<active, page, save, prefsMessage, counters, reported, lost>>

Message(p) == IF p.at = "stored" THEN "saved" ELSE "error"

Answer(p) ==
    /\ p.at \in {"stored", "rejected"}
    /\ posts' = posts \ {p}
    /\ Ends(p, Message(p))
    /\ reported' = IF p.at = "stored" /\ p.n > reported[p.owner]
                   THEN [reported EXCEPT ![p.owner] = p.n] ELSE reported
    /\ UNCHANGED <<active, rows, page, counters, writer, lost>>

\* The page hears that the request failed, whose fate is open.
AnswerLost(p) ==
    /\ p.at \in {"api", "stored", "rejected"} /\ p.n \notin lost
    /\ faults < MaxFaults
    /\ faults' = faults + 1
    /\ lost' = lost \cup {p.n}
    /\ posts' = IF p.at = "api" THEN posts ELSE posts \ {p}
    /\ Ends(p, "error")
    /\ UNCHANGED <<active, rows, page, connects, saves, writer, reported>>

-----------------------------------------------------------------------------
Init ==
    /\ active \in Account
    /\ rows = [o \in Account |-> None]
    /\ wallet = None /\ checking = "reading" /\ connecting = 0
    /\ fetches = {}
    /\ email = None /\ webhookUrl = None
    /\ save = 0 /\ prefsMessage = "none" /\ posts = {}
    /\ connects = 0 /\ saves = 0 /\ faults = 0
    /\ writer = [o \in Account |-> 0] /\ reported = [o \in Account |-> 0]
    /\ lost = {}

Next ==
    \/ \E a \in Account : SwitchAccount(a)
    \/ CheckReads
    \/ CheckDelivers
    \/ handleConnect
    \/ Connected
    \/ Type
    \/ \E f \in fetches : GetPreferences(f) \/ Prefill(f) \/ FetchFails(f)
    \/ handleSavePrefs
    \/ \E p \in posts :
        \/ signAlertPrefsMessage(p)
        \/ SigningFails(p)
        \/ PostPreferences(p)
        \/ Answer(p)
        \/ AnswerLost(p)

Spec == Init /\ [][Next]_vars

-----------------------------------------------------------------------------
(* Properties *)

Masks == {maskEmail(e) : e \in Email}

\* Types of the table and of the page.
TypeOK ==
    /\ \A o \in Account : rows[o] = None \/
        rows[o] \in [email : Email \cup Masks \cup {None},
                     webhookUrl : Hook \cup {None}]
    /\ wallet \in Account \cup {None, NoKey}
    /\ email \in Email \cup Masks \cup {None}
    /\ webhookUrl \in Hook \cup {None}
    /\ prefsMessage \in {"none", "saved", "error"}
    /\ \A p \in posts : p.at \in {"wallet", "api", "stored", "rejected"}

\* Alerts always have somewhere to go: a row has a channel, and its address is
\* one that was typed, never the mask the page filled in and saved back
\* (register-purchase.tsx:51, refused by the schema of alertPreferences.ts).
MaskNeverStored ==
    /\ TypeOK
    /\ \A o \in Account : rows[o] # None =>
        /\ rows[o].email \in Email \cup {None}
        /\ rows[o].email # None \/ rows[o].webhookUrl # None

\* docs/SECURITY.md: "Only the address that signs can set or change its own
\* preferences", though the wallet may sign with an account other than the one
\* the page has.
OnlyOwnerWrites ==
    [][\A o \in Account : rows'[o] # rows[o] =>
        \E p \in posts : p.owner = o /\ p.signer = o]_vars

\* The preferences on record are those of the last save that was reported as
\* saved, or of a later one: a save overtaken by its successor comes back only
\* if its answer was lost, since nothing orders the requests at the API
\* (register-purchase.tsx handleSavePrefs; a signed message has no counter).
LastSaveStands ==
    \A o \in Account :
        writer[o] >= reported[o] \/ writer[o] \in lost

Post == [n : 1..saves, at : {"wallet", "api", "stored", "rejected"},
         owner : Account, email : Email \cup Masks \cup {None},
         webhookUrl : Hook \cup {None}, signer : Account \cup {None}]

PageOK ==
    /\ rows = [o \in Account |-> rows[o]]
    /\ active \in Account
    /\ checking \in Account \cup {"reading", "done", None, NoKey}
    /\ \A f \in fetches : f.owner \in Account /\ f.answer \subseteq Masks \cup {None}
    /\ saves \in Nat /\ posts \subseteq Post
    /\ writer \in [Account -> 0..saves] /\ reported \in [Account -> 0..saves]

\* A save not reported lost is the page's current one, which is the last; and what is
\* on its way back as stored is on record, or was overwritten by a save that is
\* later or was lost.
OneSaveAtATime ==
    /\ save \in {0, saves}
    /\ \A p, q \in posts : p.n = q.n => p = q
    /\ \A p \in posts : p.n = save \/ p.n \in lost
    /\ \A p \in posts :
        p.at = "stored" =>
            writer[p.owner] >= p.n \/ writer[p.owner] \in lost

\* The inductive invariant of the page, its saves and the table.
IInv ==
    /\ MaskNeverStored
    /\ PageOK
    /\ OneSaveAtATime
    /\ LastSaveStands

=============================================================================
