------------------------ MODULE AlertPreferencesProofs ------------------------
(***************************************************************************)
(* Theorems about the recall-alert preferences, for any accounts, addresses*)
(* and numbers of saves, connections and faults.                           *)
(***************************************************************************)
EXTENDS AlertPreferences, TLAPS

-----------------------------------------------------------------------------
(* Operators *)

\* The mask of an address that may be absent is a mask or absent.
LEMMA MaskType ==
    ASSUME NEW e \in Email \cup {None}
    PROVE  maskEmail(e) \in Masks \cup {None}
BY DEF maskEmail, Masks

\* What the schema lets through is no mask.
LEMMA WellFormedTyped ==
    ASSUME NEW p \in Post, WellFormed(p)
    PROVE  /\ p.email \in Email \cup {None}
           /\ p.email # None \/ p.webhookUrl # None
BY DEF WellFormed, IsMask, Post, Masks

\* A save that moves on stays the same save.
LEMMA MovesOn ==
    ASSUME NEW p \in Post, NEW at \in {"api", "stored", "rejected"},
           Moves(p, [at |-> at])
    PROVE  \E r \in Post :
            /\ posts' = (posts \ {p}) \cup {r}
            /\ r.n = p.n /\ r.owner = p.owner /\ r.at = at
<1> DEFINE change == [at |-> at]
           r == [f \in DOMAIN p |-> IF f \in DOMAIN change THEN change[f] ELSE p[f]]
<1>1. r = [p EXCEPT !.at = at]
    BY DEF Post
<1>2. r \in Post /\ r.n = p.n /\ r.owner = p.owner /\ r.at = at
    BY <1>1 DEF Post
<1>3. posts' = (posts \ {p}) \cup {r}
    BY DEF Moves
<1> QED BY <1>2, <1>3

\* A save that is signed stays the same save.
LEMMA MovesSigned ==
    ASSUME NEW p \in Post, NEW a \in Account, Moves(p, [at |-> "api", signer |-> a])
    PROVE  \E r \in Post :
            /\ posts' = (posts \ {p}) \cup {r}
            /\ r.n = p.n /\ r.owner = p.owner /\ r.at = "api"
<1> DEFINE change == [at |-> "api", signer |-> a]
           r == [f \in DOMAIN p |-> IF f \in DOMAIN change THEN change[f] ELSE p[f]]
<1>1. r = [n |-> p.n, at |-> "api", owner |-> p.owner, email |-> p.email,
           webhookUrl |-> p.webhookUrl, signer |-> a]
    BY DEF Post
<1>2. r \in Post /\ r.n = p.n /\ r.owner = p.owner /\ r.at = "api"
    BY <1>1 DEF Post
<1>3. posts' = (posts \ {p}) \cup {r}
    BY DEF Moves
<1> QED BY <1>2, <1>3

-----------------------------------------------------------------------------
(* The page *)

\* What the steps of the page other than saving leave alone.
otherVars == <<rows, save, posts, saves, writer, reported, lost>>

\* The steps that only fill the form keep the invariant.
LEMMA FillingKeeps ==
    ASSUME IInv, UNCHANGED otherVars, prefsMessage' = prefsMessage,
           active' \in Account,
           wallet' \in Account \cup {None, NoKey},
           checking' \in Account \cup {"reading", "done", None, NoKey},
           \A f \in fetches' :
                f.owner \in Account /\ f.answer \subseteq Masks \cup {None},
           email' \in Email \cup Masks \cup {None},
           webhookUrl' \in Hook \cup {None}
    PROVE  IInv'
<1>1. Post' = Post
    BY DEF otherVars, Post
<1> QED BY <1>1 DEF otherVars, IInv, MaskNeverStored, TypeOK, PageOK,
                    OneSaveAtATime, LastSaveStands

\* The table's answer to a read is a mask.
LEMMA GetPreferencesKeeps ==
    ASSUME IInv, NEW f \in fetches, GetPreferences(f)
    PROVE  IInv'
<1> DEFINE a == IF rows[f.owner] = None THEN None
                                        ELSE maskEmail(rows[f.owner].email)
           g == [f EXCEPT !.answer = {a}]
<1>1. /\ fetches' = (fetches \ {f}) \cup {g}
      /\ UNCHANGED <<active, wallet, checking, email, webhookUrl, prefsMessage>>
      /\ UNCHANGED otherVars
    BY DEF GetPreferences, saving, counters, history, otherVars
<1>2. f.owner \in Account
    BY DEF IInv, PageOK
<1>3. a \in Masks \cup {None}
    BY <1>2, MaskType DEF IInv, MaskNeverStored
<1>4. \A x \in fetches' :
            x.owner \in Account /\ x.answer \subseteq Masks \cup {None}
    <2>1. g.owner = f.owner /\ g.answer \subseteq {a}
        OBVIOUS
    <2> HIDE DEF a, g
    <2> QED BY <1>1, <1>2, <1>3, <2>1 DEF IInv, PageOK
<1> QED BY <1>1, <1>4, FillingKeeps DEF IInv, MaskNeverStored, TypeOK, PageOK

\* The other steps that fill the form.
LEMMA PageKeeps ==
    ASSUME IInv,
           \/ \E a \in Account : SwitchAccount(a)
           \/ CheckReads \/ CheckDelivers \/ handleConnect \/ Connected \/ Type
           \/ \E f \in fetches : Prefill(f) \/ FetchFails(f)
    PROVE  IInv'
<1> USE DEF saving, counters, history, otherVars
<1>1. /\ active \in Account
      /\ wallet \in Account \cup {None, NoKey}
      /\ checking \in Account \cup {"reading", "done", None, NoKey}
      /\ \A f \in fetches :
            f.owner \in Account /\ f.answer \subseteq Masks \cup {None}
      /\ email \in Email \cup Masks \cup {None}
      /\ webhookUrl \in Hook \cup {None}
    BY DEF IInv, MaskNeverStored, TypeOK, PageOK
<1>2. CASE \E a \in Account : SwitchAccount(a)
    BY <1>1, <1>2, FillingKeeps DEF SwitchAccount, page
<1>3. CASE CheckReads
    BY <1>1, <1>3, FillingKeeps DEF CheckReads
<1>4. CASE CheckDelivers
    BY <1>1, <1>4, FillingKeeps DEF CheckDelivers
<1>5. CASE handleConnect
    BY <1>1, <1>5, FillingKeeps DEF handleConnect
<1>6. CASE Connected
    <2>1. /\ UNCHANGED <<active, checking, email, webhookUrl, prefsMessage>>
          /\ UNCHANGED otherVars
          /\ wallet' \in {active, None}
        BY <1>6 DEF Connected
    <2>2. \A f \in fetches' :
            f.owner \in Account /\ f.answer \subseteq Masks \cup {None}
        BY <1>1, <1>6 DEF Connected
    <2> QED BY <1>1, <2>1, <2>2, FillingKeeps
<1>7. CASE Type
    BY <1>1, <1>7, FillingKeeps DEF Type
<1>8. CASE \E f \in fetches : Prefill(f)
    BY <1>1, <1>8, FillingKeeps DEF Prefill
<1>9. CASE \E f \in fetches : FetchFails(f)
    BY <1>1, <1>9, FillingKeeps DEF FetchFails
<1> QED BY <1>2, <1>3, <1>4, <1>5, <1>6, <1>7, <1>8, <1>9

-----------------------------------------------------------------------------
(* Saves *)

\* A save is made only when none that could still be reported is on its way.
LEMMA HandleSavePrefsKeeps ==
    ASSUME IInv, handleSavePrefs
    PROVE  IInv'
<1> DEFINE p == [n |-> saves + 1, at |-> "wallet", owner |-> wallet,
                 email |-> email, webhookUrl |-> webhookUrl, signer |-> None]
<1>1. /\ save = 0 /\ wallet \in Account
      /\ saves' = saves + 1 /\ save' = saves + 1 /\ prefsMessage' = "none"
      /\ posts' = posts \cup {p}
      /\ UNCHANGED <<active, rows, wallet, checking, fetches, email, webhookUrl,
                     writer, reported, lost>>
    BY DEF handleSavePrefs, Savable, page, history
<1>2. saves \in Nat /\ \A q \in posts : q.n \in 1..saves
    BY DEF IInv, PageOK, Post
<1>3. posts \subseteq Post'
    <2>1. 1..saves \subseteq 1..saves'
        BY <1>1, <1>2
    <2> QED BY <2>1 DEF IInv, PageOK, Post
<1>4. p \in Post'
    BY <1>1, <1>2 DEF Post, IInv, MaskNeverStored, TypeOK
<1>5. p.n = saves + 1 /\ p.at = "wallet"
    OBVIOUS
<1> HIDE DEF p
<1>6. MaskNeverStored'
    BY <1>1, <1>5 DEF IInv, MaskNeverStored, TypeOK
<1>7. PageOK'
    <2>1. 0..saves \subseteq 0..saves'
        BY <1>1, <1>2
    <2>2. writer' \in [Account -> 0..saves'] /\ reported' \in [Account -> 0..saves']
        BY <1>1, <2>1 DEF IInv, PageOK
    <2> QED BY <1>1, <1>2, <1>3, <1>4, <2>2 DEF IInv, PageOK
<1>8. OneSaveAtATime'
    <2>1. \A q \in posts : q.n \in lost
        BY <1>1, <1>2 DEF IInv, OneSaveAtATime
    <2>2. \A q \in posts : q.n # p.n
        BY <1>2, <1>5
    <2> QED BY <1>1, <1>5, <2>1, <2>2 DEF IInv, OneSaveAtATime
<1>9. LastSaveStands'
    BY <1>1 DEF IInv, LastSaveStands
<1> QED BY <1>6, <1>7, <1>8, <1>9 DEF IInv

\* A save that leaves the page's hands is reported, or lost, and its end is the
\* page's only if the save is the page's.
LEMMA LeavesKeeps ==
    ASSUME IInv, NEW p \in posts, NEW message \in {"saved", "error"},
           posts' = posts \ {p}, Ends(p, message),
           UNCHANGED <<active, rows, page, saves, writer>>,
           lost \subseteq lost',
           reported' = reported \/
             (p.at = "stored" /\ reported' = [reported EXCEPT ![p.owner] = p.n])
    PROVE  IInv'
<1>1. /\ UNCHANGED <<wallet, checking, fetches, email, webhookUrl>>
      /\ prefsMessage' \in {prefsMessage, message}
      /\ save' = IF save = p.n THEN 0 ELSE save
    BY DEF page, Ends
<1>2. Post' = Post /\ p \in Post
    BY DEF Post, IInv, PageOK
<1>3. p.n \in 1..saves /\ p.owner \in Account /\ saves \in Nat
    BY <1>2 DEF Post, IInv, PageOK
<1>4. MaskNeverStored'
    BY <1>1 DEF IInv, MaskNeverStored, TypeOK
<1>5. PageOK'
    <2>1. reported' \in [Account -> 0..saves]
        BY <1>3 DEF IInv, PageOK
    <2> QED BY <1>1, <1>2, <2>1 DEF IInv, PageOK
<1>6. OneSaveAtATime'
    BY <1>1 DEF IInv, OneSaveAtATime
<1>7. LastSaveStands'
    <2>1. \A o \in Account : reported'[o] = reported[o]
            \/ (o = p.owner /\ p.at = "stored" /\ reported'[o] = p.n)
        BY <1>3 DEF IInv, PageOK
    <2> QED BY <2>1 DEF IInv, LastSaveStands, OneSaveAtATime
<1> QED BY <1>4, <1>5, <1>6, <1>7 DEF IInv

\* A save that is signed, or that the API refuses, changes no preference.
LEMMA MovesKeeps ==
    ASSUME IInv, NEW p \in posts, NEW r \in Post,
           posts' = (posts \ {p}) \cup {r}, r.n = p.n,
           r.at \in {"api", "rejected"},
           UNCHANGED <<active, rows, page, save, prefsMessage, saves, writer,
                       reported, lost>>
    PROVE  IInv'
<1>1. UNCHANGED <<wallet, checking, fetches, email, webhookUrl>>
    BY DEF page
<1>2. Post' = Post
    BY DEF Post
<1>3. MaskNeverStored'
    BY <1>1 DEF IInv, MaskNeverStored, TypeOK
<1>4. PageOK'
    BY <1>1, <1>2 DEF IInv, PageOK
<1>5. OneSaveAtATime'
    BY DEF IInv, OneSaveAtATime
<1>6. LastSaveStands'
    BY DEF IInv, LastSaveStands
<1> QED BY <1>3, <1>4, <1>5, <1>6 DEF IInv

\* The API's write is of the page's current save, which is the last, or of a lost
\* one; it is by the owner and is no mask.
LEMMA PostPreferencesStores ==
    ASSUME IInv, NEW p \in posts, PostPreferences(p),
           WellFormed(p), verifyMessageSignature(p)
    PROVE  IInv'
<1> DEFINE row == [email |-> p.email, webhookUrl |-> p.webhookUrl]
<1>1. /\ rows' = [rows EXCEPT ![p.owner] = row]
      /\ writer' = [writer EXCEPT ![p.owner] = p.n]
      /\ Moves(p, [at |-> "stored"])
      /\ UNCHANGED <<active, save, prefsMessage, saves, reported, lost>>
      /\ UNCHANGED <<wallet, checking, fetches, email, webhookUrl>>
    BY DEF PostPreferences, page, counters
<1>2. Post' = Post /\ p \in Post
    BY <1>1 DEF Post, IInv, PageOK
<1>3. p.n \in 1..saves /\ p.owner \in Account /\ saves \in Nat
      /\ p.webhookUrl \in Hook \cup {None}
    BY <1>2 DEF Post, IInv, PageOK
<1>4. PICK r \in Post : /\ posts' = (posts \ {p}) \cup {r}
                        /\ r.n = p.n /\ r.owner = p.owner /\ r.at = "stored"
    BY <1>1, <1>2, MovesOn
<1>5. \A o \in Account : rows'[o] = rows[o] \/ rows'[o] = row
    BY <1>1 DEF IInv, PageOK
<1>6. /\ row.email = p.email /\ row.webhookUrl = p.webhookUrl
      /\ p.email \in Email \cup {None}
      /\ p.email # None \/ p.webhookUrl # None
      /\ row \in [email : Email \cup Masks \cup {None},
                  webhookUrl : Hook \cup {None}]
    BY <1>2, <1>3, WellFormedTyped
<1> HIDE DEF row
<1>7. MaskNeverStored'
    <2>1. \A q \in posts' : q.at \in {"wallet", "api", "stored", "rejected"}
        BY <1>4 DEF IInv, MaskNeverStored, TypeOK
    <2>2. TypeOK'
        BY <1>1, <1>5, <1>6, <2>1 DEF IInv, MaskNeverStored, TypeOK
    <2>3. \A o \in Account : rows'[o] # None =>
            /\ rows'[o].email \in Email \cup {None}
            /\ rows'[o].email # None \/ rows'[o].webhookUrl # None
        BY <1>5, <1>6 DEF IInv, MaskNeverStored
    <2> QED BY <2>2, <2>3 DEF MaskNeverStored
<1>8. PageOK'
    <2>1. rows' = [o \in Account |-> rows'[o]] /\ writer' \in [Account -> 0..saves]
        BY <1>1, <1>3 DEF IInv, PageOK
    <2> QED BY <1>1, <1>2, <1>4, <2>1 DEF IInv, PageOK
<1>9. p.n = saves \/ p.n \in lost
    BY <1>3 DEF IInv, OneSaveAtATime
<1>10. \A o \in Account :
            writer'[o] = writer[o] \/ writer'[o] = saves \/ writer'[o] \in lost
    BY <1>1, <1>3, <1>9 DEF IInv, PageOK
<1>11. writer'[p.owner] = p.n
    BY <1>1, <1>3 DEF IInv, PageOK
<1>12. OneSaveAtATime'
    <2>1. \A q \in posts : q.n <= saves /\ q.n \in Nat /\ q.owner \in Account
        BY DEF IInv, PageOK, Post
    <2>2. ASSUME NEW q \in posts', q.at = "stored"
          PROVE  writer'[q.owner] >= q.n \/ writer'[q.owner] \in lost
        <3>1. CASE q = r
            BY <3>1, <1>3, <1>4, <1>11
        <3>2. CASE q \in posts
            BY <3>2, <2>1, <2>2, <1>3, <1>10 DEF IInv, OneSaveAtATime
        <3> QED BY <3>1, <3>2, <1>4
    <2> QED BY <1>1, <1>4, <2>2 DEF IInv, OneSaveAtATime
<1>13. LastSaveStands'
    <2>1. reported \in [Account -> 0..saves] /\ saves \in Nat
        BY DEF IInv, PageOK
    <2>2. \A o \in Account : saves >= reported[o]
        BY <2>1
    <2> QED BY <2>2, <1>1, <1>10 DEF IInv, LastSaveStands
<1> QED BY <1>7, <1>8, <1>12, <1>13 DEF IInv

\* The steps of a save keep the invariant.
LEMMA SavesKeep ==
    ASSUME IInv, NEW p \in posts,
           \/ signAlertPrefsMessage(p) \/ SigningFails(p) \/ PostPreferences(p)
           \/ Answer(p) \/ AnswerLost(p)
    PROVE  IInv'
<1> USE DEF counters, history
<1>1. p \in Post /\ active \in Account
    BY DEF IInv, PageOK
<1>2. CASE signAlertPrefsMessage(p)
    <2>1. Moves(p, [at |-> "api", signer |-> active])
        BY <1>2 DEF signAlertPrefsMessage
    <2>2. PICK r \in Post : /\ posts' = (posts \ {p}) \cup {r}
                            /\ r.n = p.n /\ r.owner = p.owner /\ r.at = "api"
        BY <1>1, <2>1, MovesSigned
    <2> QED BY <1>2, <2>2, MovesKeeps DEF signAlertPrefsMessage
<1>3. CASE SigningFails(p)
    BY <1>3, LeavesKeeps DEF SigningFails
<1>4. CASE PostPreferences(p)
    <2>1. CASE WellFormed(p) /\ verifyMessageSignature(p)
        BY <1>4, <2>1, PostPreferencesStores
    <2>2. CASE ~(WellFormed(p) /\ verifyMessageSignature(p))
        <3>1. Moves(p, [at |-> "rejected"])
            BY <1>4, <2>2 DEF PostPreferences
        <3>2. PICK r \in Post :
                    /\ posts' = (posts \ {p}) \cup {r}
                    /\ r.n = p.n /\ r.owner = p.owner /\ r.at = "rejected"
            BY <1>1, <3>1, MovesOn
        <3> QED BY <1>4, <2>2, <3>2, MovesKeeps DEF PostPreferences
    <2> QED BY <2>1, <2>2
<1>5. CASE Answer(p)
    BY <1>5, LeavesKeeps DEF Answer, Message
<1>6. CASE AnswerLost(p)
    <2>1. /\ Ends(p, "error") /\ lost' = lost \cup {p.n}
          /\ UNCHANGED <<active, rows, page, saves, writer, reported>>
        BY <1>6 DEF AnswerLost
    <2>2. CASE p.at # "api"
        BY <1>6, <2>1, <2>2, LeavesKeeps DEF AnswerLost
    <2>3. CASE p.at = "api"
        <3>1. /\ posts' = posts
              /\ UNCHANGED <<wallet, checking, fetches, email, webhookUrl>>
              /\ prefsMessage' \in {prefsMessage, "error"}
              /\ save' = IF save = p.n THEN 0 ELSE save
            BY <1>6, <2>1, <2>3 DEF AnswerLost, Ends, page
        <3>2. Post' = Post
            BY <2>1 DEF Post
        <3>3. MaskNeverStored' /\ PageOK'
            BY <2>1, <3>1, <3>2 DEF IInv, MaskNeverStored, TypeOK, PageOK
        <3>4. OneSaveAtATime' /\ LastSaveStands'
            BY <2>1, <3>1 DEF IInv, OneSaveAtATime, LastSaveStands
        <3> QED BY <3>3, <3>4 DEF IInv
    <2> QED BY <2>2, <2>3
<1> QED BY <1>2, <1>3, <1>4, <1>5, <1>6

-----------------------------------------------------------------------------
(* The theorems *)

\* The page, its saves and the table are always consistent.
THEOREM Invariant == Spec => []IInv
<1>1. Init => IInv
    <2> SUFFICES ASSUME Init PROVE IInv
        OBVIOUS
    <2> USE ConstantsAssumption DEF Init
    <2>1. MaskNeverStored
        BY DEF MaskNeverStored, TypeOK
    <2>2. PageOK
        BY DEF PageOK
    <2>3. OneSaveAtATime /\ LastSaveStands
        BY DEF OneSaveAtATime, LastSaveStands
    <2> QED BY <2>1, <2>2, <2>3 DEF IInv
<1>2. IInv /\ [Next]_vars => IInv'
    <2> SUFFICES ASSUME IInv, [Next]_vars PROVE IInv'
        OBVIOUS
    <2>1. CASE UNCHANGED vars
        <3>1. Post' = Post
            BY <2>1 DEF vars, counters, Post
        <3> QED BY <2>1, <3>1
            DEF vars, page, saving, counters, history, IInv, MaskNeverStored,
                TypeOK, PageOK, OneSaveAtATime, LastSaveStands
    <2>2. CASE \E f \in fetches : GetPreferences(f)
        BY <2>2, GetPreferencesKeeps
    <2>3. CASE handleSavePrefs
        BY <2>3, HandleSavePrefsKeeps
    <2>4. CASE \E p \in posts :
                \/ signAlertPrefsMessage(p) \/ SigningFails(p)
                \/ PostPreferences(p) \/ Answer(p) \/ AnswerLost(p)
        BY <2>4, SavesKeep
    <2> QED BY <2>1, <2>2, <2>3, <2>4, PageKeeps DEF Next
<1> QED BY <1>1, <1>2, PTL DEF Spec

\* No mask ever becomes an address on record, and every row has a channel.
THEOREM MaskIsNeverStored == Spec => []MaskNeverStored
<1>1. IInv => MaskNeverStored
    BY DEF IInv
<1> QED BY <1>1, Invariant, PTL

\* What is on record is the last save reported as saved, or a later or a lost one.
THEOREM LastSaveAlwaysStands == Spec => []LastSaveStands
<1>1. IInv => LastSaveStands
    BY DEF IInv
<1> QED BY <1>1, Invariant, PTL

\* Preferences change only by a save that their owner signed.
THEOREM OnlyOwnersWrite == Spec => OnlyOwnerWrites
<1>1. ASSUME IInv, [Next]_vars
      PROVE  \A o \in Account : rows'[o] # rows[o] =>
                \E p \in posts : p.owner = o /\ p.signer = o
    <2>1. ASSUME NEW p \in posts, PostPreferences(p), NEW o \in Account,
                 rows'[o] # rows[o]
          PROVE  p.owner = o /\ p.signer = o
        BY <1>1, <2>1
           DEF PostPreferences, verifyMessageSignature, IInv, PageOK
    <2>2. CASE rows' = rows
        BY <2>2
    <2>3. CASE \E p \in posts : PostPreferences(p)
        BY <2>1, <2>3
    <2> QED BY <1>1, <2>2, <2>3
            DEF Next, vars, SwitchAccount, CheckReads, CheckDelivers, handleConnect,
                Connected, Type, GetPreferences, Prefill, FetchFails,
                handleSavePrefs, signAlertPrefsMessage, SigningFails, Answer,
                AnswerLost
<1> QED BY <1>1, Invariant, PTL DEF Spec, OnlyOwnerWrites

=============================================================================
