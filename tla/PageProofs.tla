------------------------------ MODULE PageProofs ------------------------------
(***************************************************************************)
(* Theorems about the two pages of the frontend that keep a state of their *)
(* own: the dashboard, and the verify form of the home page with its       *)
(* camera.  Nothing is assumed of the bounds, of how many accounts,        *)
(* batches and codes there are, or of how many requests, loads,            *)
(* submissions and openings.                                               *)
(***************************************************************************)
EXTENDS Dashboard, ScanForm, FiniteSetTheorems, TLAPS

-----------------------------------------------------------------------------
(* The dashboard *)

\* What the account of a wallet, and what is loaded for it, depend on.
walletVars == <<manufacturers, owner, connecting, wallet, manufacturerId, batches,
                loading, loads, reconnected>>

\* What the submissions and their forms depend on.
formVars == <<recalls, submissions, submitted, form, abandoned, faults, done>>

\* What is loaded and what is shown.
WalletOK == LoadsAreOfWallet /\ ShownIsOfWallet

\* What RecallsNameOwnBatches says, types apart.
OperationsOK ==
    /\ \A x \in done :
        IF x[1] = "recall" THEN recalls[x[2]] # {} ELSE owner[x[2]] # None
    /\ \A s \in submissions :
        s.kind = "recall" /\ ~reconnected => owner[s.batch] = s.account

\* The parts of the invariant.
LEMMA Parts ==
    IInv <=> /\ TypeOK /\ WalletOK /\ SubmissionsOK /\ OperationsOK
             /\ RepeatsAccountedFor
BY DEF IInv, WalletOK, OperationsOK, RecallsNameOwnBatches

\* A step that leaves what a part speaks of alone keeps it.
LEMMA WalletKept == WalletOK /\ UNCHANGED walletVars => WalletOK'
BY DEF WalletOK, walletVars, LoadsAreOfWallet, ShownIsOfWallet

LEMMA FormKept ==
    /\ SubmissionsOK /\ UNCHANGED formVars /\ UNCHANGED owner => SubmissionsOK'
    /\ RepeatsAccountedFor /\ UNCHANGED formVars => RepeatsAccountedFor'
    /\ OperationsOK /\ UNCHANGED formVars /\ UNCHANGED <<owner, reconnected>>
            => OperationsOK'
BY DEF formVars, SubmissionsOK, RepeatsAccountedFor, Underway, OperationsOK

-----------------------------------------------------------------------------
(* What is not accounted for *)

\* The recalls that RepeatsAccountedFor counts.
Unaccounted(b) == Underway(b) \ (abandoned \cup {form.submission})

\* They are finitely many.
LEMMA UnaccountedFinite ==
    ASSUME TypeOK, SubmissionsOK, NEW b \in Batch
    PROVE  /\ IsFiniteSet(Unaccounted(b)) /\ Cardinality(Unaccounted(b)) \in Nat
           /\ Unaccounted(b) \subseteq 1..submitted
<1>1. submitted \in Nat
    BY DEF TypeOK
<1>2. Unaccounted(b) \subseteq 1..submitted
    BY DEF TypeOK, SubmissionsOK, Submission, Underway, Unaccounted
<1>3. IsFiniteSet(1..submitted)
    BY <1>1, FS_Interval
<1>4. IsFiniteSet(Unaccounted(b))
    BY <1>2, <1>3, FS_Subset
<1> QED BY <1>2, <1>4, FS_CardinalityType

\* A step that adds none to them keeps the account.
LEMMA NoneAdded ==
    ASSUME TypeOK, SubmissionsOK, RepeatsAccountedFor,
           \A b \in Batch : Unaccounted(b)' \subseteq Unaccounted(b),
           faults' \in Nat, faults' >= faults, done \subseteq done'
    PROVE  RepeatsAccountedFor'
<1> SUFFICES ASSUME NEW b \in Batch
             PROVE  Cardinality(Unaccounted(b)')
                        <= faults' + (IF <<"recall", b>> \in done' THEN 1 ELSE 0)
    BY DEF RepeatsAccountedFor, Unaccounted
<1>1. IsFiniteSet(Unaccounted(b)) /\ Cardinality(Unaccounted(b)) \in Nat
    BY UnaccountedFinite
<1>2. /\ Cardinality(Unaccounted(b)') <= Cardinality(Unaccounted(b))
      /\ IsFiniteSet(Unaccounted(b)')
    BY <1>1, FS_Subset
<1>3. Cardinality(Unaccounted(b)') \in Nat
    BY <1>2, FS_CardinalityType
<1>4. Cardinality(Unaccounted(b))
            <= faults + (IF <<"recall", b>> \in done THEN 1 ELSE 0)
    BY DEF RepeatsAccountedFor, Unaccounted
<1>5. faults \in Nat
    BY DEF TypeOK
<1> QED BY <1>1, <1>2, <1>3, <1>4, <1>5

\* A step that adds one to those of a batch keeps the account if it counts a fault
\* or has the page say that the recall is issued.
LEMMA OneAdded ==
    ASSUME TypeOK, SubmissionsOK, RepeatsAccountedFor, NEW n,
           NEW c \in Batch, Unaccounted(c)' \subseteq Unaccounted(c) \cup {n},
           \A b \in Batch \ {c} : Unaccounted(b)' \subseteq Unaccounted(b),
           faults' \in Nat, done \subseteq done',
           \/ faults' = faults + 1
           \/ /\ faults' = faults
              /\ <<"recall", c>> \notin done /\ <<"recall", c>> \in done'
    PROVE  RepeatsAccountedFor'
<1> SUFFICES ASSUME NEW b \in Batch
             PROVE  Cardinality(Unaccounted(b)')
                        <= faults' + (IF <<"recall", b>> \in done' THEN 1 ELSE 0)
    BY DEF RepeatsAccountedFor, Unaccounted
<1>1. IsFiniteSet(Unaccounted(b)) /\ Cardinality(Unaccounted(b)) \in Nat
    BY UnaccountedFinite
<1>2. /\ Cardinality(Unaccounted(b))
            <= faults + (IF <<"recall", b>> \in done THEN 1 ELSE 0)
      /\ faults \in Nat
    BY DEF RepeatsAccountedFor, Unaccounted, TypeOK
<1>3. CASE b # c
    <2>1. Unaccounted(b)' \subseteq Unaccounted(b)
        BY <1>3
    <2>2. /\ Cardinality(Unaccounted(b)') <= Cardinality(Unaccounted(b))
          /\ IsFiniteSet(Unaccounted(b)')
        BY <2>1, <1>1, FS_Subset
    <2>3. Cardinality(Unaccounted(b)') \in Nat
        BY <2>2, FS_CardinalityType
    <2> QED BY <2>2, <2>3, <1>1, <1>2
<1>4. CASE b = c
    <2> DEFINE more == Unaccounted(b) \cup {n}
    <2>1. /\ IsFiniteSet(more)
          /\ \/ Cardinality(more) = Cardinality(Unaccounted(b))
             \/ Cardinality(more) = Cardinality(Unaccounted(b)) + 1
        BY <1>1, FS_AddElement
    <2>2. Unaccounted(b)' \subseteq more
        BY <1>4
    <2>3. /\ Cardinality(Unaccounted(b)') <= Cardinality(more)
          /\ IsFiniteSet(Unaccounted(b)')
        BY <2>1, <2>2, FS_Subset
    <2>4. Cardinality(Unaccounted(b)') \in Nat
        BY <2>3, FS_CardinalityType
    <2> QED BY <2>1, <2>3, <2>4, <1>1, <1>2, <1>4
<1> QED BY <1>3, <1>4

\* What is abandoned was submitted.
LEMMA UnmountedAbandons ==
    ASSUME TypeOK, Unmount
    PROVE  abandoned' \subseteq 1..submitted
<1>1. /\ submitted \in Nat /\ form.submission \in 0..submitted
      /\ abandoned \subseteq 1..submitted
    BY DEF TypeOK
<1>2. abandoned' = abandoned \cup ({form.submission} \ {0})
    BY DEF Unmount
<1>3. ASSUME NEW n \in abandoned' PROVE n \in 1..submitted
    <2>1. n \in abandoned \/ (n = form.submission /\ n # 0)
        BY <1>2
    <2>2. CASE n \in abandoned
        BY <2>2, <1>1
    <2>3. CASE n = form.submission /\ n # 0
        <3>1. n \in 0..submitted
            BY <2>3, <1>1
        <3> QED BY <3>1, <2>3, <1>1
    <2> QED BY <2>1, <2>2, <2>3
<1> QED BY <1>3

\* The form leaves the screen, with the submission it waits for.
LEMMA UnmountKeeps ==
    ASSUME TypeOK, SubmissionsOK, RepeatsAccountedFor, OperationsOK, Unmount,
           UNCHANGED <<owner, recalls, submissions, submitted, faults, done>>,
           reconnected' = reconnected
    PROVE  SubmissionsOK' /\ RepeatsAccountedFor' /\ OperationsOK'
<1>1. /\ form' = FreshForm /\ abandoned' = abandoned \cup ({form.submission} \ {0})
      /\ form'.submission = 0
    BY DEF Unmount, FreshForm
<1>2. SubmissionsOK' /\ OperationsOK'
    BY <1>1 DEF SubmissionsOK, OperationsOK
<1>3. \A b \in Batch : Unaccounted(b)' \subseteq Unaccounted(b)
    <2> SUFFICES ASSUME NEW b \in Batch, NEW n \in Unaccounted(b)'
                 PROVE  n \in Unaccounted(b)
        OBVIOUS
    <2>1. Underway(b)' = Underway(b)
        BY DEF Underway
    <2>2. n # 0
        BY <2>1, <1>1 DEF Unaccounted
    <2> QED BY <2>1, <2>2, <1>1 DEF Unaccounted
<1>4. faults' \in Nat /\ faults' >= faults /\ done \subseteq done'
    BY DEF TypeOK
<1> QED BY <1>2, <1>3, <1>4, NoneAdded

-----------------------------------------------------------------------------
(* The contract, by other hands *)

\* An account that becomes a manufacturer changes nothing that is shown.
LEMMA ManufacturerKeeps ==
    ASSUME IInv, NEW a \in Account, RegisterManufacturer(a)
    PROVE  IInv'
<1>1. /\ manufacturers' = manufacturers \cup {a}
      /\ UNCHANGED <<owner, recalls, page, form, submissions, connects, loaded,
                     submitted, faults, history>>
    BY DEF RegisterManufacturer
<1> USE Parts, <1>1 DEF page, history
<1>2. TypeOK'
    BY DEF TypeOK, Mounted
<1>3. WalletOK'
    BY DEF WalletOK, LoadsAreOfWallet, ShownIsOfWallet
<1>4. SubmissionsOK' /\ RepeatsAccountedFor' /\ OperationsOK'
    BY FormKept DEF formVars
<1> QED BY <1>2, <1>3, <1>4, PTL

\* A batch that had no owner is in no list, and no submission of a recall names it.
LEMMA OwnerKeeps ==
    ASSUME IInv, NEW b \in Batch, NEW a \in Account, owner[b] = None,
           owner' = [owner EXCEPT ![b] = a],
           UNCHANGED <<manufacturers, page, reconnected>>
    PROVE  WalletOK' /\ \A c \in Batch : owner[c] # None => owner'[c] = owner[c]
<1>1. TypeOK /\ WalletOK /\ None \notin Account
    BY Parts, ConstantsAssumption
<1>2. /\ \A c \in Batch : owner[c] # None => owner'[c] = owner[c]
      /\ \A c \in Batch : c # b => owner'[c] = owner[c]
    BY <1>1 DEF TypeOK
<1>3. \A l \in loads : \A list \in l.batches : list \subseteq Batch
    BY <1>1 DEF TypeOK, Load
<1>4. UNCHANGED <<connecting, wallet, manufacturerId, batches, loading, loads>>
    BY DEF page
<1>5. LoadsAreOfWallet'
    BY <1>1, <1>2, <1>3, <1>4 DEF WalletOK, LoadsAreOfWallet, TypeOK
<1>6. ShownIsOfWallet'
    BY <1>1, <1>2, <1>4 DEF WalletOK, ShownIsOfWallet, TypeOK
<1> QED BY <1>2, <1>5, <1>6 DEF WalletOK

\* A batch that is registered elsewhere is new to every list and every recall.
LEMMA BatchElsewhereKeeps ==
    ASSUME IInv, NEW a \in Account, NEW b \in Batch, RegisterBatchElsewhere(a, b)
    PROVE  IInv'
<1>1. /\ owner[b] = None /\ owner' = [owner EXCEPT ![b] = a]
      /\ UNCHANGED <<manufacturers, recalls, page, form, submissions, connects,
                     loaded, submitted, faults, history>>
    BY DEF RegisterBatchElsewhere
<1>2. TypeOK /\ SubmissionsOK /\ RepeatsAccountedFor /\ OperationsOK
    BY Parts
<1>3. TypeOK'
    BY <1>1, <1>2 DEF TypeOK, Mounted, page, history
<1>4. WalletOK' /\ \A c \in Batch : owner[c] # None => owner'[c] = owner[c]
    BY <1>1, OwnerKeeps DEF history
<1>5. UNCHANGED formVars /\ UNCHANGED reconnected
    BY <1>1 DEF formVars, history
<1>6. RepeatsAccountedFor'
    BY <1>2, <1>5, FormKept
<1>7. \A c \in Batch : owner'[c] # owner[c] => owner[c] = None /\ owner'[c] # None
    BY <1>1, <1>2, ConstantsAssumption DEF TypeOK
<1>8. \A s \in submissions : s.batch \in Batch /\ s.account \in Account
    BY <1>2 DEF TypeOK, Submission
<1>9. SubmissionsOK'
    BY <1>2, <1>5, <1>7, <1>8 DEF SubmissionsOK, formVars
<1>10. OperationsOK'
    <2>1. \A x \in done : x[2] \in Batch
        BY <1>2 DEF TypeOK
    <2>2. \A x \in done :
            IF x[1] = "recall" THEN recalls'[x[2]] # {} ELSE owner'[x[2]] # None
        BY <2>1, <1>2, <1>5, <1>7 DEF OperationsOK, formVars
    <2>3. \A s \in submissions :
            s.kind = "recall" /\ ~reconnected => owner'[s.batch] = s.account
        BY <1>2, <1>4, <1>8, ConstantsAssumption DEF OperationsOK
    <2> QED BY <2>2, <2>3, <1>5 DEF OperationsOK, formVars
<1> QED BY <1>3, <1>4, <1>6, <1>9, <1>10, Parts, PTL

-----------------------------------------------------------------------------
(* Wallet requests and loads *)

\* The wallet asked again while it asks is what reconnected remembers.
LEMMA ConnectKeeps ==
    ASSUME IInv, handleConnect
    PROVE  IInv'
<1>1. /\ wallet = None /\ connecting' = connecting + 1 /\ connects' = connects + 1
      /\ reconnected' = (reconnected \/ connecting > 0)
      /\ UNCHANGED <<chain, wallet, tab, manufacturerId, batches, loading,
                     loadError, loads, form, submissions, loaded, submitted,
                     faults, done, abandoned>>
    BY DEF handleConnect, Connectable
<1>2. TypeOK /\ WalletOK /\ SubmissionsOK /\ RepeatsAccountedFor /\ OperationsOK
    BY Parts
<1>3. TypeOK'
    BY <1>1, <1>2 DEF TypeOK, Mounted, chain
<1>4. WalletOK'
    <2>1. connecting \in Nat /\ reconnected \in BOOLEAN
        BY <1>2 DEF TypeOK
    <2>2. ~reconnected' => ~reconnected /\ connecting = 0 /\ connecting' = 1
        <3> SUFFICES ASSUME ~reconnected'
                     PROVE  ~reconnected /\ connecting = 0 /\ connecting' = 1
            OBVIOUS
        <3>1. ~reconnected /\ ~(connecting > 0)
            BY <1>1, Zenon
        <3> QED BY <3>1, <2>1, <1>1
    <2>3. LoadsAreOfWallet'
        BY <1>1, <1>2, <2>2 DEF WalletOK, LoadsAreOfWallet, chain
    <2>4. ShownIsOfWallet'
        BY <1>1 DEF ShownIsOfWallet
    <2> QED BY <2>3, <2>4 DEF WalletOK
<1>5. SubmissionsOK' /\ RepeatsAccountedFor'
    BY <1>1, <1>2, FormKept DEF formVars, chain
<1>6. OperationsOK'
    BY <1>1, <1>2 DEF OperationsOK, chain
<1> QED BY <1>3, <1>4, <1>5, <1>6, Parts, PTL

\* A load that starts is for the account connected, and the only one unless two
\* wallet requests were open at once.
LEMMA StartLoadKeeps ==
    ASSUME IInv, NEW a \in Account, StartLoad(a), wallet' = a,
           ~reconnected => /\ loads = {} /\ connecting' = 0
                           /\ wallet = None \/ wallet = a,
           connecting' \in Nat, connects' = connects,
           UNCHANGED <<chain, tab, manufacturerId, batches, submissions, submitted,
                       faults, done, reconnected>>
    PROVE  IInv'
<1> DEFINE l == [n |-> loaded + 1, account |-> a, id |-> {}, batches |-> {}]
<1>1. /\ loaded < MaxLoads /\ loaded' = loaded + 1 /\ loads' = loads \cup {l}
      /\ loading' = TRUE /\ loadError' = FALSE
      /\ Unmount /\ form' = FreshForm
      /\ abandoned' = abandoned \cup ({form.submission} \ {0})
    BY DEF StartLoad, Unmount
<1>2. TypeOK /\ WalletOK /\ SubmissionsOK /\ RepeatsAccountedFor /\ OperationsOK
    BY Parts
<1>3. l \in Load
    <2>1. loaded + 1 \in 1..MaxLoads
        BY <1>1, <1>2, ConstantsAssumption DEF TypeOK
    <2> QED BY <2>1 DEF Load
<1>4. TypeOK'
    <2>1. /\ form' \in [submission : 0..submitted, shows : {"none", "success", "error"}]
          /\ form'.submission = 0
        BY <1>1, <1>2 DEF FreshForm, TypeOK
    <2>2. loads' \subseteq Load /\ abandoned' \subseteq 1..submitted
        <3> HIDE DEF l
        <3>1. loads' \subseteq Load
            BY <1>1, <1>2, <1>3 DEF TypeOK
        <3>2. abandoned' \subseteq 1..submitted
            BY <1>1, <1>2, UnmountedAbandons
        <3> QED BY <3>1, <3>2
    <2>3. {connects, loaded', submitted, faults} \subseteq Nat
        BY <1>1, <1>2 DEF TypeOK
    <2> HIDE DEF l
    <2> QED BY <1>1, <1>2, <2>1, <2>2, <2>3 DEF TypeOK, chain
<1>5. WalletOK'
    <2>1. ~reconnected => loads' = {l} /\ l.account = a /\ l.id = {} /\ l.batches = {}
        BY <1>1
    <2> HIDE DEF l
    <2>2. LoadsAreOfWallet'
        BY <1>1, <2>1, ConstantsAssumption DEF LoadsAreOfWallet
    <2>3. ShownIsOfWallet'
        BY <1>2 DEF WalletOK, LoadsAreOfWallet, ShownIsOfWallet, chain
    <2> QED BY <2>2, <2>3 DEF WalletOK
<1>6. SubmissionsOK' /\ RepeatsAccountedFor' /\ OperationsOK'
    BY <1>1, <1>2, UnmountKeeps DEF chain
<1> QED BY <1>4, <1>5, <1>6, Parts, PTL

\* The wallet answers: with a new account, which is loaded, with the one there was,
\* or with none.
LEMMA ConnectedKeeps ==
    ASSUME IInv, NEW a \in Account \cup {None}, Connected(a)
    PROVE  IInv'
<1>1. /\ connecting > 0 /\ connecting' = connecting - 1 /\ wallet' = a
      /\ UNCHANGED <<chain, tab, manufacturerId, batches, submissions, connects,
                     submitted, faults, done, reconnected>>
    BY DEF Connected
<1>2. TypeOK /\ WalletOK /\ SubmissionsOK /\ RepeatsAccountedFor /\ OperationsOK
    BY Parts
<1>3. connecting' \in Nat
    BY <1>1, <1>2 DEF TypeOK
<1>4. ~reconnected => wallet = None /\ loads = {} /\ connecting' = 0
    BY <1>1, <1>2 DEF WalletOK, LoadsAreOfWallet, TypeOK
<1>5. CASE a \notin {wallet, None}
    <2>1. StartLoad(a) /\ a \in Account
        BY <1>5 DEF Connected
    <2> QED BY <1>1, <1>3, <1>4, <2>1, StartLoadKeeps
<1>6. CASE a = None
    <2>1. Unmount /\ UNCHANGED <<loading, loadError, loads, loaded>>
        BY <1>6 DEF Connected
    <2>2. /\ form' = FreshForm /\ form'.submission = 0
          /\ abandoned' = abandoned \cup ({form.submission} \ {0})
        BY <2>1 DEF Unmount, FreshForm
    <2>3. TypeOK'
        <3>1. form' \in [submission : 0..submitted, shows : {"none", "success", "error"}]
            BY <2>2, <1>2 DEF FreshForm, TypeOK
        <3>2. abandoned' \subseteq 1..submitted
            BY <1>2, <2>1, UnmountedAbandons
        <3> QED BY <1>1, <1>2, <1>3, <2>1, <2>2, <3>1, <3>2 DEF TypeOK, chain
    <2>4. WalletOK'
        BY <1>1, <1>2, <1>4, <1>6, <2>1
           DEF WalletOK, LoadsAreOfWallet, ShownIsOfWallet, chain
    <2>5. SubmissionsOK' /\ RepeatsAccountedFor' /\ OperationsOK'
        BY <1>1, <1>2, <2>1, UnmountKeeps DEF chain
    <2> QED BY <2>3, <2>4, <2>5, Parts, PTL
<1>7. CASE a = wallet /\ a # None
    <2>1. UNCHANGED <<form, abandoned, loading, loadError, loads, loaded>>
        BY <1>7 DEF Connected
    <2>2. TypeOK'
        BY <1>1, <1>2, <1>3, <1>7, <2>1 DEF TypeOK, Mounted, chain
    <2>3. WalletOK'
        BY <1>1, <1>2, <1>4, <1>7, <2>1
           DEF WalletOK, LoadsAreOfWallet, ShownIsOfWallet, chain
    <2>4. SubmissionsOK' /\ RepeatsAccountedFor' /\ OperationsOK'
        BY <1>1, <1>2, <2>1, FormKept DEF formVars, chain
    <2> QED BY <2>2, <2>3, <2>4, Parts, PTL
<1> QED BY <1>5, <1>6, <1>7

\* Refresh loads the same account again, when nothing is being loaded.
LEMMA RefreshKeeps ==
    ASSUME IInv, Refresh
    PROVE  IInv'
<1>1. /\ wallet # None /\ ~loading /\ StartLoad(wallet)
      /\ UNCHANGED <<chain, connecting, wallet, tab, manufacturerId, batches,
                     submissions, connects, submitted, faults, done, reconnected>>
    BY DEF Refresh, Refreshable
<1>2. TypeOK /\ WalletOK
    BY Parts
<1>3. wallet \in Account /\ connecting' \in Nat
    BY <1>1, <1>2 DEF TypeOK
<1>4. ~reconnected => loads = {} /\ connecting' = 0
    BY <1>1, <1>2 DEF WalletOK, LoadsAreOfWallet
<1> QED BY <1>1, <1>3, <1>4, StartLoadKeeps

\* A read answers: what it found is the account's, as nothing is ever taken from
\* an account.
LEMMA ReadingKeeps ==
    ASSUME IInv, NEW l \in loads, NEW change \in Load, Reading(l, change),
           change.account = l.account,
           ~reconnected =>
                /\ \A id \in change.id :
                    /\ id # None => id = wallet /\ id \in manufacturers
                    /\ manufacturerId # None => id = manufacturerId
                /\ \A list \in change.batches : /\ \A b \in list : owner[b] = wallet
                                                /\ batches \subseteq list
    PROVE  IInv'
<1>1. /\ loads' = (loads \ {l}) \cup {change}
      /\ UNCHANGED <<chain, connecting, wallet, tab, manufacturerId, batches,
                     loading, loadError, form, submissions, connects, loaded,
                     submitted, faults, history>>
    BY DEF Reading
<1>2. TypeOK /\ WalletOK /\ SubmissionsOK /\ RepeatsAccountedFor /\ OperationsOK
    BY Parts
<1>3. loads' \subseteq Load
    BY <1>1, <1>2 DEF TypeOK
<1>4. TypeOK'
    BY <1>1, <1>2, <1>3 DEF TypeOK, Mounted, chain, history
<1>5. WalletOK'
    <2>1. ~reconnected => loads' = {change}
        BY <1>1, <1>2 DEF WalletOK, LoadsAreOfWallet
    <2>2. LoadsAreOfWallet'
        BY <1>1, <1>2, <2>1 DEF WalletOK, LoadsAreOfWallet, chain, history
    <2>3. ShownIsOfWallet'
        BY <1>1, <1>2 DEF WalletOK, ShownIsOfWallet, chain, history
    <2> QED BY <2>2, <2>3 DEF WalletOK
<1>6. SubmissionsOK' /\ RepeatsAccountedFor' /\ OperationsOK'
    BY <1>1, <1>2, FormKept DEF formVars, chain, history
<1> QED BY <1>4, <1>5, <1>6, Parts, PTL

\* The id is read of the account the load is for.
LEMMA ReadIdKeeps ==
    ASSUME IInv, NEW l \in loads, ReadId(l)
    PROVE  IInv'
<1> DEFINE id == get_manufacturer_id(l.account)
           change == [l EXCEPT !.id = {id}]
<1>1. TypeOK /\ WalletOK /\ Reading(l, change) /\ l \in Load
    BY Parts DEF ReadId, TypeOK
<1>2. id \in Account \cup {None} /\ (id # None => id = l.account /\ id \in manufacturers)
    BY <1>1 DEF get_manufacturer_id, Load
<1>3. /\ change \in Load /\ change.account = l.account
      /\ change.id = {id} /\ change.batches = l.batches
    BY <1>1, <1>2 DEF Load
<1>4. ASSUME ~reconnected
      PROVE  /\ id # None => id = wallet /\ id \in manufacturers
             /\ manufacturerId # None => id = manufacturerId
    <2>1. l.account = wallet /\ wallet # None
        BY <1>1, <1>4 DEF WalletOK, LoadsAreOfWallet
    <2>2. manufacturerId # None => manufacturerId = wallet /\ wallet \in manufacturers
        BY <1>1, <1>4, <2>1 DEF WalletOK, ShownIsOfWallet
    <2> QED BY <1>2, <2>1, <2>2 DEF get_manufacturer_id
<1>5. ~reconnected => \A list \in l.batches : /\ \A b \in list : owner[b] = wallet
                                              /\ batches \subseteq list
    BY <1>1 DEF WalletOK, LoadsAreOfWallet
<1> HIDE DEF change, id
<1> QED BY <1>1, <1>3, <1>4, <1>5, ReadingKeeps

\* So are the batches, those shown among them.
LEMMA ReadBatchesKeeps ==
    ASSUME IInv, NEW l \in loads, ReadBatches(l)
    PROVE  IInv'
<1> DEFINE list == get_batches_for_manufacturer(l.account)
           change == [l EXCEPT !.batches = {list}]
<1>1. TypeOK /\ WalletOK /\ Reading(l, change) /\ l \in Load
    BY Parts DEF ReadBatches, TypeOK
<1>2. list \subseteq Batch /\ \A b \in Batch : b \in list <=> owner[b] = l.account
    BY DEF get_batches_for_manufacturer
<1>3. /\ change \in Load /\ change.account = l.account
      /\ change.id = l.id /\ change.batches = {list}
    BY <1>1, <1>2 DEF Load
<1>4. ASSUME ~reconnected
      PROVE  (\A b \in list : owner[b] = wallet) /\ batches \subseteq list
    <2>1. l.account = wallet /\ wallet # None
        BY <1>1, <1>4 DEF WalletOK, LoadsAreOfWallet
    <2>2. \A b \in batches : b \in Batch /\ owner[b] = wallet
        BY <1>1, <1>4, <2>1 DEF WalletOK, ShownIsOfWallet, TypeOK
    <2> QED BY <1>2, <2>1, <2>2
<1>5. ~reconnected => \A id \in l.id :
                        /\ id # None => id = wallet /\ id \in manufacturers
                        /\ manufacturerId # None => id = manufacturerId
    BY <1>1 DEF WalletOK, LoadsAreOfWallet
<1> HIDE DEF change, list
<1> QED BY <1>1, <1>3, <1>4, <1>5, ReadingKeeps

\* A load that ends leaves no other, and shows what it has read or nothing new.
LEMMA EndLoadKeeps ==
    ASSUME IInv, NEW l \in loads, Loaded(l) \/ LoadFails(l)
    PROVE  IInv'
<1>1. /\ loads' = loads \ {l} /\ loading' = FALSE
      /\ UNCHANGED <<chain, connecting, wallet, tab, form, submissions, connects,
                     loaded, submitted, history>>
      /\ \/ UNCHANGED <<manufacturerId, batches>>
         \/ manufacturerId' \in l.id /\ batches' \in l.batches
      /\ faults' \in {faults, faults + 1} /\ loadError' \in {loadError, TRUE}
    BY DEF Loaded, LoadFails, EndLoad
<1>2. /\ TypeOK /\ WalletOK /\ SubmissionsOK /\ RepeatsAccountedFor /\ OperationsOK
      /\ l \in Load
    BY Parts DEF TypeOK
<1>3. manufacturerId' \in Account \cup {None} /\ batches' \subseteq Batch
    BY <1>1, <1>2 DEF TypeOK, Load
<1>4. faults' \in Nat /\ faults' >= faults
    BY <1>1, <1>2 DEF TypeOK
<1>5. TypeOK'
    BY <1>1, <1>2, <1>3, <1>4 DEF TypeOK, Mounted, chain, history
<1>6. WalletOK'
    <2>1. ~reconnected => loads' = {} /\ l.account = wallet /\ wallet # None
        BY <1>1, <1>2 DEF WalletOK, LoadsAreOfWallet
    <2>2. LoadsAreOfWallet'
        BY <1>1, <1>2, <2>1 DEF WalletOK, LoadsAreOfWallet, chain, history
    <2>3. ShownIsOfWallet'
        BY <1>1, <1>2, <2>1
           DEF WalletOK, LoadsAreOfWallet, ShownIsOfWallet, chain, history
    <2> QED BY <2>2, <2>3 DEF WalletOK
<1>7. SubmissionsOK' /\ OperationsOK'
    BY <1>1, <1>2 DEF SubmissionsOK, OperationsOK, chain, history
<1>8. RepeatsAccountedFor'
    <2>1. \A b \in Batch : Unaccounted(b)' = Unaccounted(b)
        BY <1>1 DEF Unaccounted, Underway, chain, history
    <2> QED BY <1>1, <1>2, <1>4, <2>1, NoneAdded DEF history
<1> QED BY <1>5, <1>6, <1>7, <1>8, Parts, PTL

-----------------------------------------------------------------------------
(* Tabs and forms *)

\* Another tab takes the form away.
LEMMA SwitchTabKeeps ==
    ASSUME IInv, NEW t \in Tab, SwitchTab(t)
    PROVE  IInv'
<1>1. /\ tab' = t /\ Unmount /\ form' = FreshForm
      /\ UNCHANGED <<chain, connecting, wallet, manufacturerId, batches, loading,
                     loadError, loads, submissions, connects, loaded, submitted,
                     faults, done, reconnected>>
    BY DEF SwitchTab, Unmount
<1>2. TypeOK /\ WalletOK /\ SubmissionsOK /\ RepeatsAccountedFor /\ OperationsOK
    BY Parts
<1>3. TypeOK'
    <2>1. /\ form' \in [submission : 0..submitted, shows : {"none", "success", "error"}]
          /\ form'.submission = 0
        BY <1>1, <1>2 DEF FreshForm, TypeOK
    <2>2. abandoned' \subseteq 1..submitted
        BY <1>1, <1>2, UnmountedAbandons
    <2> QED BY <1>1, <1>2, <2>1, <2>2 DEF TypeOK, chain
<1>4. WalletOK'
    BY <1>1, <1>2, WalletKept DEF walletVars, chain
<1>5. SubmissionsOK' /\ RepeatsAccountedFor' /\ OperationsOK'
    BY <1>1, <1>2, UnmountKeeps DEF chain
<1> QED BY <1>3, <1>4, <1>5, Parts, PTL

\* A recall that is sent was not sent before, and is for a batch of the list.
LEMMA SubmitKeeps ==
    ASSUME IInv, NEW kind \in {"register", "recall"}, NEW c \in Batch,
           handleSubmit(kind, c)
    PROVE  IInv'
<1> DEFINE n == submitted + 1
           s == [n |-> n, kind |-> kind, batch |-> c, account |-> wallet,
                 status |-> "sent"]
<1>1. /\ Mounted(kind) /\ form.submission = 0 /\ c \in Offered(kind)
      /\ <<kind, c>> \notin done /\ submitted < MaxSubmissions
      /\ submitted' = n /\ submissions' = submissions \cup {s}
      /\ form' = [submission |-> n, shows |-> "none"]
      /\ UNCHANGED <<chain, page, connects, loaded, faults, history>>
    BY DEF handleSubmit, Idle
<1>2. TypeOK /\ WalletOK /\ SubmissionsOK /\ RepeatsAccountedFor /\ OperationsOK
    BY Parts
<1>3. /\ submitted \in Nat /\ n \in 1..MaxSubmissions /\ wallet \in Account
      /\ 1..submitted \subseteq 1..n /\ 0 \notin 1..submitted /\ n \notin 1..submitted
    BY <1>1, <1>2, ConstantsAssumption DEF TypeOK, Mounted
<1>4. /\ s \in Submission /\ s.n = n /\ s.kind = kind /\ s.batch = c
      /\ s.account = wallet /\ s.status = "sent"
    BY <1>3 DEF Submission
<1> HIDE DEF s
<1>5. /\ form'.submission = n
      /\ form' \in [submission : 0..n, shows : {"none", "success", "error"}]
    BY <1>1, <1>3
<1>6. TypeOK'
    <2>1. recalls \in [Batch -> SUBSET (1..n)]
        BY <1>2, <1>3 DEF TypeOK
    <2>2. abandoned \subseteq 1..n
        BY <1>2, <1>3 DEF TypeOK
    <2>3. submissions' \subseteq Submission
        BY <1>1, <1>2, <1>4 DEF TypeOK
    <2>4. Mounted(kind)'
        BY <1>1 DEF Mounted, page
    <2>5. {connects, loaded, submitted', faults} \subseteq Nat
        BY <1>1, <1>2, <1>3 DEF TypeOK
    <2> HIDE DEF n
    <2> QED BY <1>1, <1>2, <1>5, <2>1, <2>2, <2>3, <2>4, <2>5
            DEF TypeOK, chain, page, history
<1>7. WalletOK'
    BY <1>1, <1>2, WalletKept DEF walletVars, chain, page, history
<1>8. /\ \A t \in submissions : t.n \in 1..submitted
      /\ \A b \in Batch : recalls[b] \subseteq 1..submitted
    BY <1>2 DEF TypeOK, SubmissionsOK, Submission
<1>9. SubmissionsOK'
    <2>1. ASSUME NEW t \in submissions'
          PROVE  /\ t.n <= n
                 /\ \A u \in submissions' : u.n = t.n => u = t
                 /\ \A b \in Batch :
                        t.n \in recalls[b] <=>
                            t.kind = "recall" /\ t.batch = b /\ t.status = "applied"
                 /\ t.kind = "register" /\ t.status = "applied" => owner[t.batch] # None
        <3>1. CASE t = s
            BY <3>1, <1>1, <1>3, <1>4, <1>8
        <3>2. CASE t \in submissions
            BY <3>2, <1>1, <1>2, <1>3, <1>4, <1>8 DEF SubmissionsOK
        <3> QED BY <1>1, <3>1, <3>2
    <2>2. s \in submissions' /\ s.n = form'.submission /\ <<s.kind, s.batch>> \notin done
        BY <1>1, <1>4, <1>5
    <2> HIDE DEF n
    <2> QED BY <1>1, <2>1, <2>2 DEF SubmissionsOK, chain, history
<1>10. OperationsOK'
    <2>1. kind = "recall" /\ ~reconnected => owner[c] = wallet
        BY <1>1, <1>2 DEF Offered, Mounted, WalletOK, ShownIsOfWallet
    <2> QED BY <1>1, <1>2, <1>4, <2>1 DEF OperationsOK, chain, history
<1>11. RepeatsAccountedFor'
    <2>1. ASSUME NEW b \in Batch PROVE Unaccounted(b)' \subseteq Unaccounted(b)
        <3> SUFFICES ASSUME NEW x \in Unaccounted(b)' PROVE x \in Unaccounted(b)
            OBVIOUS
        <3>1. x \in Underway(b)' /\ x \notin abandoned /\ x # n
            BY <1>1, <1>5 DEF Unaccounted, history
        <3>2. x \in Underway(b)
            BY <1>1, <1>4, <3>1 DEF Underway, chain
        <3>3. x \in 1..submitted
            BY <1>8, <3>2 DEF Underway
        <3> QED BY <1>1, <1>3, <3>1, <3>2, <3>3 DEF Unaccounted
    <2>2. faults' \in Nat /\ faults' >= faults /\ done \subseteq done'
        BY <1>1, <1>2 DEF TypeOK, history
    <2> QED BY <1>2, <2>1, <2>2, NoneAdded
<1> QED BY <1>6, <1>7, <1>9, <1>10, <1>11, Parts, PTL

\* Whether a submission is issued, or may be.
LEMMA UnderwayOf ==
    ASSUME TypeOK, SubmissionsOK, NEW s \in submissions, NEW b \in Batch
    PROVE  s.n \in Underway(b) <=>
                s.kind = "recall" /\ s.batch = b /\ s.status # "refused"
<1>1. s \in Submission
    BY DEF TypeOK
<1> QED BY <1>1 DEF Underway, SubmissionsOK, Submission

\* What a submission that changes its status leaves as it was.
LEMMA BecomesKeeps ==
    ASSUME TypeOK, SubmissionsOK, NEW s \in submissions, s.status = "sent",
           NEW status \in {"applied", "refused"}, Becomes(s, status)
    PROVE  LET t == [s EXCEPT !.status = status]
           IN  /\ submissions' = (submissions \ {s}) \cup {t}
               /\ t \in Submission /\ t.n = s.n /\ t.kind = s.kind
               /\ t.batch = s.batch /\ t.account = s.account /\ t.status = status
               /\ submissions' \subseteq Submission
BY DEF Becomes, TypeOK, Submission

\* A submission that the contract takes stays what it was, issued or underway.
LEMMA AppliedKeeps ==
    ASSUME IInv, NEW s \in submissions, Applied(s)
    PROVE  IInv'
<1> DEFINE t == [s EXCEPT !.status = "applied"]
           c == s.batch
<1>1. /\ s.status = "sent" /\ Acceptable(s) /\ Becomes(s, "applied")
      /\ UNCHANGED <<manufacturers, page, form, connects, loaded, submitted,
                     faults, history>>
      /\ s.kind = "recall" =>
            recalls' = [recalls EXCEPT ![c] = @ \cup {s.n}] /\ owner' = owner
      /\ s.kind # "recall" =>
            owner' = [owner EXCEPT ![c] = s.account] /\ recalls' = recalls
    BY DEF Applied
<1>2. /\ TypeOK /\ WalletOK /\ SubmissionsOK /\ RepeatsAccountedFor /\ OperationsOK
      /\ s \in Submission
    BY Parts DEF TypeOK
<1>3. /\ submissions' = (submissions \ {s}) \cup {t}
      /\ t \in Submission /\ t.n = s.n /\ t.kind = s.kind
      /\ t.batch = c /\ t.account = s.account /\ t.status = "applied"
      /\ submissions' \subseteq Submission
    BY <1>1, <1>2, BecomesKeeps
<1>4. /\ c \in Batch /\ s.account \in Account /\ s.kind \in {"register", "recall"}
      /\ s.n \in 1..submitted
    BY <1>2 DEF Submission, SubmissionsOK, TypeOK
<1> HIDE DEF t, c
<1>5. /\ \A b \in Batch : owner[b] # None => owner'[b] = owner[b]
      /\ WalletOK' /\ owner'[c] # None
    <2>1. CASE s.kind = "recall"
        <3>1. owner' = owner /\ owner[c] = s.account
            BY <1>1, <2>1 DEF Acceptable, c
        <3>2. WalletOK'
            BY <1>1, <1>2, <3>1, WalletKept DEF walletVars, page, history
        <3> QED BY <1>4, <3>1, <3>2, ConstantsAssumption
    <2>2. CASE s.kind = "register"
        <3>1. owner[c] = None /\ owner' = [owner EXCEPT ![c] = s.account]
            BY <1>1, <2>2 DEF Acceptable, c
        <3>2. WalletOK' /\ \A b \in Batch : owner[b] # None => owner'[b] = owner[b]
            BY <1>1, <1>4, <3>1, OwnerKeeps DEF history
        <3>3. owner'[c] = s.account
            BY <1>2, <1>4, <3>1 DEF TypeOK
        <3> QED BY <1>4, <3>2, <3>3, ConstantsAssumption
    <2> QED BY <1>4, <2>1, <2>2
<1>6. \A b \in Batch : recalls'[b] = recalls[b] \cup
                        {n \in {s.n} : s.kind = "recall" /\ b = c}
    BY <1>1, <1>2, <1>4 DEF TypeOK
<1>7. TypeOK'
    <2>1. recalls' \in [Batch -> SUBSET (1..submitted)]
        <3>1. CASE s.kind = "recall"
            BY <3>1, <1>1, <1>2, <1>4 DEF TypeOK
        <3>2. CASE s.kind # "recall"
            BY <3>2, <1>1, <1>2 DEF TypeOK
        <3> QED BY <3>1, <3>2
    <2>2. owner' \in [Batch -> Account \cup {None}]
        BY <1>1, <1>2, <1>4 DEF TypeOK
    <2> QED BY <1>1, <1>2, <1>3, <2>1, <2>2 DEF TypeOK, Mounted, page, history
<1>8. SubmissionsOK'
    <2>1. ASSUME NEW u \in submissions'
          PROVE  /\ u.n <= submitted
                 /\ \A v \in submissions' : v.n = u.n => v = u
                 /\ \A b \in Batch :
                        u.n \in recalls'[b] <=>
                            u.kind = "recall" /\ u.batch = b /\ u.status = "applied"
                 /\ u.kind = "register" /\ u.status = "applied" => owner'[u.batch] # None
        <3>1. CASE u = t
            BY <3>1, <1>1, <1>2, <1>3, <1>5, <1>6 DEF SubmissionsOK
        <3>2. CASE u \in submissions \ {s}
            <4>1. u.n # s.n /\ u \in Submission
                BY <3>2, <1>2 DEF SubmissionsOK, TypeOK
            <4>2. u.batch \in Batch
                BY <4>1 DEF Submission
            <4> QED BY <3>2, <4>1, <4>2, <1>2, <1>3, <1>5, <1>6 DEF SubmissionsOK
        <3> QED BY <1>3, <3>1, <3>2
    <2>2. form.submission # 0 =>
            \E u \in submissions' :
                u.n = form.submission /\ <<u.kind, u.batch>> \notin done
        BY <1>2, <1>3 DEF SubmissionsOK, c
    <2> QED BY <1>1, <2>1, <2>2 DEF SubmissionsOK, history
<1>9. OperationsOK'
    <2>1. \A x \in done : x[2] \in Batch
        BY <1>2 DEF TypeOK
    <2>2. \A x \in done :
            IF x[1] = "recall" THEN recalls'[x[2]] # {} ELSE owner'[x[2]] # None
        BY <2>1, <1>2, <1>5, <1>6 DEF OperationsOK
    <2>3. \A u \in submissions' : u.kind = "recall" /\ ~reconnected =>
                                    owner'[u.batch] = u.account
        <3>1. \A u \in submissions : u.kind = "recall" /\ ~reconnected =>
                owner[u.batch] = u.account /\ u.batch \in Batch /\ u.account \in Account
            BY <1>2 DEF OperationsOK, TypeOK, Submission
        <3> QED BY <3>1, <1>3, <1>5, ConstantsAssumption DEF c
    <2> QED BY <2>2, <2>3, <1>1 DEF OperationsOK, history
<1>10. RepeatsAccountedFor'
    <2>1. \A b \in Batch : Underway(b)' \subseteq Underway(b)
        <3> SUFFICES ASSUME NEW b \in Batch, NEW x \in Underway(b)'
                     PROVE  x \in Underway(b)
            OBVIOUS
        <3>1. CASE x \in recalls'[b]
            BY <3>1, <1>1, <1>6 DEF Underway, c
        <3>2. CASE x \notin recalls'[b]
            BY <3>2, <1>3 DEF Underway
        <3> QED BY <3>1, <3>2
    <2>2. \A b \in Batch : Unaccounted(b)' \subseteq Unaccounted(b)
        BY <1>1, <2>1 DEF Unaccounted, history
    <2>3. faults' \in Nat /\ faults' >= faults /\ done \subseteq done'
        BY <1>1, <1>2 DEF TypeOK, history
    <2> QED BY <1>2, <2>2, <2>3, NoneAdded
<1> QED BY <1>5, <1>7, <1>8, <1>9, <1>10, Parts, PTL

\* One that is refused is underway no more.
LEMMA RefusedKeeps ==
    ASSUME IInv, NEW s \in submissions, Refused(s)
    PROVE  IInv'
<1> DEFINE t == [s EXCEPT !.status = "refused"]
<1>1. /\ s.status = "sent" /\ Becomes(s, "refused")
      /\ UNCHANGED <<chain, page, form, connects, loaded, submitted, faults,
                     history>>
    BY DEF Refused
<1>2. TypeOK /\ WalletOK /\ SubmissionsOK /\ RepeatsAccountedFor /\ OperationsOK
    BY Parts
<1>3. /\ submissions' = (submissions \ {s}) \cup {t}
      /\ t \in Submission /\ t.n = s.n /\ t.kind = s.kind
      /\ t.batch = s.batch /\ t.account = s.account /\ t.status = "refused"
      /\ submissions' \subseteq Submission
    BY <1>1, <1>2, BecomesKeeps
<1> HIDE DEF t
<1>4. TypeOK'
    BY <1>1, <1>2, <1>3 DEF TypeOK, Mounted, chain, page, history
<1>5. WalletOK'
    BY <1>1, <1>2, WalletKept DEF walletVars, chain, page, history
<1>6. SubmissionsOK'
    <2>1. ASSUME NEW u \in submissions'
          PROVE  /\ u.n <= submitted
                 /\ \A v \in submissions' : v.n = u.n => v = u
                 /\ \A b \in Batch :
                        u.n \in recalls[b] <=>
                            u.kind = "recall" /\ u.batch = b /\ u.status = "applied"
                 /\ u.kind = "register" /\ u.status = "applied" => owner[u.batch] # None
        <3>1. CASE u = t
            BY <3>1, <1>1, <1>2, <1>3 DEF SubmissionsOK
        <3>2. CASE u \in submissions \ {s}
            BY <3>2, <1>2, <1>3 DEF SubmissionsOK
        <3> QED BY <1>3, <3>1, <3>2
    <2>2. form.submission # 0 =>
            \E u \in submissions' :
                u.n = form.submission /\ <<u.kind, u.batch>> \notin done
        BY <1>2, <1>3 DEF SubmissionsOK
    <2> QED BY <1>1, <2>1, <2>2 DEF SubmissionsOK, chain, history
<1>7. OperationsOK'
    BY <1>1, <1>2, <1>3 DEF OperationsOK, chain, history
<1>8. RepeatsAccountedFor'
    <2>1. \A b \in Batch : Underway(b)' \subseteq Underway(b)
        BY <1>1, <1>3 DEF Underway, chain
    <2>2. \A b \in Batch : Unaccounted(b)' \subseteq Unaccounted(b)
        BY <1>1, <2>1 DEF Unaccounted, history
    <2>3. faults' \in Nat /\ faults' >= faults /\ done \subseteq done'
        BY <1>1, <1>2 DEF TypeOK, history
    <2> QED BY <1>2, <2>2, <2>3, NoneAdded
<1> QED BY <1>4, <1>5, <1>6, <1>7, <1>8, Parts, PTL

-----------------------------------------------------------------------------
(* The answer *)

\* The form that gets an answer waits for its submission only, and adds that one
\* to what is unaccounted for, if it was underway.
LEMMA AnswerReleases ==
    ASSUME TypeOK, SubmissionsOK, NEW s \in submissions,
           form.submission = s.n, form'.submission = 0, abandoned' = abandoned,
           \A b \in Batch : Underway(b)' = Underway(b)
    PROVE  /\ \A b \in Batch : Unaccounted(b)' \subseteq Unaccounted(b) \cup {s.n}
           /\ \A b \in Batch : s.n \notin Underway(b) =>
                    Unaccounted(b)' \subseteq Unaccounted(b)
BY DEF Unaccounted

\* The form waits for an operation that is not known to be done.
LEMMA WaitsForUndone ==
    ASSUME TypeOK, SubmissionsOK, NEW s \in submissions, form.submission = s.n
    PROVE  <<s.kind, s.batch>> \notin done
<1>1. s.n # 0
    BY DEF TypeOK, Submission
<1>2. PICK t \in submissions :
            t.n = form.submission /\ <<t.kind, t.batch>> \notin done
    BY <1>1 DEF SubmissionsOK
<1>3. t = s
    BY <1>2 DEF SubmissionsOK
<1> QED BY <1>2, <1>3

\* A form that gets its answer adds a recall to the account only if it can say that it
\* is issued, which it had not said before.
LEMMA ReportKeeps ==
    ASSUME IInv, NEW s \in submissions, Report(s)
    PROVE  IInv'
<1> DEFINE c == s.batch
<1>1. /\ s.status # "sent" /\ submissions' = submissions \ {s}
      /\ Show(s, Message(s))
      /\ UNCHANGED <<chain, page, connects, loaded, submitted, faults, abandoned,
                     reconnected>>
    BY DEF Report
<1>2. /\ TypeOK /\ WalletOK /\ SubmissionsOK /\ RepeatsAccountedFor /\ OperationsOK
      /\ s \in Submission
    BY Parts DEF TypeOK
<1>3. WalletOK'
    BY <1>1, <1>2, WalletKept DEF walletVars, chain, page
<1>4. \A b \in Batch : Underway(b)' = Underway(b)
    BY <1>1 DEF Underway, chain
<1>5. /\ c \in Batch /\ s.kind \in {"register", "recall"} /\ s.n \in 1..submitted
      /\ s.status \in {"applied", "refused"}
    BY <1>1, <1>2 DEF Submission, SubmissionsOK, TypeOK
<1>6. faults \in Nat /\ UNCHANGED <<faults, abandoned, recalls, owner, reconnected>>
    BY <1>1, <1>2 DEF TypeOK, chain
<1>7. CASE form.submission # s.n
    <2>1. form' = form /\ done' = done
        BY <1>1, <1>7 DEF Show
    <2>2. TypeOK'
        BY <1>1, <1>2, <2>1 DEF TypeOK, Mounted, chain, page
    <2>3. SubmissionsOK'
        BY <1>1, <1>2, <1>7, <2>1 DEF SubmissionsOK, chain
    <2>4. OperationsOK'
        BY <1>1, <1>2, <2>1 DEF OperationsOK, chain
    <2>5. \A b \in Batch : Unaccounted(b)' \subseteq Unaccounted(b)
        BY <1>4, <1>6, <2>1 DEF Unaccounted
    <2>6. RepeatsAccountedFor'
        BY <1>2, <1>6, <2>1, <2>5, NoneAdded
    <2> QED BY <1>3, <2>2, <2>3, <2>4, <2>6, Parts, PTL
<1>8. CASE form.submission = s.n
    <2>1. /\ form' = [submission |-> 0, shows |-> Message(s)]
          /\ form'.submission = 0
          /\ done' = done \cup {x \in {<<s.kind, c>>} : s.status = "applied"}
        BY <1>1, <1>8 DEF Show, Message
    <2>2. /\ form' \in [submission : 0..submitted, shows : {"none", "success", "error"}]
          /\ done' \subseteq {"register", "recall"} \X Batch
        BY <1>2, <1>5, <2>1 DEF TypeOK, Message
    <2>3. TypeOK'
        BY <1>1, <1>2, <2>1, <2>2 DEF TypeOK, chain, page
    <2>4. SubmissionsOK'
        BY <1>1, <1>2, <2>1 DEF SubmissionsOK, chain
    <2>5. OperationsOK'
        <3>1. s.status = "applied" =>
                IF s.kind = "recall" THEN recalls[c] # {} ELSE owner[c] # None
            BY <1>2, <1>5 DEF SubmissionsOK
        <3>2. \A x \in done' :
                IF x[1] = "recall" THEN recalls[x[2]] # {} ELSE owner[x[2]] # None
            BY <1>2, <2>1, <3>1 DEF OperationsOK
        <3> QED BY <1>1, <1>2, <1>6, <3>2 DEF OperationsOK
    <2>6. done \subseteq done' /\ <<s.kind, c>> \notin done
        BY <1>2, <1>8, <2>1, WaitsForUndone
    <2> HIDE DEF c
    <2>7. /\ \A b \in Batch : Unaccounted(b)' \subseteq Unaccounted(b) \cup {s.n}
          /\ \A b \in Batch : s.n \notin Underway(b) =>
                    Unaccounted(b)' \subseteq Unaccounted(b)
        BY <1>1, <1>2, <1>4, <1>8, <2>1, AnswerReleases
    <2>8. \A b \in Batch : s.n \in Underway(b) <=>
                s.kind = "recall" /\ c = b /\ s.status = "applied"
        BY <1>2, <1>5, UnderwayOf DEF c
    <2>9. RepeatsAccountedFor'
        <3>1. CASE s.kind = "recall" /\ s.status = "applied"
            <4>1. <<"recall", c>> \notin done /\ <<"recall", c>> \in done'
                BY <3>1, <2>1, <2>6
            <4>2. \A b \in Batch \ {c} : Unaccounted(b)' \subseteq Unaccounted(b)
                BY <2>7, <2>8
            <4>3. Unaccounted(c)' \subseteq Unaccounted(c) \cup {s.n}
                BY <1>5, <2>7
            <4> QED BY <1>2, <1>5, <1>6, <2>6, <4>1, <4>2, <4>3, OneAdded
        <3>2. CASE ~(s.kind = "recall" /\ s.status = "applied")
            <4>1. \A b \in Batch : Unaccounted(b)' \subseteq Unaccounted(b)
                BY <3>2, <2>7, <2>8
            <4> QED BY <1>2, <1>6, <2>6, <4>1, NoneAdded
        <3> QED BY <3>1, <3>2
    <2> QED BY <1>3, <2>3, <2>4, <2>5, <2>9, Parts, PTL
<1> QED BY <1>7, <1>8

\* A lost answer adds a recall, and a fault that pays for it.
LEMMA AnswerLostKeeps ==
    ASSUME IInv, NEW s \in submissions, AnswerLost(s)
    PROVE  IInv'
<1>1. /\ form.submission = s.n /\ faults' = faults + 1
      /\ form' = [submission |-> 0, shows |-> "error"] /\ form'.submission = 0
      /\ done' = done
      /\ UNCHANGED <<chain, page, submissions, connects, loaded, submitted,
                     abandoned, reconnected>>
    <2>1. /\ form.submission = s.n /\ faults' = faults + 1 /\ Show(s, "error")
          /\ UNCHANGED <<chain, page, submissions, connects, loaded, submitted,
                         abandoned, reconnected>>
        BY DEF AnswerLost
    <2>2. /\ form' = [submission |-> 0, shows |-> "error"]
          /\ done' = done \cup {x \in {<<s.kind, s.batch>>} : "error" = "success"}
        BY <2>1 DEF Show
    <2>3. done' = done
        <3>1. {x \in {<<s.kind, s.batch>>} : "error" = "success"} = {}
            OBVIOUS
        <3> QED BY <2>2, <3>1
    <2> QED BY <2>1, <2>2, <2>3
<1>2. /\ TypeOK /\ WalletOK /\ SubmissionsOK /\ RepeatsAccountedFor /\ OperationsOK
      /\ s \in Submission
    BY Parts DEF TypeOK
<1>3. faults' \in Nat /\ s.batch \in Batch
    BY <1>1, <1>2 DEF TypeOK, Submission
<1>4. TypeOK'
    <2>1. form' \in [submission : 0..submitted, shows : {"none", "success", "error"}]
        BY <1>1, <1>2 DEF TypeOK
    <2> QED BY <1>1, <1>2, <1>3, <2>1 DEF TypeOK, chain, page
<1>5. WalletOK'
    BY <1>1, <1>2, WalletKept DEF walletVars, chain, page
<1>6. SubmissionsOK' /\ OperationsOK'
    BY <1>1, <1>2 DEF SubmissionsOK, OperationsOK, chain
<1>7. RepeatsAccountedFor'
    <2>1. \A b \in Batch : Underway(b)' = Underway(b)
        BY <1>1 DEF Underway, chain
    <2>2. /\ \A b \in Batch : Unaccounted(b)' \subseteq Unaccounted(b) \cup {s.n}
          /\ \A b \in Batch : s.n \notin Underway(b) =>
                    Unaccounted(b)' \subseteq Unaccounted(b)
        BY <1>1, <1>2, <2>1, AnswerReleases
    <2>3. \A b \in Batch \ {s.batch} : s.n \notin Underway(b)
        BY <1>2, UnderwayOf
    <2>4. \A b \in Batch \ {s.batch} : Unaccounted(b)' \subseteq Unaccounted(b)
        BY <2>2, <2>3
    <2>5. Unaccounted(s.batch)' \subseteq Unaccounted(s.batch) \cup {s.n}
        <3> HIDE DEF Unaccounted
        <3> QED BY <1>3, <2>2
    <2> QED BY <1>1, <1>2, <1>3, <2>4, <2>5, OneAdded
<1> QED BY <1>4, <1>5, <1>6, <1>7, Parts, PTL

-----------------------------------------------------------------------------
(* The invariant *)

\* The page opens with nothing shown and nothing sent.
LEMMA InitOK == Init => IInv
<1> SUFFICES ASSUME Init PROVE IInv
    OBVIOUS
<1>1. /\ recalls = [b \in Batch |-> {}] /\ submissions = {} /\ loads = {}
      /\ form = FreshForm /\ form.submission = 0 /\ done = {} /\ faults = 0
      /\ wallet = None /\ batches = {} /\ manufacturerId = None /\ connecting = 0
    BY DEF Init, FreshForm
<1>2. TypeOK
    <2>1. /\ form \in [submission : 0..0, shows : {"none", "success", "error"}]
          /\ tab \in Tab
        BY DEF Init, FreshForm, Tab
    <2>2. owner \in [Batch -> Account \cup {None}] /\ submitted = 0
        BY DEF Init
    <2>3. recalls \in [Batch -> SUBSET (1..submitted)]
        BY <1>1
    <2>4. loads \subseteq Load /\ submissions \subseteq Submission
        BY <1>1
    <2>5. {connects, loaded, submitted, faults} \subseteq Nat /\ connecting \in Nat
        BY DEF Init
    <2>6. /\ wallet \in Account \cup {None} /\ manufacturerId \in Account \cup {None}
          /\ loading \in BOOLEAN /\ loadError \in BOOLEAN /\ reconnected \in BOOLEAN
          /\ manufacturers = {} /\ abandoned = {}
        BY <1>1 DEF Init
    <2> QED BY <1>1, <2>1, <2>2, <2>3, <2>4, <2>5, <2>6 DEF TypeOK
<1>3. WalletOK
    BY <1>1 DEF WalletOK, LoadsAreOfWallet, ShownIsOfWallet
<1>4. SubmissionsOK /\ OperationsOK
    BY <1>1 DEF SubmissionsOK, OperationsOK
<1>5. RepeatsAccountedFor
    <2>1. \A b \in Batch : Unaccounted(b) = {}
        BY <1>1 DEF Unaccounted, Underway
    <2>2. Cardinality({}) = 0
        BY FS_EmptySet
    <2> QED BY <1>1, <2>1, <2>2 DEF RepeatsAccountedFor, Unaccounted
<1> QED BY <1>2, <1>3, <1>4, <1>5, Parts

\* Every step keeps the invariant.
LEMMA NextKeeps == IInv /\ [Next]_vars => IInv'
<1> SUFFICES ASSUME IInv, [Next]_vars PROVE IInv'
    OBVIOUS
<1>1. ASSUME NEW a \in Account, RegisterManufacturer(a) PROVE IInv'
    BY <1>1, ManufacturerKeeps
<1>2. ASSUME NEW a \in Account, NEW b \in Batch, RegisterBatchElsewhere(a, b)
      PROVE  IInv'
    BY <1>2, BatchElsewhereKeeps
<1>3. ASSUME handleConnect PROVE IInv'
    BY <1>3, ConnectKeeps
<1>4. ASSUME NEW a \in Account \cup {None}, Connected(a) PROVE IInv'
    BY <1>4, ConnectedKeeps
<1>5. ASSUME Refresh PROVE IInv'
    BY <1>5, RefreshKeeps
<1>6. ASSUME NEW l \in loads, ReadId(l) PROVE IInv'
    BY <1>6, ReadIdKeeps
<1>7. ASSUME NEW l \in loads, ReadBatches(l) PROVE IInv'
    BY <1>7, ReadBatchesKeeps
<1>8. ASSUME NEW l \in loads, Loaded(l) \/ LoadFails(l) PROVE IInv'
    BY <1>8, EndLoadKeeps
<1>9. ASSUME NEW t \in Tab, SwitchTab(t) PROVE IInv'
    BY <1>9, SwitchTabKeeps
<1>10. ASSUME NEW kind \in {"register", "recall"}, NEW b \in Batch,
              handleSubmit(kind, b)
       PROVE  IInv'
    BY <1>10, SubmitKeeps
<1>11. ASSUME NEW s \in submissions, Applied(s) PROVE IInv'
    BY <1>11, AppliedKeeps
<1>12. ASSUME NEW s \in submissions, Refused(s) PROVE IInv'
    BY <1>12, RefusedKeeps
<1>13. ASSUME NEW s \in submissions, Report(s) PROVE IInv'
    BY <1>13, ReportKeeps
<1>14. ASSUME NEW s \in submissions, AnswerLost(s) PROVE IInv'
    BY <1>14, AnswerLostKeeps
<1>15. CASE UNCHANGED vars
    <2>1. TypeOK /\ WalletOK /\ SubmissionsOK /\ RepeatsAccountedFor /\ OperationsOK
        BY Parts
    <2>2. TypeOK'
        BY <1>15, <2>1 DEF TypeOK, Mounted, vars, chain, page, history
    <2>3. WalletOK'
        BY <1>15, <2>1, WalletKept DEF walletVars, vars, chain, page, history
    <2>4. SubmissionsOK' /\ RepeatsAccountedFor' /\ OperationsOK'
        BY <1>15, <2>1, FormKept DEF formVars, vars, chain, page, history
    <2> QED BY <2>2, <2>3, <2>4, Parts, PTL
<1> QED BY <1>1, <1>2, <1>3, <1>4, <1>5, <1>6, <1>7, <1>8, <1>9, <1>10, <1>11,
           <1>12, <1>13, <1>14, <1>15 DEF Next

\* The page, its loads and its submissions are always consistent.
THEOREM Invariant == Spec => []IInv
BY InitOK, NextKeeps, PTL DEF Spec

\* The id and the batches under an address are always that address's, unless two
\* wallet requests were open at once.
THEOREM ShownAlwaysOfWallet == Spec => []ShownIsOfWallet
<1>1. IInv => ShownIsOfWallet
    BY DEF IInv
<1> QED BY <1>1, Invariant, PTL

\* What the page says is done is done, and a recall is always of a batch of its
\* sender's.
THEOREM RecallsAlwaysNameOwnBatches == Spec => []RecallsNameOwnBatches
<1>1. IInv => RecallsNameOwnBatches
    BY DEF IInv
<1> QED BY <1>1, Invariant, PTL

\* A recall of b has its submission abandoned, or waited for by the form, or is
\* accounted for by a lost answer or by the one that the page has said is issued.
LEMMA RepeatsBounded == IInv => RepeatsNeedALostForm
<1> SUFFICES ASSUME IInv, NEW b \in Batch
             PROVE  Cardinality(recalls[b]) <= 1 + Cardinality(abandoned) + faults
    BY DEF RepeatsNeedALostForm
<1> DEFINE gone == Unaccounted(b) \cup abandoned
           waits == <<"recall", b>> \notin done
<1>1. TypeOK /\ SubmissionsOK /\ RepeatsAccountedFor
    BY Parts
<1>2. /\ IsFiniteSet(Unaccounted(b)) /\ Cardinality(Unaccounted(b)) \in Nat
      /\ Cardinality(Unaccounted(b))
            <= faults + (IF <<"recall", b>> \in done THEN 1 ELSE 0)
      /\ faults \in Nat
    BY <1>1, UnaccountedFinite DEF RepeatsAccountedFor, Unaccounted, TypeOK
<1>3. IsFiniteSet(abandoned) /\ Cardinality(abandoned) \in Nat
    <2>1. abandoned \subseteq 1..submitted /\ submitted \in Nat
        BY <1>1 DEF TypeOK
    <2>2. IsFiniteSet(1..submitted)
        BY <2>1, FS_Interval
    <2> QED BY <2>1, <2>2, FS_Subset, FS_CardinalityType
<1>4. /\ IsFiniteSet(gone) /\ Cardinality(gone) \in Nat
      /\ Cardinality(gone) <= Cardinality(Unaccounted(b)) + Cardinality(abandoned)
    <2>1. /\ IsFiniteSet(gone)
          /\ Cardinality(gone) = Cardinality(Unaccounted(b)) + Cardinality(abandoned)
                                    - Cardinality(Unaccounted(b) \cap abandoned)
        BY <1>2, <1>3, FS_Union
    <2>2. IsFiniteSet(Unaccounted(b) \cap abandoned)
        BY <1>2, FS_Intersection
    <2>3. Cardinality(Unaccounted(b) \cap abandoned) \in Nat
        BY <2>2, FS_CardinalityType
    <2> QED BY <2>1, <2>3, <1>2, <1>3, FS_CardinalityType
<1>5. CASE form.submission \notin recalls[b]
    <2>1. recalls[b] \subseteq gone
        BY <1>5 DEF Unaccounted, Underway
    <2>2. Cardinality(recalls[b]) <= Cardinality(gone) /\ IsFiniteSet(recalls[b])
        BY <1>4, <2>1, FS_Subset
    <2>3. Cardinality(recalls[b]) \in Nat
        BY <2>2, FS_CardinalityType
    <2> QED BY <1>2, <1>3, <1>4, <2>2, <2>3
\* The form waits for a recall of b, which then is not known to be issued.
<1>6. CASE form.submission \in recalls[b]
    <2>1. waits
        <3>1. form.submission # 0
            BY <1>1, <1>6 DEF TypeOK
        <3>2. PICK s \in submissions :
                    s.n = form.submission /\ <<s.kind, s.batch>> \notin done
            BY <1>1, <3>1 DEF SubmissionsOK
        <3>3. s.kind = "recall" /\ s.batch = b
            BY <1>1, <1>6, <3>2 DEF SubmissionsOK
        <3> QED BY <3>2, <3>3
    <2> DEFINE all == gone \cup {form.submission}
    <2>2. recalls[b] \subseteq all
        BY DEF Unaccounted, Underway
    <2>3. /\ IsFiniteSet(all)
          /\ \/ Cardinality(all) = Cardinality(gone)
             \/ Cardinality(all) = Cardinality(gone) + 1
        BY <1>4, FS_AddElement
    <2>4. Cardinality(recalls[b]) <= Cardinality(all) /\ IsFiniteSet(recalls[b])
        BY <2>2, <2>3, FS_Subset
    <2>5. Cardinality(recalls[b]) \in Nat
        BY <2>4, FS_CardinalityType
    <2> QED BY <1>2, <1>3, <1>4, <2>1, <2>3, <2>4, <2>5
<1> QED BY <1>5, <1>6

\* A recall is never issued more often than forms and answers were lost, but for once.
THEOREM RepeatsAlwaysNeedALostForm == Spec => []RepeatsNeedALostForm
BY Invariant, RepeatsBounded, PTL

\* Only a load that ends changes what is shown, and it has read what is shown.
LEMMA StepKeepsTheList ==
    ASSUME IInv, [Next]_vars, ~reconnected'
    PROVE  /\ batches \subseteq batches'
           /\ manufacturerId # None => manufacturerId' = manufacturerId
<1>1. CASE \E l \in loads : Loaded(l)
    <2>1. PICK l \in loads : Loaded(l)
        BY <1>1
    <2>2. /\ manufacturerId' \in l.id /\ batches' \in l.batches
          /\ reconnected' = reconnected
        BY <2>1 DEF Loaded, EndLoad, history
    <2>3. /\ \A id \in l.id : manufacturerId # None => id = manufacturerId
          /\ \A list \in l.batches : batches \subseteq list
        BY <2>2, Parts DEF WalletOK, LoadsAreOfWallet
    <2> QED BY <2>2, <2>3
<1>2. CASE ~\E l \in loads : Loaded(l)
    <2>1. UNCHANGED <<manufacturerId, batches>>
        BY <1>2 DEF Next, vars, page, RegisterManufacturer, RegisterBatchElsewhere,
            handleConnect, Connected, Refresh, ReadId, ReadBatches, Reading,
            LoadFails, SwitchTab, handleSubmit, Applied, Refused, Report, AnswerLost
    <2> QED BY <2>1
<1> QED BY <1>1, <1>2

\* What is shown stays shown, unless two wallet requests were open at once.
THEOREM ListOnlyGrows == Spec => ListNeverShrinks
<1>1. IInv /\ [Next]_vars =>
        [~reconnected' =>
            /\ batches \subseteq batches'
            /\ manufacturerId # None => manufacturerId' = manufacturerId]_vars
    BY StepKeepsTheList
<1> QED BY <1>1, Invariant, PTL DEF Spec, ListNeverShrinks

-----------------------------------------------------------------------------
(* The verify form *)

\* What a camera can be in.
CameraStates == {"loading", "starting", "running", "stopping", "off"}

\* The variables of the requests, and those of the cameras.
requestVars == <<code, checking, error, result, requests, pending, since>>
scannerVars == <<scanning, scanner, ref, cut>>

\* What the invariant says of the request side of the form.
RequestsOK ==
    /\ code \in Code \cup {NoCode}
    /\ checking \in BOOLEAN
    /\ error \in {"none", "unreadable", "failed"}
    /\ pending \subseteq DOMAIN requests
    /\ result \in (0..Len(requests)) \ pending
    /\ requests \in Seq(Code) /\ since \in 0..Len(requests)
    /\ OneRequestAtATime
    /\ VerdictIsOfLastRequest
    /\ CheckingMeansPending

\* What the invariant says of the cameras.
ScannersOK ==
    /\ scanning \in BOOLEAN
    /\ scanner \in Seq(CameraStates)
    /\ ref \subseteq DOMAIN scanner /\ cut \subseteq DOMAIN scanner
    /\ RefIsOfScanner

\* The two halves of the invariant speak of different variables.
LEMMA Halves == ScanInv <=> RequestsOK /\ ScannersOK
BY DEF ScanInv, ScanTypeOK, RequestsOK, ScannersOK, CameraStates

\* A step that leaves a half's variables alone keeps it.
LEMMA HalfKept ==
    /\ RequestsOK /\ UNCHANGED requestVars => RequestsOK'
    /\ ScannersOK /\ UNCHANGED scannerVars => ScannersOK'
BY DEF RequestsOK, requestVars, ScannersOK, scannerVars, mount,
       OneRequestAtATime, VerdictIsOfLastRequest,
       CheckingMeansPending, RefIsOfScanner

-----------------------------------------------------------------------------
(* Requests *)

\* A request, made by the button when none is on its way or by a scan at any time,
\* keeps the form consistent: only a scan can overlap.
LEMMA RunVerifyKeeps ==
    ASSUME RequestsOK, NEW c \in Code, runVerify(c), code' \in Code,
           \/ pending # {} /\ since' = since /\ since' <= Len(requests)
           \/ pending = {} /\ since' = Len(requests) + 1
    PROVE  RequestsOK'
<1> DEFINE n == Len(requests)
<1>1. /\ requests' = Append(requests, c) /\ pending' = pending \cup {n + 1}
      /\ checking' = TRUE /\ error' = "none" /\ result' = result
    BY DEF runVerify
<1>2. /\ n \in Nat /\ DOMAIN requests = 1..n
      /\ requests' \in Seq(Code) /\ Len(requests') = n + 1
      /\ DOMAIN requests' = 1..(n + 1)
    BY <1>1 DEF RequestsOK
<1>3. /\ pending' \subseteq DOMAIN requests'
      /\ result' \in (0..Len(requests')) \ pending'
    BY <1>1, <1>2 DEF RequestsOK
<1>4. since \in 0..n /\ pending \subseteq since..n
    BY DEF RequestsOK, OneRequestAtATime
<1>5. since' \in 0..(n + 1) /\ pending' \subseteq since'..(n + 1)
    <2>1. CASE pending # {} /\ since' = since
        <3>1. since' \in Int /\ 0 <= since' /\ since' <= n
            BY <1>2, <1>4, <2>1
        <3>2. \A i \in pending : i \in Int /\ since' <= i /\ i <= n
            BY <1>4, <2>1
        <3>3. \A i \in pending' : i \in pending \/ i = n + 1
            BY <1>1
        <3> QED BY <1>2, <3>1, <3>2, <3>3
    <2>2. CASE pending = {} /\ since' = n + 1
        BY <1>1, <1>2, <2>2
    <2> QED BY <2>1, <2>2
<1>6. OneRequestAtATime'
    BY <1>1, <1>2, <1>5 DEF OneRequestAtATime
<1>7. VerdictIsOfLastRequest' /\ CheckingMeansPending'
    BY <1>1, <1>2 DEF VerdictIsOfLastRequest, CheckingMeansPending
<1> QED BY <1>1, <1>2, <1>3, <1>5, <1>6, <1>7 DEF RequestsOK

\* The button makes a request only when none is on its way.
LEMMA ButtonKeeps ==
    ASSUME RequestsOK, Submit
    PROVE  RequestsOK'
<1>1. code \in Code /\ ~checking /\ runVerify(code)
      /\ UNCHANGED code
    BY DEF Submit, Submittable, RequestsOK
<1>2. /\ Len(requests) \in Nat /\ since \in 0..Len(requests)
      /\ since' = IF pending # {} /\ since < Len(requests)
                  THEN since ELSE Len(requests) + 1
    BY DEF Submit, RequestsOK
<1>3. pending # {} => since < Len(requests)
    BY <1>1, <1>2 DEF RequestsOK, OneRequestAtATime
<1> QED BY <1>1, <1>2, <1>3, RunVerifyKeeps DEF RequestsOK

\* Editing the fields keeps the form consistent.
LEMMA EditKeeps ==
    ASSUME RequestsOK, Edit
    PROVE  RequestsOK'
BY DEF Edit, RequestsOK, OneRequestAtATime,
       VerdictIsOfLastRequest, CheckingMeansPending

\* From the last request on there is one number.
LEMMA LastAlone ==
    ASSUME NEW n \in Nat, NEW first, first = n, NEW S, S \subseteq first..n
    PROVE  S \subseteq {n}
OBVIOUS

\* An answer, in whatever order it comes, keeps the form consistent.
LEMMA AnswerKeeps ==
    ASSUME RequestsOK, NEW q \in pending, Respond(q) \/ RespondError(q)
    PROVE  RequestsOK'
<1> DEFINE n == Len(requests)
<1>1. /\ pending' = pending \ {q} /\ checking' = FALSE
      /\ UNCHANGED <<code, requests, since>>
      /\ result' \in {q, 0} /\ error' \in {error, "failed"}
    BY DEF Respond, RespondError, Answered
<1>2. /\ n \in Nat /\ DOMAIN requests = 1..n /\ q \in 1..n
      /\ pending \subseteq 1..n
    BY DEF RequestsOK
<1>3. result' \in (0..n) \ pending'
    BY <1>1, <1>2
<1>4. /\ since \in 0..n /\ pending \subseteq since..n
      /\ (checking => n \in pending)
      /\ (since = n /\ pending # {} => checking)
    BY <1>2 DEF RequestsOK, OneRequestAtATime, CheckingMeansPending
<1>5. OneRequestAtATime'
    <2>1. pending' \subseteq since'..Len(requests')
        BY <1>1, <1>4
    <2>2. ASSUME since = n, pending' # {} PROVE FALSE
        <3>1. pending \subseteq {n}
            BY <1>2, <1>4, <2>2, LastAlone
        <3> QED BY <1>1, <2>2, <3>1
    <2> QED BY <1>1, <2>1, <2>2 DEF OneRequestAtATime
<1>6. VerdictIsOfLastRequest' /\ CheckingMeansPending'
    BY <1>1, <1>2, <1>4 DEF VerdictIsOfLastRequest, CheckingMeansPending
<1> QED BY <1>1, <1>2, <1>3, <1>4, <1>5, <1>6 DEF RequestsOK

-----------------------------------------------------------------------------
(* Cameras *)

\* A camera that changes its state by itself stays one of the states, and one that
\* is new to starting is referred to.
LEMMA CameraKeeps ==
    ASSUME ScannersOK, NEW m \in DOMAIN scanner, NEW state \in CameraStates,
           scanner' = [scanner EXCEPT ![m] = state],
           UNCHANGED <<scanning, cut>>,
           ref' = ref \/ (ref' = ref \cup {m} /\ scanning /\ m = mount),
           state \in {"starting", "running"} => m \in ref' \/ m \in cut
    PROVE  ScannersOK'
<1>1. /\ scanner' \in Seq(CameraStates) /\ DOMAIN scanner' = DOMAIN scanner
      /\ mount' = mount
      /\ scanner'[m] = state
      /\ \A i \in DOMAIN scanner : i # m => scanner'[i] = scanner[i]
    BY DEF ScannersOK, mount
<1> QED BY <1>1 DEF ScannersOK, RefIsOfScanner

\* Stopping the scanner on the screen, if there is one, and any others leaves no
\* camera unattended but those cut off while they started.
LEMMA StopKeeps ==
    ASSUME ScannersOK, NEW mounts \in SUBSET DOMAIN scanner, Stop(mounts),
           scanning => mount \in mounts,
           scanning' = FALSE
    PROVE  ScannersOK'
<1>1. /\ ref' = ref \ mounts
      /\ DOMAIN scanner' = DOMAIN scanner
      /\ \A m \in DOMAIN scanner :
            scanner'[m] = IF m \in mounts \cap ref /\ scanner[m] = "running"
                          THEN "stopping" ELSE scanner[m]
      /\ cut' = cut \cup {m \in mounts \cap ref : scanner[m] = "starting"}
    BY DEF Stop
<1>2. scanner' \in Seq(CameraStates)
    <2>1. \A m \in DOMAIN scanner : scanner[m] \in CameraStates
        BY DEF ScannersOK
    <2>2. \A m \in DOMAIN scanner : scanner'[m] \in CameraStates
        BY <1>1, <2>1 DEF CameraStates
    <2>3. DOMAIN scanner = 1..Len(scanner) /\ Len(scanner) \in Nat
        BY DEF ScannersOK
    <2>4. scanner' \in [1..Len(scanner) -> CameraStates]
        BY <2>2, <2>3 DEF Stop
    <2> QED BY <2>3, <2>4
<1>3. ref' = {}
    BY <1>1 DEF ScannersOK, RefIsOfScanner
<1>4. \A m \in DOMAIN scanner' :
            scanner'[m] \in {"starting", "running"} => m \in cut'
    BY <1>1, <1>3 DEF ScannersOK, RefIsOfScanner
<1> QED BY <1>1, <1>2, <1>3, <1>4 DEF ScannersOK, RefIsOfScanner

\* A scanner that is mounted is of no older camera's.
LEMMA OpenScannerKeeps ==
    ASSUME ScannersOK, OpenScanner
    PROVE  ScannersOK'
<1> DEFINE n == Len(scanner)
<1>1. /\ ~scanning /\ scanning' = TRUE
      /\ scanner' = Append(scanner, "loading") /\ UNCHANGED <<ref, cut>>
    BY DEF OpenScanner
<1>2. /\ n \in Nat /\ DOMAIN scanner = 1..n
      /\ scanner' \in Seq(CameraStates) /\ DOMAIN scanner' = 1..(n + 1)
      /\ scanner'[n + 1] = "loading"
      /\ \A m \in 1..n : scanner'[m] = scanner[m]
    BY <1>1 DEF ScannersOK, CameraStates
<1>3. ref = {}
    BY <1>1 DEF ScannersOK, RefIsOfScanner
<1> QED BY <1>1, <1>2, <1>3 DEF ScannersOK, RefIsOfScanner

\* "Cancel scanning" keeps the cameras attended.
LEMMA CloseScannerKeeps ==
    ASSUME ScannersOK, CloseScanner
    PROVE  ScannersOK'
<1>1. scanning /\ scanning' = FALSE /\ Stop({mount})
    BY DEF CloseScanner
<1>2. CASE mount \in DOMAIN scanner
    BY <1>1, <1>2, StopKeeps
<1>3. CASE mount \notin DOMAIN scanner
    <2>1. scanner = <<>> /\ ref = {}
        BY <1>3 DEF ScannersOK, mount
    <2>2. Stop({})
        BY <1>1, <2>1 DEF Stop
    <2>3. /\ ref' = {} /\ DOMAIN scanner' = {} /\ cut' = cut
        BY <2>1, <2>2 DEF Stop
    <2>4. scanner' = <<>>
        BY <2>1, <2>2 DEF Stop
    <2> QED BY <1>1, <2>1, <2>3, <2>4 DEF ScannersOK, RefIsOfScanner
<1> QED BY <1>2, <1>3

\* The steps of a camera other than reading a code.
LEMMA CameraStepsKeep ==
    ASSUME ScannersOK, NEW m \in DOMAIN scanner,
           \/ ModuleLoaded(m) \/ CameraStarts(m)
           \/ CameraRefused(m) \/ CameraStops(m)
    PROVE  ScannersOK' /\ UNCHANGED requestVars
<1> USE DEF CameraStates
<1>1. UNCHANGED requestVars /\ UNCHANGED <<scanning, cut>>
    BY DEF ModuleLoaded, CameraStarts, CameraRefused,
           CameraStops, Camera, view, requestVars
<1>2. CASE ModuleLoaded(m)
    <2>1. CASE Disposed(m)
        BY <1>1, <1>2, <2>1, CameraKeeps DEF ModuleLoaded, Camera
    <2>2. CASE ~Disposed(m)
        BY <1>1, <1>2, <2>2, CameraKeeps
           DEF ModuleLoaded, Camera, Disposed
    <2> QED BY <2>1, <2>2
<1>3. CASE CameraStarts(m)
    <2>1. m \in ref \/ m \in cut
        BY <1>3 DEF CameraStarts, ScannersOK, RefIsOfScanner
    <2> QED BY <1>1, <1>3, <2>1, CameraKeeps DEF CameraStarts, Camera
<1>4. CASE CameraRefused(m)
    BY <1>1, <1>4, CameraKeeps DEF CameraRefused, Camera
<1>5. CASE CameraStops(m)
    BY <1>1, <1>5, CameraKeeps DEF CameraStops, Camera
<1> QED BY <1>1, <1>2, <1>3, <1>4, <1>5

\* Reading a code keeps both halves, late or not, understood or not.
LEMMA DecodeKeeps ==
    ASSUME ScanInv, NEW m \in DOMAIN scanner, NEW text \in Text,
           Decode(m, text)
    PROVE  ScanInv'
<1>1. RequestsOK /\ ScannersOK
    BY Halves
<1>2. ScannersOK'
    <2> DEFINE mounts == {m} \cup {i \in {mount} : scanning}
    <2>1. Stop(mounts) /\ scanning' = FALSE
        BY DEF Decode
    <2>2. mount \in DOMAIN scanner
        BY <1>1 DEF ScannersOK, mount
    <2> QED BY <1>1, <2>1, <2>2, StopKeeps
<1>3. RequestsOK'
    <2>1. CASE parseScan(text) = NoCode
        <3>1. /\ error' \in {error, "unreadable"}
              /\ UNCHANGED <<code, checking, result, requests, pending, since>>
            BY <2>1 DEF Decode
        <3> QED BY <1>1, <3>1 DEF RequestsOK, OneRequestAtATime,
                VerdictIsOfLastRequest, CheckingMeansPending
    <2>2. CASE parseScan(text) # NoCode
        <3>1. parseScan(text) \in Code
            BY <2>2 DEF parseScan, Text
        <3>2. /\ code' = parseScan(text)
              /\ runVerify(parseScan(text))
              /\ since' = IF pending # {} THEN since ELSE Len(requests) + 1
            BY <2>2 DEF Decode
        <3>3. Len(requests) \in Nat /\ since \in 0..Len(requests)
            BY <1>1 DEF RequestsOK
        <3> QED BY <1>1, <3>1, <3>2, <3>3, RunVerifyKeeps
    <2> QED BY <2>1, <2>2
<1> QED BY <1>2, <1>3, Halves, PTL

-----------------------------------------------------------------------------
(* The theorems *)

\* The form and its cameras are always consistent.
THEOREM ScanInvariant == ScanSpec => []ScanInv
<1>1. ScanInit => ScanInv
    <2> SUFFICES ASSUME ScanInit PROVE ScanInv
        OBVIOUS
    <2>1. /\ code = NoCode /\ checking = FALSE /\ error = "none" /\ result = 0
          /\ requests = <<>> /\ pending = {} /\ scanning = FALSE
          /\ scanner = <<>> /\ ref = {} /\ cut = {} /\ since = 0
        BY DEF ScanInit
    <2>2. <<>> \in Seq(Code) /\ <<>> \in Seq(CameraStates) /\ Len(<<>>) = 0
        OBVIOUS
    <2>3. RequestsOK
        <3>1. /\ code \in Code \cup {NoCode} /\ checking \in BOOLEAN
              /\ error \in {"none", "unreadable", "failed"}
              /\ requests \in Seq(Code)
            BY <2>1, <2>2
        <3>2. /\ pending \subseteq DOMAIN requests
              /\ result \in (0..Len(requests)) \ pending
              /\ since \in 0..Len(requests)
            BY <2>1, <2>2
        <3>3. /\ OneRequestAtATime /\ VerdictIsOfLastRequest
              /\ CheckingMeansPending
            BY <2>1 DEF OneRequestAtATime, VerdictIsOfLastRequest,
                        CheckingMeansPending
        <3> QED BY <3>1, <3>2, <3>3 DEF RequestsOK
    <2>4. ScannersOK
        <3>1. /\ scanning \in BOOLEAN /\ scanner \in Seq(CameraStates)
              /\ ref \subseteq DOMAIN scanner /\ cut \subseteq DOMAIN scanner
            BY <2>1, <2>2
        <3>2. RefIsOfScanner
            BY <2>1 DEF RefIsOfScanner
        <3> QED BY <3>1, <3>2 DEF ScannersOK
    <2> QED BY <2>3, <2>4, Halves
<1>2. ScanInv /\ [ScanNext]_scanVars => ScanInv'
    <2> SUFFICES ASSUME ScanInv, [ScanNext]_scanVars PROVE ScanInv'
        OBVIOUS
    <2>1. RequestsOK /\ ScannersOK
        BY Halves
    <2>2. SUFFICES \/ RequestsOK' /\ UNCHANGED scannerVars
                   \/ ScannersOK' /\ UNCHANGED requestVars
                   \/ ScanInv'
        BY <2>1, HalfKept, Halves, PTL
    <2>3. CASE Submit
        BY <2>1, <2>3, ButtonKeeps DEF Submit, camera, scannerVars
    <2>4. CASE Edit
        BY <2>1, <2>4, EditKeeps DEF Edit, camera, scannerVars
    <2>5. CASE \E q \in pending : Respond(q) \/ RespondError(q)
        BY <2>1, <2>5, AnswerKeeps
           DEF Respond, RespondError, Answered, camera,
               scannerVars
    <2>6. CASE OpenScanner
        BY <2>1, <2>6, OpenScannerKeeps DEF OpenScanner, requestVars
    <2>7. CASE CloseScanner
        BY <2>1, <2>7, CloseScannerKeeps DEF CloseScanner, requestVars
    <2>8. CASE \E m \in DOMAIN scanner :
                    \/ ModuleLoaded(m) \/ CameraStarts(m)
                    \/ CameraRefused(m) \/ CameraStops(m)
        BY <2>1, <2>8, CameraStepsKeep
    <2>9. CASE \E m \in DOMAIN scanner, text \in Text : Decode(m, text)
        BY <2>9, DecodeKeeps
    <2>10. CASE UNCHANGED scanVars
        BY <2>1, <2>10, HalfKept
           DEF scanVars, view, camera, requestVars, scannerVars
    <2> QED BY <2>3, <2>4, <2>5, <2>6, <2>7, <2>8, <2>9, <2>10 DEF ScanNext
<1> QED BY <1>1, <1>2, PTL DEF ScanSpec

\* With no request on its way, the verdict on the screen is that of the last one, or
\* of one that a scan overlapped with it (scan-form.tsx runVerify, handleScan).
THEOREM VerdictAlwaysOfLastRequest == ScanSpec => []VerdictIsOfLastRequest
<1>1. ScanInv => VerdictIsOfLastRequest
    BY DEF ScanInv
<1> QED BY <1>1, ScanInvariant, PTL

\* The button is never disabled for good.
THEOREM CheckingAlwaysMeansPending == ScanSpec => []CheckingMeansPending
<1>1. ScanInv => CheckingMeansPending
    BY DEF ScanInv
<1> QED BY <1>1, ScanInvariant, PTL

\* A camera runs for the scanner on the screen only, or was cut off while it
\* started.
THEOREM CameraAlwaysAttended == ScanSpec => []CameraIsAttended
<1>1. ScanInv => CameraIsAttended
    BY DEF ScanInv, RefIsOfScanner, CameraIsAttended
<1> QED BY <1>1, ScanInvariant, PTL

=============================================================================
