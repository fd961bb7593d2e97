-------------------------- MODULE ProvenanceLedger --------------------------
(***************************************************************************)
(* What the registry promises its readers, with nothing said of lists,     *)
(* indexes, counters, events or an administrator: four sets of public      *)
(* facts that only grow, each fact admissible against those already there. *)
(***************************************************************************)
EXTENDS Integers

CONSTANTS Maker, Batch, Label, Severity, Hash, Number, Serial

VARIABLES
    makers,     \* the admitted manufacturers
    products,   \* the production batches
    notices,    \* the recalls
    holdings    \* who holds which serial of which batch

vars == <<makers, products, notices, holdings>>

Product == [batch : Batch, maker : Maker, label : Label,
            first : Serial, last : Serial]
Notice == [number : Number, batch : Batch, maker : Maker,
           severity : Severity, details : Hash,
           first : Serial, last : Serial]
Holding == [owner : Maker, batch : Batch, serial : Serial]

Serials(x) == x.first..x.last

Init ==
    /\ makers = {}
    /\ products = {}
    /\ notices = {}
    /\ holdings = {}

Admit(m) ==
    /\ m \notin makers
    /\ makers' = makers \cup {m}

\* A batch is new, is its maker's, and takes serials its maker has not used.
Produce(p) ==
    /\ p.maker \in makers
    /\ Serials(p) # {}
    /\ \A q \in products :
        /\ q.batch # p.batch
        /\ q.maker = p.maker => Serials(q) \cap Serials(p) = {}
    /\ products' = products \cup {p}

\* A recall is its batch's maker's, affects serials of the batch only, and is
\* numbered after all earlier ones.
Recall(n) ==
    /\ Serials(n) # {}
    /\ \E p \in products : /\ p.batch = n.batch
                           /\ p.maker = n.maker
                           /\ Serials(n) \subseteq Serials(p)
    /\ \A e \in notices : e.number < n.number
    /\ notices' = notices \cup {n}

Hold(h) ==
    /\ h \notin holdings
    /\ \E p \in products : p.batch = h.batch /\ h.serial \in Serials(p)
    /\ holdings' = holdings \cup {h}

\* One fact of one kind at a time.
Next ==
    \/ /\ UNCHANGED <<products, notices, holdings>>
       /\ \E m \in Maker : Admit(m)
    \/ /\ UNCHANGED <<makers, notices, holdings>>
       /\ \E p \in Product : Produce(p)
    \/ /\ UNCHANGED <<makers, products, holdings>>
       /\ \E n \in Notice : Recall(n)
    \/ /\ UNCHANGED <<makers, products, notices>>
       /\ \E h \in Holding : Hold(h)

Spec == Init /\ [][Next]_vars

=============================================================================
