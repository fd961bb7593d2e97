-------------------------------- MODULE Mirror --------------------------------
(***************************************************************************)
(* What the backend's tables promise those that read them: next to the     *)
(* facts that the contract has published, rows that are copies of them.    *)
(* Facts and rows are added one at a time and stay as they are; a row may  *)
(* come any time after its fact, or never, but a recall's only after its   *)
(* batch's.                                                                *)
(***************************************************************************)
CONSTANTS Maker, Batch, Holder, Number

VARIABLES
    products, notices, holdings,            \* the facts
    productRows, noticeRows, holdingRows    \* the tables

facts == <<products, notices, holdings>>
rows == <<productRows, noticeRows, holdingRows>>
vars == <<facts, rows>>

Product == [batch : Batch, maker : Maker]
Notice == [number : Number, batch : Batch]
Holding == [owner : Holder, batch : Batch]

Init ==
    /\ products = {} /\ notices = {} /\ holdings = {}
    /\ productRows = {} /\ noticeRows = {} /\ holdingRows = {}

\* A batch is published once, of one maker.
Produce(p) ==
    /\ \A q \in products : q.batch # p.batch
    /\ products' = products \cup {p}
    /\ UNCHANGED <<notices, holdings, rows>>

\* A recall has a number of its own and a batch.
Recall(n) ==
    /\ \E p \in products : p.batch = n.batch
    /\ \A m \in notices : m.number # n.number
    /\ notices' = notices \cup {n}
    /\ UNCHANGED <<products, holdings, rows>>

Hold(h) ==
    /\ \E p \in products : p.batch = h.batch
    /\ holdings' = holdings \cup {h}
    /\ UNCHANGED <<products, notices, rows>>

CopyProduct(p) ==
    /\ productRows' = productRows \cup {p}
    /\ UNCHANGED <<facts, noticeRows, holdingRows>>

CopyNotice(n) ==
    /\ \E p \in productRows : p.batch = n.batch
    /\ noticeRows' = noticeRows \cup {n}
    /\ UNCHANGED <<facts, productRows, holdingRows>>

CopyHolding(h) ==
    /\ holdingRows' = holdingRows \cup {h}
    /\ UNCHANGED <<facts, productRows, noticeRows>>

Next ==
    \/ \E p \in Product : Produce(p)
    \/ \E n \in Notice : Recall(n)
    \/ \E h \in Holding : Hold(h)
    \/ \E p \in products : CopyProduct(p)
    \/ \E n \in notices : CopyNotice(n)
    \/ \E h \in holdings : CopyHolding(h)

Spec == Init /\ [][Next]_vars

===============================================================================
