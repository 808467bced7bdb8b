----------------------------- MODULE Warehouse -----------------------------
(***************************************************************************)
(* Stock of one product (one lot, one tag) as the inventory services keep  *)
(* it.  The same goods are written down four times by every document:      *)
(*                                                                         *)
(*   onHand   the InventoryItem row of a container                         *)
(*   layers   the ProductInOutTransaction rows, one per received batch,    *)
(*            that FIFO/LIFO consumption draws from                        *)
(*   balance  the monthly DWInventoryItemBalance rows (in / out)           *)
(*   ledger   the value of the DWInventoryItemBalanceDetail rows: the sum  *)
(*            of (in - out) * cogs                                         *)
(*                                                                         *)
(* Every document is one database transaction, so it is one action here.   *)
(* A document that throws rolls back, so its conditions are guards.        *)
(* A date is a month: the balance has one row per container and month.     *)
(***************************************************************************)
EXTENDS Integers, FiniteSets, Functions

CONSTANTS
    Containers,      \* the containers goods are kept in
    Facilities,      \* the buildings the containers stand in
    FacilityOf,      \* the facility of each container
    PurchaseItems,   \* IN transaction items that purchase orders create
    LastDate,        \* documents are dated 1..LastDate
    MaxQty,          \* bound: the largest quantity of one document line
    Ordered,         \* bound: the quantities of purchase order lines
    Prices,          \* unit prices of received goods
    MaxLayers,       \* bound: the batches ever received
    ControlType,     \* InventoryConfiguration.transactionType
    ForeignKeys      \* whether the database enforces the mapped foreign keys

ASSUME FacilityAssumption == FacilityOf \in [Containers -> Facilities]
ASSUME BoundAssumption ==
    /\ LastDate \in Nat \ {0}
    /\ MaxQty \in Nat \ {0}
    /\ Ordered \subseteq 1..MaxQty
    /\ MaxLayers \in Nat
    /\ Prices \subseteq Nat
ASSUME ControlAssumption == ControlType \in {"FIFO", "LIFO"}
ASSUME ForeignKeyAssumption == ForeignKeys \in BOOLEAN

VARIABLES onHand, onTransfer, layers, nextLayer, manuals, purchases, balance, ledger
vars == <<onHand, onTransfer, layers, nextLayer, manuals, purchases, balance, ledger>>

Dates == 1..LastDate
Quantities == 1..MaxQty
LayerIds == 1..MaxLayers

\* A ProductInOutTransaction row.  "manual" is the manual receipt it came
\* with, 0 for goods that came with another document.
Layer == [id : LayerIds, container : Containers, date : Dates, price : Prices,
          quantity : 0..MaxQty, receipted : Quantities, manual : 0..MaxLayers]

\* A WarehouseTransactionItem of type IN.  quantity 0: not ordered yet.
TransactionItem == [date : Dates, quantity : 0..MaxQty, price : Prices \cup {0},
                    receipted : Nat, unreceipted : Int, locked : BOOLEAN]

\* The DWInventoryItemBalance rows.
Books == [Containers -> [Dates -> [in : Int, out : Nat]]]

TypeOK ==
    /\ onHand \in [Containers -> Nat]
    /\ onTransfer \in [Containers -> Nat]
    /\ layers \subseteq Layer
    /\ nextLayer \in 1..(MaxLayers + 1)
    /\ manuals \subseteq LayerIds
    /\ purchases \in [PurchaseItems -> TransactionItem]
    /\ balance \in Books
    /\ DOMAIN ledger = Containers

Init ==
    /\ onHand = [c \in Containers |-> 0]
    /\ onTransfer = [c \in Containers |-> 0]
    /\ layers = {}
    /\ nextLayer = 1
    /\ manuals = {}
    /\ purchases = [p \in PurchaseItems |->
            [date |-> 1, quantity |-> 0, price |-> 0,
             receipted |-> 0, unreceipted |-> 0, locked |-> FALSE]]
    /\ balance = [c \in Containers |-> [d \in Dates |-> [in |-> 0, out |-> 0]]]
    /\ ledger = [c \in Containers |-> 0]

----------------------------------------------------------------------------
(* The layers a document draws from.  An operator whose name begins with   *)
(* "Fault" is a mistake the code could make: the manifest names the        *)
(* property that notices it.                                               *)

FaultOpen(c, d) == {l \in layers : l.container = c /\ l.quantity > 0}

\* DataWarehouseDao.loadAll: the open layers of a container up to a date.
Open(c, d) == {l \in layers : l.container = c /\ l.quantity > 0 /\ l.date <= d}

FaultBefore(l, m) ==
    IF ControlType = "FIFO" THEN l.id < m.id ELSE l.date > m.date

\* The ORDER BY of loadAll.
Before(l, m) ==
    IF ControlType = "FIFO"
    THEN l.date < m.date \/ (l.date = m.date /\ l.id < m.id)
    ELSE l.id > m.id

\* What is left to draw when the loop of StockControlService.get reaches l.
LeftAt(taken, q, l) ==
    q - SumFunctionOnSet(taken, {m \in DOMAIN taken : Before(m, l)})

\* The loop without its last branch: a layer gives more than it holds.
FaultDraws(taken, q) ==
    /\ \A l \in DOMAIN taken :
          taken[l] = IF LeftAt(taken, q, l) <= 0 THEN 0 ELSE LeftAt(taken, q, l)
    /\ SumFunction(taken) = q

\* taken is what the loop draws from each open layer for quantity q; a
\* request the layers do not cover throws.
Draws(taken, q) ==
    /\ SumFunction(taken) = q
    /\ \A l \in DOMAIN taken :
          taken[l] = IF LeftAt(taken, q, l) <= 0 THEN 0
                     ELSE IF l.quantity >= LeftAt(taken, q, l) THEN LeftAt(taken, q, l)
                     ELSE l.quantity

Taken(taken, l) == IF l \in DOMAIN taken THEN taken[l] ELSE 0

Drawn(taken) == {[l EXCEPT !.quantity = @ - Taken(taken, l)] : l \in layers}

FaultCost(taken) == SumFunction([l \in {m \in DOMAIN taken : taken[m] > 0} |-> l.price])

\* The value of the stock controls the draw creates, at each layer's price.
Cost(taken) == SumFunction([l \in DOMAIN taken |-> taken[l] * l.price])

\* transfer and trin/trout of InventoryItemTagUtil clamp the quantity at zero.
AtLeastZero(n) == IF n < 0 THEN 0 ELSE n

\* A negative adjustment booked without DecimalHelper.positive.
FaultBookOut(book, c, d, q) == [book EXCEPT ![c][d].out = @ - q]

\* InventoryBalanceUtil.doBalance on the row of container c and month d.
BookIn(book, c, d, q) == [book EXCEPT ![c][d].in = @ + q]
BookOut(book, c, d, q) == [book EXCEPT ![c][d].out = @ + q]

NewLayer(id, c, d, p, q, m) ==
    [id |-> id, container |-> c, date |-> d, price |-> p,
     quantity |-> q, receipted |-> q, manual |-> m]
----------------------------------------------------------------------------
(* The documents. *)

\* A purchase order line becomes an IN transaction item (ReferenceItemHelper).
AddPurchaseItem(p, q, d, price) ==
    /\ purchases[p].quantity = 0
    /\ purchases' = [purchases EXCEPT ![p] =
            [date |-> d, quantity |-> q, price |-> price,
             receipted |-> 0, unreceipted |-> q, locked |-> FALSE]]
    /\ UNCHANGED <<onHand, onTransfer, layers, nextLayer, manuals, balance, ledger>>

FaultReceipted(item, q) ==
    [item EXCEPT !.receipted = @ + q,
                 !.locked = @ \/ item.receipted + q = item.quantity]

\* GoodsReceiptService.init on the transaction item.
Receipted(item, q) ==
    [item EXCEPT !.receipted = @ + q,
                 !.unreceipted = @ - q,
                 !.locked = @ \/ item.receipted + q = item.quantity]

\* One new batch, written to all four records.
PutIn(c, q, d, price) ==
    /\ nextLayer <= MaxLayers
    /\ onHand' = [onHand EXCEPT ![c] = @ + q]
    /\ layers' = layers \cup {NewLayer(nextLayer, c, d, price, q, 0)}
    /\ nextLayer' = nextLayer + 1
    /\ balance' = BookIn(balance, c, d, q)
    /\ ledger' = [ledger EXCEPT ![c] = @ + q * price]
    /\ UNCHANGED <<onTransfer, manuals>>

\* InventoryItemTagUtil.out, StockControlService.get and the balances.
TakeOut(c, q, d) ==
    /\ q <= onHand[c]
    /\ \E taken \in [Open(c, d) -> 0..q] :
          /\ Draws(taken, q)
          /\ layers' = Drawn(taken)
          /\ ledger' = [ledger EXCEPT ![c] = @ - Cost(taken)]
    /\ onHand' = [onHand EXCEPT ![c] = @ - q]
    /\ balance' = BookOut(balance, c, d, q)
    /\ UNCHANGED <<onTransfer, nextLayer, manuals, purchases>>

\* GoodsReceiptService.add for one purchase item.  The form limits q to what
\* was outstanding when it was opened and the service does not look again, so
\* a form left open may still bring the whole ordered quantity.
AddGoodsReceipt(p, c, q, d) ==
    /\ q <= purchases[p].quantity
    /\ d >= purchases[p].date
    /\ purchases' = [purchases EXCEPT ![p] = Receipted(@, q)]
    /\ PutIn(c, q, d, purchases[p].price)

\* GoodsReceiptManualService.add and its automatic goods receipts: one layer
\* for each container of "lines"; the rows are written in hash order.
AddGoodsReceiptManual(d, lines, price) ==
    \E next \in nextLayer..(MaxLayers + 1) :
    \E id \in Bijection(DOMAIN lines, nextLayer..(next - 1)) :
        /\ nextLayer \in LayerIds
        /\ manuals' = manuals \cup {nextLayer}
        /\ nextLayer' = next
        /\ layers' = layers \cup
              {NewLayer(id[c], c, d, price, lines[c], nextLayer) : c \in DOMAIN lines}
        /\ onHand' = [c \in Containers |->
              IF c \in DOMAIN lines THEN onHand[c] + lines[c] ELSE onHand[c]]
        /\ balance' = [c \in Containers |-> [e \in Dates |->
              IF c \in DOMAIN lines /\ e = d
              THEN [balance[c][e] EXCEPT !.in = @ + lines[c]] ELSE balance[c][e]]]
        /\ ledger' = [c \in Containers |->
              IF c \in DOMAIN lines THEN ledger[c] + lines[c] * price ELSE ledger[c]]
        /\ UNCHANGED <<onTransfer, purchases>>

\* The automatic goods receipt of manual receipt m in facility f.
ReceiptOf(m, f) == {l \in layers : l.manual = m /\ FacilityOf[l.container] = f}

\* GoodsReceipt.isNotUsed: findFirst over the layers of all its items.
NotUsed(receipt) == \E l \in receipt : l.quantity = l.receipted

\* The layers that go when manual receipt m is deleted: the receipts that
\* are in use are skipped without a word.
Reversed(m) == UNION {ReceiptOf(m, f) : f \in {g \in Facilities : NotUsed(ReceiptOf(m, g))}}

\* Fault: only batches nobody has used are taken off the container.
FaultTakenBack(gone, c) ==
    IF \E l \in gone : l.container = c /\ l.quantity = l.receipted
    THEN (CHOOSE l \in gone : l.container = c).receipted ELSE 0

\* What "gone" takes back from container c (one line per container).
TakenBack(gone, c) ==
    IF \E l \in gone : l.container = c
    THEN (CHOOSE l \in gone : l.container = c).receipted ELSE 0

TakenBackOn(gone, c, d) == TakenBack({l \in gone : l.date = d}, c)

\* The detail row of a reversal has the whole cost as its unit price.
ValueBack(gone, c) ==
    IF \E l \in gone : l.container = c
    THEN LET l == CHOOSE l \in gone : l.container = c
         IN  l.receipted * (l.price * l.receipted)
    ELSE 0

\* With foreign keys a receipt cannot go while a stock control points at one
\* of its layers, nor a manual receipt while a skipped receipt points at it.
KeysAllowDelete(m) ==
    /\ {l \in layers : l.manual = m} = Reversed(m)
    /\ \A l \in Reversed(m) : l.quantity = l.receipted

\* GoodsReceiptManualService.delete.
DeleteGoodsReceiptManual(m) ==
    /\ m \in manuals
    /\ \A c \in Containers : TakenBack(Reversed(m), c) <= onHand[c]
    /\ ForeignKeys => KeysAllowDelete(m)
    /\ manuals' = manuals \ {m}
    /\ layers' = layers \ Reversed(m)
    /\ onHand' = [c \in Containers |-> onHand[c] - TakenBack(Reversed(m), c)]
    /\ balance' = [c \in Containers |-> [d \in Dates |->
          [balance[c][d] EXCEPT !.in = @ - TakenBackOn(Reversed(m), c, d)]]]
    /\ ledger' = [c \in Containers |-> ledger[c] - ValueBack(Reversed(m), c)]
    /\ UNCHANGED <<onTransfer, nextLayer, purchases>>

\* GoodsIssueService.add for an OUT document: delivery realization, work
\* order, manual issue.
AddGoodsIssue(c, q, d) == TakeOut(c, q, d)

\* The automatic receipt runs twice.
FaultTransfer(from, to, q, d) ==
    /\ q <= onHand[from]
    /\ onHand' = [[onHand EXCEPT ![from] = @ - q] EXCEPT ![to] = @ + 2 * q]
    /\ UNCHANGED <<onTransfer, layers, nextLayer, manuals, purchases, balance, ledger>>

\* TransferOrderService.add: the automatic goods issue, then the automatic
\* goods receipt, which buffers every drawn piece into a layer of its own.
AddTransferOrder(from, to, q, d) ==
    /\ q <= onHand[from]
    /\ \E taken \in [Open(from, d) -> 0..q] :
       LET pieces == {l \in DOMAIN taken : taken[l] > 0} IN
       \E next \in nextLayer..(MaxLayers + 1) :
       \E id \in Bijection(pieces, nextLayer..(next - 1)) :
          /\ Draws(taken, q)
          /\ layers' = Drawn(taken) \cup
                {NewLayer(id[l], to, d, l.price, taken[l], 0) : l \in pieces}
          /\ nextLayer' = next
          /\ ledger' = [[ledger EXCEPT ![from] = @ - Cost(taken)] EXCEPT ![to] = @ + Cost(taken)]
    /\ onTransfer' = [onTransfer EXCEPT ![from] = AtLeastZero(AtLeastZero(@ + q) - q)]
    /\ onHand' = [[onHand EXCEPT ![from] = @ - q] EXCEPT ![to] = @ + q]
    /\ balance' = BookIn(BookOut(balance, from, d, q), to, d, q)
    /\ UNCHANGED <<manuals, purchases>>

\* StockAdjustmentService.add, a line with a positive quantity ...
AdjustIn(c, q, d, price) == PutIn(c, q, d, price) /\ UNCHANGED purchases

\* ... and one with a negative quantity.
AdjustOut(c, q, d) == TakeOut(c, q, d)

ManualReceipt ==
    \E cs \in SUBSET Containers : \E d \in Dates, price \in Prices :
    \E lines \in [cs -> Quantities] :
        cs # {} /\ AddGoodsReceiptManual(d, lines, price)

Next ==
    \/ \E p \in PurchaseItems, q \in Ordered, d \in Dates, price \in Prices :
          AddPurchaseItem(p, q, d, price)
    \/ \E p \in PurchaseItems, c \in Containers, q \in Quantities, d \in Dates :
          AddGoodsReceipt(p, c, q, d)
    \/ ManualReceipt
    \/ \E m \in LayerIds : DeleteGoodsReceiptManual(m)
    \/ \E c \in Containers, q \in Quantities, d \in Dates : AddGoodsIssue(c, q, d)
    \/ \E from, to \in Containers, q \in Quantities, d \in Dates :
          AddTransferOrder(from, to, q, d)
    \/ \E c \in Containers, q \in Quantities, d \in Dates, price \in Prices :
          AdjustIn(c, q, d, price)
    \/ \E c \in Containers, q \in Quantities, d \in Dates : AdjustOut(c, q, d)

Spec == Init /\ [][Next]_vars

----------------------------------------------------------------------------
(* What must hold. *)

LayersIn(c) == {l \in layers : l.container = c}
InLayers(c) == SumFunction([l \in LayersIn(c) |-> l.quantity])
ValueInLayers(c) == SumFunction([l \in LayersIn(c) |-> l.quantity * l.price])
NetUpTo(c, d) ==
    SumFunction([e \in 1..d |-> balance[c][e].in - balance[c][e].out])

\* Nothing on hand is without a batch to price it: an issue that passes the
\* on-hand check of InventoryItemTagUtil.invent fails in StockControlService
\* only for a date, never for lack of layers.
OnHandCovered == \A c \in Containers : onHand[c] <= InLayers(c)

\* With foreign keys the two records of the stock, InventoryItem.onHand and
\* the open ProductInOutTransaction quantities, are always equal.
OnHandEqualsLayers == ForeignKeys => \A c \in Containers : onHand[c] = InLayers(c)

\* The stock the balance reports sum up is the stock on hand, whatever
\* documents were added and reversed.
OnHandMatchesBalance == \A c \in Containers : onHand[c] = NetUpTo(c, LastDate)

\* The InventoryItem row, the open batches and the monthly balances, which
\* separate helpers write, agree after every document and reversal.
RecordsAgree == OnHandEqualsLayers /\ OnHandMatchesBalance

\* With foreign keys the stock card is never below zero at the end of any
\* month, although documents are entered in any order of dates.
StockCardNeverNegative ==
    ForeignKeys => \A c \in Containers, d \in Dates : NetUpTo(c, d) >= 0

\* As long as no receipt was reversed, the value the detail rows add up to is
\* the value of the open layers: draws and transfers keep every price.
LedgerMatchesLayers ==
    Cardinality(layers) = nextLayer - 1 =>
        \A c \in Containers : ledger[c] = ValueInLayers(c)

\* Layer ids are never used twice and no layer holds more than it received.
LayersSound ==
    /\ \A l \in layers : l.id < nextLayer /\ l.quantity <= l.receipted
    /\ \A l, m \in layers : l.id = m.id => l = m

\* A transaction item is in balance and is locked only when all that was
\* ordered has come.
DocCounters ==
    \A p \in PurchaseItems : LET i == purchases[p] IN
        /\ i.receipted + i.unreceipted = i.quantity
        /\ i.locked => i.unreceipted <= 0

\* InventoryConfiguration.transactionType keeps its word: with FIFO no batch
\* is used while goods of an earlier month stay in the same container, with
\* LIFO while goods entered later, and dated no later, stay.
PreferredTo(l, m) ==
    IF ControlType = "FIFO" THEN l.date < m.date ELSE l.id > m.id /\ l.date <= m.date
Shrinks(m) == \E n \in layers' : n.id = m.id /\ n.quantity < m.quantity
ConsumptionOrder ==
    [][\A l, m \in layers :
          Shrinks(m) /\ l.container = m.container /\ PreferredTo(l, m)
          => \A n \in layers' : n.id = l.id => n.quantity = 0]_vars

\* The four records together implement one stock book.
Book == INSTANCE StockBook WITH stock <- onHand
BookSpec == Book!Spec
=============================================================================
