----------------------------- MODULE Procurement -----------------------------
(***************************************************************************)
(* From the purchase requisition to the receipt of what was ordered:       *)
(* PurchaseRequisitionService, PurchaseOrderService, the approval of       *)
(* orders, BarcodeGroupService and the part of GoodsReceiptService that    *)
(* works on the items of orders.                                           *)
(*                                                                         *)
(* An item is a product line of stock: it is requested on a requisition of *)
(* its own and ordered on at most one line of an order.  A serial item is  *)
(* received piece by piece, after the barcodes of its pieces were printed; *)
(* a piece is received whole, so its own quantity counts as one.           *)
(*                                                                         *)
(* As in the sales, the pages decide what may be requested.  With          *)
(* StalePages a request may come from a page that was opened earlier.      *)
(***************************************************************************)
EXTENDS Integers

CONSTANTS
    Items,          \* PurchaseRequisitionItem, and the line that orders it
    Serial,         \* those whose product is serial
    Orders,         \* bound: PurchaseOrder
    MaxQuantity,    \* bound: quantity of a line
    Ordered,        \* bound: the quantities that are ordered
    MaxPieces,      \* bound: serial pieces of a line
    StalePages

ASSUME ItemsAssumption == Serial \subseteq Items
ASSUME QuantityBound == MaxQuantity \in Nat \ {0} /\ Ordered \subseteq 1..MaxQuantity
ASSUME PiecesBound == MaxPieces \in Nat \ {0}
ASSUME PagesAssumption == StalePages \in BOOLEAN

Quantities == 0..MaxQuantity
POStatus == {"NEW", "OPEN", "BARCODE", "CLOSED"}
PurchaseType == {"STANDARD", "DIRECT"}
\* FORWARD stands for APPROVE_AND_FORWARD too: purchase orders do not tell
\* them apart.
ApprovalDecisionStatus == {"REQUESTED", "FORWARD", "REJECTED", "APPROVE_AND_FINISH"}

VARIABLES requested, available, orders, stock
vars == <<requested, available, orders, stock>>

\* "NEW" stands for a row not inserted yet, "NONE" for an order without an
\* approver.  early: invoiceBeforeReceipt; finished: APPROVE_AND_FINISH is
\* among its ApprovalHistory rows; invoices: those made from the order.
Order == [status : POStatus, type : PurchaseType, early : BOOLEAN,
          decision : ApprovalDecisionStatus \cup {"NONE"}, finished : BOOLEAN,
          lines : SUBSET Items, quantity : [Items -> Quantities],
          barcoded : [Items -> Nat], invoices : Nat]
NoOrder == [status |-> "NEW", type |-> "DIRECT", early |-> FALSE,
            decision |-> "NONE", finished |-> FALSE,
            lines |-> {}, quantity |-> [i \in Items |-> 0],
            barcoded |-> [i \in Items |-> 0], invoices |-> 0]

\* The WarehouseTransactionItems: the one of a plain line has number 0, those
\* of the pieces of a serial line have 1, 2...  No row has quantity 0.
StockKeys == Orders \X Items \X (0..MaxPieces)
StockItem == [quantity : Quantities, received : Nat, billed : Nat, locked : BOOLEAN]
NoStock == [quantity |-> 0, received |-> 0, billed |-> 0, locked |-> FALSE]

TypeOK ==
    /\ requested \in SUBSET Items
    /\ available \in SUBSET requested
    /\ orders \in [Orders -> Order]
    /\ stock \in [StockKeys -> StockItem]

Exists(o) == orders[o].status # "NEW"
StockOf(o) == {k \in StockKeys : k[1] = o /\ stock[k].quantity > 0}
Pieces(o) == {k \in StockOf(o) : k[3] > 0}
SerialLines(o) == orders[o].lines \cap Serial
\* Whether an order needed no approval or got it at some time.
Released(o) == orders[o].decision = "NONE" \/ orders[o].finished

Init ==
    /\ requested = {}
    /\ available = {}
    /\ orders = [o \in Orders |-> NoOrder]
    /\ stock = [k \in StockKeys |-> NoStock]

\* PurchaseRequisitionService.add.
AddRequisition(i) ==
    /\ i \notin requested
    /\ requested' = requested \cup {i}
    /\ available' = available \cup {i}
    /\ UNCHANGED <<orders, stock>>

\* PurchaseRequisitionService.edit writes every column of the items, as they
\* were when the page was opened.
SaveRequisition(i) ==
    /\ i \in requested
    /\ \/ UNCHANGED available
       \/ StalePages /\ available' = available \cup {i}
    /\ UNCHANGED <<requested, orders, stock>>

\* PurchaseRequisitionService.lockItem: the item is not to be ordered.
LockItem(i) ==
    /\ i \in requested
    /\ i \in available \/ StalePages
    /\ available' = available \ {i}
    /\ UNCHANGED <<requested, orders, stock>>

\* PurchaseRequisition.isDeleteable; the rows of orders refer to the item.
DeleteRequisition(i) ==
    /\ i \in requested
    /\ \A o \in Orders : orders[o].type = "STANDARD" => i \notin orders[o].lines
    /\ requested' = requested \ {i}
    /\ available' = available \ {i}
    /\ UNCHANGED <<orders, stock>>

FaultOrderable == requested
\* What the list of requisition items offers, now or earlier.
Orderable == IF StalePages THEN requested ELSE available

FaultTaken(type, lines) == available
\* A standard order takes its items.
Taken(type, lines) == IF type = "STANDARD" THEN available \ lines ELSE available

FaultPlainStock(number, approver) ==
    [quantity |-> number, received |-> 0, billed |-> 0, locked |-> FALSE]
PlainStock(number, approver) ==
    [quantity |-> number, received |-> 0, billed |-> 0, locked |-> approver]

OrderedLines(quantity) == {i \in Items : quantity[i] > 0}

\* The row that PurchaseOrderService.add writes.
NewOrder(type, approver, early, quantity) ==
    [status |-> IF OrderedLines(quantity) \cap Serial # {} THEN "BARCODE" ELSE "OPEN",
     type |-> type, early |-> early,
     decision |-> IF approver THEN "REQUESTED" ELSE "NONE", finished |-> FALSE,
     lines |-> OrderedLines(quantity), quantity |-> quantity,
     barcoded |-> [i \in Items |-> 0],
     invoices |-> IF early /\ ~approver THEN 1 ELSE 0]

\* PurchaseOrderService.add.  Its page keeps the row of the approver hidden;
\* those of standard and of direct orders show it for large amounts.
AddOrder(o) ==
    /\ ~Exists(o)
    /\ \E type \in PurchaseType, approver \in BOOLEAN, early \in BOOLEAN,
          quantity \in [Items -> Ordered \cup {0}] :
          LET order == NewOrder(type, approver, early, quantity) IN
          /\ order.lines # {}
          /\ type = "STANDARD" => order.lines \subseteq Orderable
          /\ orders' = [orders EXCEPT ![o] = order]
          /\ stock' = [k \in StockKeys |->
                 IF k[1] = o /\ k[2] \in order.lines \ Serial /\ k[3] = 0
                 THEN PlainStock(quantity[k[2]], approver) ELSE stock[k]]
          /\ available' = Taken(type, order.lines)
    /\ UNCHANGED requested

\* The quantities the page of the approver may hold; nothing keeps them above 0.
Changed(o) ==
    {q \in [Items -> Ordered \cup {0}] : \A i \in Items \ orders[o].lines : q[i] = 0}

\* ApprovableSiblingRole and PurchaseOrderApprovableInterceptor.
Decided(order, decision) ==
    [order EXCEPT !.decision = decision, !.finished = @ \/ decision = "APPROVE_AND_FINISH",
                  !.invoices = @ + IF decision = "APPROVE_AND_FINISH" /\ order.early
                                   THEN 1 ELSE 0]

AwaitsDecision(o) == orders[o].decision \in {"REQUESTED", "FORWARD"}

\* PurchaseOrderService.edit with a decision.
Decide(o) ==
    /\ orders[o].decision # "NONE"
    /\ AwaitsDecision(o) \/ StalePages
    /\ \E decision \in ApprovalDecisionStatus, quantity \in Changed(o) :
          /\ orders' = [orders EXCEPT ![o] =
                 [Decided(orders[o], decision) EXCEPT !.quantity = quantity]]
          /\ stock' = IF decision # "APPROVE_AND_FINISH" THEN stock
                      ELSE [k \in StockKeys |-> IF k \in StockOf(o)
                            THEN [stock[k] EXCEPT !.locked = FALSE] ELSE stock[k]]
    /\ UNCHANGED <<requested, available>>

\* The columns of an order as they were when it was added.
FirstForm(o) ==
    [orders[o] EXCEPT !.decision = IF @ = "NONE" THEN "NONE" ELSE "REQUESTED",
                      !.status = IF SerialLines(o) # {} THEN "BARCODE" ELSE "OPEN",
                      !.barcoded = [i \in Items |-> 0]]

\* PurchaseOrderService.edit without one: every column is written.
SaveOrder(o) ==
    /\ Exists(o)
    /\ \/ /\ AwaitsDecision(o)
          /\ \E quantity \in Changed(o) :
                orders' = [orders EXCEPT ![o].quantity = quantity]
       \/ UNCHANGED orders
       \/ StalePages /\ orders' = [orders EXCEPT ![o] = FirstForm(o)]
    /\ UNCHANGED <<requested, available, stock>>

\* The button of the order's page; what is on order stays receivable.
Close(o) ==
    /\ Exists(o)
    /\ StalePages \/ (/\ orders[o].status # "CLOSED"
                      /\ orders[o].decision \in {"NONE", "APPROVE_AND_FINISH"})
    /\ orders' = [orders EXCEPT ![o].status = "CLOSED"]
    /\ UNCHANGED <<requested, available, stock>>

\* PurchaseOrder.isDeleteable; the receipts and invoices refer to the order.
\* A standard order with serial pieces fails: they have no requisition item.
Deleteable(o) ==
    /\ \A k \in StockOf(o) : stock[k].received = 0
    /\ orders[o].invoices = 0
    /\ orders[o].decision \in {"NONE", "REQUESTED"} \/ StalePages
    /\ orders[o].type = "STANDARD" => Pieces(o) = {}

FaultDeleteOrder(o) ==
    /\ Exists(o)
    /\ Deleteable(o)
    /\ orders' = [orders EXCEPT ![o] = NoOrder]
    /\ stock' = [k \in StockKeys |-> IF k[1] = o THEN NoStock ELSE stock[k]]
    /\ available' = available \cup orders[o].lines
    /\ UNCHANGED requested

\* PurchaseOrderService.delete.
DeleteOrder(o) ==
    /\ Exists(o)
    /\ Deleteable(o)
    /\ orders' = [orders EXCEPT ![o] = NoOrder]
    /\ stock' = [k \in StockKeys |-> IF k[1] = o THEN NoStock ELSE stock[k]]
    /\ available' = IF orders[o].type = "STANDARD"
                    THEN available \cup orders[o].lines ELSE available
    /\ UNCHANGED requested

FaultComplete(order, i) == order.quantity[i] < order.barcoded[i]
Complete(order, i) == order.quantity[i] <= order.barcoded[i]

\* PurchaseOrder.isBarcodeable.
Barcodeable(o) ==
    \/ orders[o].status = "BARCODE" /\ orders[o].decision \in {"NONE", "APPROVE_AND_FINISH"}
    \/ StalePages /\ Exists(o) /\ Released(o)

\* The row of the next piece of a line.
NextPiece(k) ==
    /\ k[3] > 0
    /\ stock[k].quantity = 0
    /\ k[3] > 1 => stock[<<k[1], k[2], k[3] - 1>>].quantity > 0

\* BarcodeGroupService.add and PurchaseOrderService.addItem, for at most one
\* piece of a line: what was entered need not be what is left, and one
\* complete line ends the printing of all.
Barcode(o) ==
    /\ Barcodeable(o)
    /\ \E group \in [SerialLines(o) -> Quantities] :
          LET printed == {i \in SerialLines(o) : group[i] > 0}
              order == [orders[o] EXCEPT !.barcoded = [i \in Items |->
                           orders[o].barcoded[i] + IF i \in printed THEN group[i] ELSE 0]]
          IN
          /\ printed # {}
          /\ \A i \in printed : stock[<<o, i, MaxPieces>>].quantity = 0
          /\ StalePages \/ \A i \in printed : ~Complete(orders[o], i)
          /\ orders' = [orders EXCEPT ![o] =
                 IF \E i \in printed : Complete(order, i)
                 THEN [order EXCEPT !.status = "OPEN"] ELSE order]
          /\ stock' = [k \in StockKeys |->
                 IF k[1] = o /\ k[2] \in printed /\ NextPiece(k)
                 THEN PlainStock(1, FALSE) ELSE stock[k]]
    /\ UNCHANGED <<requested, available>>

\* ReceiptableGridViewQuery.
Receiptable(o) ==
    {k \in StockOf(o) : \/ ~stock[k].locked /\ stock[k].received < stock[k].quantity
                        \/ StalePages /\ Released(o)}

FaultReceipted(item, quantity, early) ==
    [item EXCEPT !.received = @ + quantity, !.billed = @ + quantity,
                 !.locked = @ \/ item.received + quantity = item.quantity]
\* GoodsReceiptService.init, and the invoice that a receipt makes.
Receipted(item, quantity, early) ==
    [item EXCEPT !.received = @ + quantity, !.billed = IF early THEN @ ELSE @ + quantity,
                 !.locked = @ \/ item.received + quantity = item.quantity]

\* GoodsReceiptService.add; a receipt is for one order.
Receive(o) ==
    /\ \E receipted \in [Receiptable(o) -> Quantities] :
          /\ \E k \in Receiptable(o) : receipted[k] > 0
          /\ \A k \in Receiptable(o) :
                receipted[k] <= stock[k].quantity - IF StalePages THEN 0 ELSE stock[k].received
          /\ stock' = [k \in StockKeys |->
                 IF k \in Receiptable(o) /\ receipted[k] > 0
                 THEN Receipted(stock[k], receipted[k], orders[o].early) ELSE stock[k]]
    /\ UNCHANGED <<requested, available, orders>>

Next ==
    \/ \E i \in Items :
          AddRequisition(i) \/ SaveRequisition(i) \/ LockItem(i) \/ DeleteRequisition(i)
    \/ \E o \in Orders :
          \/ AddOrder(o) \/ Decide(o) \/ SaveOrder(o) \/ Close(o) \/ DeleteOrder(o)
          \/ Barcode(o) \/ Receive(o)

Spec == Init /\ [][Next]_vars
-----------------------------------------------------------------------------
\* As long as nobody finished the approval an order needs, nothing of it is
\* invoiced, receivable, received or printed, stale pages or not.
NothingBeforeApproval ==
    \A o \in Orders : ~Released(o) =>
        /\ orders[o].invoices = 0
        /\ \A k \in StockOf(o) :
              /\ k[3] = 0
              /\ stock[k].locked
              /\ stock[k].received = 0 /\ stock[k].billed = 0

(* What must hold while pages are up to date. *)

\* A requisition item is ordered once, and offered only while it is not.
StandardOrders(i) == {o \in Orders : orders[o].type = "STANDARD" /\ i \in orders[o].lines}
OrderedOnce ==
    \A i \in Items :
        /\ \A o, p \in StandardOrders(i) : o = p
        /\ StandardOrders(i) # {} => i \in requested \ available

\* What is ordered is invoiced once: by the order, as soon as it needs no
\* more approval, or by its receipts.
InvoicedOnce ==
    \A o \in Orders :
        /\ orders[o].invoices = IF orders[o].early /\ Released(o) THEN 1 ELSE 0
        /\ \A k \in StockOf(o) :
              stock[k].billed = IF orders[o].early THEN 0 ELSE stock[k].received

\* An order that waits for barcodes has no line that is complete already,
\* unless the approver struck it; one that no longer waits has a complete line.
BarcodeStatus ==
    \A o \in Orders :
        /\ orders[o].status = "BARCODE" =>
              \A i \in SerialLines(o) :
                  orders[o].quantity[i] > 0 => orders[o].barcoded[i] < orders[o].quantity[i]
        /\ orders[o].status = "OPEN" /\ SerialLines(o) # {} =>
              \E i \in SerialLines(o) : orders[o].barcoded[i] >= orders[o].quantity[i]

\* The comments of addItem: an order leaves BARCODE when nothing is left to
\* be printed.
AllBarcoded ==
    \A o \in Orders :
        orders[o].status = "OPEN" =>
            \A i \in SerialLines(o) : orders[o].barcoded[i] >= orders[o].quantity[i]

\* An item that was locked by hand is never ordered or offered again while
\* its requisition stays.
LockedByHand(i) == i \in requested \ available /\ StandardOrders(i) = {}
LockedStays == [][\A i \in Items : LockedByHand(i) => LockedByHand(i)' \/ i \notin requested']_vars
=============================================================================
