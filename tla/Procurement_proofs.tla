------------------------- MODULE Procurement_proofs -------------------------
(***************************************************************************)
(* Proofs about Procurement for every number of items, orders, quantities  *)
(* and pieces.  Types, and what waits for an approval, hold with stale     *)
(* pages too; the rest needs pages that are up to date.                    *)
(***************************************************************************)
EXTENDS Procurement, TLAPS

LEMMA QuantitiesAreNumbers ==
    Quantities \subseteq Nat /\ 0 \in Quantities /\ 1 \in Quantities /\ Ordered \subseteq Quantities
  BY QuantityBound DEF Quantities

\* The rows that other rows refer to: standard orders keep their requisition
\* items, an order that is not there has no stock.
References ==
    \A o \in Orders :
        /\ orders[o].type = "STANDARD" => orders[o].lines \subseteq requested
        /\ ~Exists(o) => orders[o] = NoOrder /\ StockOf(o) = {}

Rows == TypeOK /\ References

LEMMA NoOrderIsAnOrder == NoOrder \in Order
  BY QuantitiesAreNumbers DEF NoOrder, Order, POStatus, PurchaseType

LEMMA PlainStockIsStock ==
    ASSUME NEW number \in Quantities, NEW approver \in BOOLEAN
    PROVE  PlainStock(number, approver) \in StockItem
  BY QuantitiesAreNumbers DEF PlainStock, StockItem

\* What AddOrder writes.
LEMMA AddedOrder ==
    ASSUME TypeOK, NEW o \in Orders, AddOrder(o)
    PROVE  \E new \in Order, approver \in BOOLEAN :
              /\ orders' = [orders EXCEPT ![o] = new]
              /\ new.status = IF new.lines \cap Serial # {} THEN "BARCODE" ELSE "OPEN"
              /\ new.decision = IF approver THEN "REQUESTED" ELSE "NONE"
              /\ ~new.finished
              /\ new.lines = {i \in Items : new.quantity[i] > 0}
              /\ new.quantity \in [Items -> Ordered \cup {0}]
              /\ new.barcoded = [i \in Items |-> 0]
              /\ new.invoices = IF new.early /\ ~approver THEN 1 ELSE 0
              /\ new.type = "STANDARD" => new.lines \subseteq Orderable
              /\ stock' = [k \in StockKeys |->
                    IF k[1] = o /\ k[2] \in new.lines \ Serial /\ k[3] = 0
                    THEN PlainStock(new.quantity[k[2]], approver) ELSE stock[k]]
              /\ available' = Taken(new.type, new.lines)
              /\ UNCHANGED requested
  <1>1. PICK type \in PurchaseType, approver \in BOOLEAN, early \in BOOLEAN,
             quantity \in [Items -> Ordered \cup {0}] :
           LET order == NewOrder(type, approver, early, quantity) IN
           /\ order.lines # {}
           /\ type = "STANDARD" => order.lines \subseteq Orderable
           /\ orders' = [orders EXCEPT ![o] = order]
           /\ stock' = [k \in StockKeys |->
                 IF k[1] = o /\ k[2] \in order.lines \ Serial /\ k[3] = 0
                 THEN PlainStock(quantity[k[2]], approver) ELSE stock[k]]
           /\ available' = Taken(type, order.lines)
    BY Zenon DEF AddOrder
  <1> DEFINE new == NewOrder(type, approver, early, quantity)
  <1>2. quantity \in [Items -> Quantities]
    BY QuantitiesAreNumbers
  <1>3. /\ new.status = IF new.lines \cap Serial # {} THEN "BARCODE" ELSE "OPEN"
        /\ new.type = type /\ new.early = early
        /\ new.decision = IF approver THEN "REQUESTED" ELSE "NONE"
        /\ new.finished = FALSE
        /\ new.lines = {i \in Items : quantity[i] > 0} /\ new.quantity = quantity
        /\ new.barcoded = [i \in Items |-> 0]
        /\ new.invoices = IF early /\ ~approver THEN 1 ELSE 0
    BY DEF NewOrder, OrderedLines
  <1>4. new \in Order
    BY <1>2 DEF NewOrder, OrderedLines, Order, POStatus, ApprovalDecisionStatus
  <1> HIDE DEF new
  <1>5. /\ type = "STANDARD" => new.lines \subseteq Orderable
        /\ orders' = [orders EXCEPT ![o] = new]
        /\ stock' = [k \in StockKeys |->
              IF k[1] = o /\ k[2] \in new.lines \ Serial /\ k[3] = 0
              THEN PlainStock(quantity[k[2]], approver) ELSE stock[k]]
        /\ available' = Taken(type, new.lines)
    BY <1>1 DEF new
  <1>6. UNCHANGED requested
    BY DEF AddOrder
  <1> WITNESS new \in Order, approver \in BOOLEAN
  <1> QED
    BY <1>3, <1>5, <1>6

LEMMA InitRows == Init => Rows
  BY QuantitiesAreNumbers, NoOrderIsAnOrder
  DEF Init, Rows, TypeOK, References, NoStock, StockItem, NoOrder, Exists, StockOf

LEMMA DecidedIsAnOrder ==
    ASSUME NEW order \in Order, NEW decision \in ApprovalDecisionStatus
    PROVE  /\ Decided(order, decision) \in Order
           /\ Decided(order, decision).status = order.status
           /\ Decided(order, decision).type = order.type
           /\ Decided(order, decision).early = order.early
           /\ Decided(order, decision).decision = decision
           /\ Decided(order, decision).finished =
                 (order.finished \/ decision = "APPROVE_AND_FINISH")
           /\ Decided(order, decision).lines = order.lines
           /\ Decided(order, decision).quantity = order.quantity
           /\ Decided(order, decision).barcoded = order.barcoded
           /\ Decided(order, decision).invoices = order.invoices +
                 IF decision = "APPROVE_AND_FINISH" /\ order.early THEN 1 ELSE 0
  <1> DEFINE finished == order.finished \/ decision = "APPROVE_AND_FINISH"
             invoices == order.invoices + IF decision = "APPROVE_AND_FINISH" /\ order.early
                                          THEN 1 ELSE 0
  <1>1. finished \in BOOLEAN /\ invoices \in Nat
    BY DEF Order
  <1>2. Decided(order, decision) =
           [order EXCEPT !.decision = decision, !.finished = finished, !.invoices = invoices]
    BY Zenon DEF Decided, Order
  <1> HIDE DEF finished, invoices
  <1>3. /\ Decided(order, decision) \in Order
        /\ Decided(order, decision).status = order.status
        /\ Decided(order, decision).type = order.type
        /\ Decided(order, decision).early = order.early
        /\ Decided(order, decision).decision = decision
        /\ Decided(order, decision).finished = finished
        /\ Decided(order, decision).lines = order.lines
        /\ Decided(order, decision).quantity = order.quantity
        /\ Decided(order, decision).barcoded = order.barcoded
        /\ Decided(order, decision).invoices = invoices
    BY <1>1, <1>2 DEF Order
  <1> QED
    BY <1>3 DEF finished, invoices

\* Whatever quantities the approver writes, it stays the order it was.
LEMMA DecidedKeepsLines ==
    ASSUME NEW order \in Order, NEW decision \in ApprovalDecisionStatus,
           NEW quantity \in [Items -> Quantities]
    PROVE  LET new == [Decided(order, decision) EXCEPT !.quantity = quantity] IN
           /\ new \in Order
           /\ new.status = order.status /\ new.type = order.type /\ new.lines = order.lines
  <1> DEFINE decided == Decided(order, decision)
             new == [decided EXCEPT !.quantity = quantity]
  <1>1. /\ decided \in Order /\ decided.status = order.status
        /\ decided.type = order.type /\ decided.lines = order.lines
    BY DecidedIsAnOrder
  <1> HIDE DEF decided
  <1>2. new \in Order
    BY <1>1 DEF Order
  <1>3. new.status = decided.status
    BY <1>1 DEF Order
  <1>4. new.type = decided.type
    BY <1>1 DEF Order
  <1>5. new.lines = decided.lines
    BY <1>1 DEF Order
  <1>6. /\ new \in Order
        /\ new.status = order.status /\ new.type = order.type /\ new.lines = order.lines
    <2> HIDE DEF new
    <2> QED BY <1>1, <1>2, <1>3, <1>4, <1>5
  <1> QED
    BY <1>6 DEF decided

\* A step keeps the references of the orders if it takes nothing from the
\* requisitions and at most changes orders that are there.
LEMMA KeptReferences ==
    ASSUME References, requested \subseteq requested',
           \A o \in Orders :
              \/ /\ orders'[o].type = orders[o].type /\ orders'[o].lines = orders[o].lines
                 /\ Exists(o) /\ orders'[o].status # "NEW"
              \/ /\ orders'[o] = orders[o]
                 /\ \A k \in StockKeys :
                       k[1] = o /\ stock[k].quantity = 0 => stock'[k].quantity = 0,
           \A k \in StockKeys : stock[k].quantity \in Nat /\ stock'[k].quantity \in Nat
    PROVE  References'
  <1> SUFFICES ASSUME NEW o \in Orders
               PROVE  /\ orders'[o].type = "STANDARD" => orders'[o].lines \subseteq requested'
                      /\ ~Exists(o)' => orders'[o] = NoOrder /\ StockOf(o)' = {}
    BY DEF References
  <1>1. CASE Exists(o) /\ orders'[o].status # "NEW"
             /\ orders'[o].type = orders[o].type /\ orders'[o].lines = orders[o].lines
    BY <1>1 DEF References, Exists
  <1>2. CASE /\ orders'[o] = orders[o]
             /\ \A k \in StockKeys :
                   k[1] = o /\ stock[k].quantity = 0 => stock'[k].quantity = 0
    BY <1>2 DEF References, Exists, StockOf
  <1> QED
    BY <1>1, <1>2

LEMMA AddOrderRows ==
    ASSUME Rows, NEW o \in Orders, AddOrder(o)
    PROVE  Rows'
  <1>1. PICK new \in Order, approver \in BOOLEAN :
           /\ orders' = [orders EXCEPT ![o] = new]
           /\ new.status = IF new.lines \cap Serial # {} THEN "BARCODE" ELSE "OPEN"
           /\ new.lines = {i \in Items : new.quantity[i] > 0}
           /\ new.quantity \in [Items -> Ordered \cup {0}]
           /\ new.type = "STANDARD" => new.lines \subseteq Orderable
           /\ stock' = [k \in StockKeys |->
                 IF k[1] = o /\ k[2] \in new.lines \ Serial /\ k[3] = 0
                 THEN PlainStock(new.quantity[k[2]], approver) ELSE stock[k]]
           /\ available' = Taken(new.type, new.lines)
           /\ UNCHANGED requested
    BY AddedOrder DEF Rows
  <1>2. Orderable \subseteq requested
    BY DEF Orderable, Rows, TypeOK
  <1>3. orders' \in [Orders -> Order] /\ orders'[o] = new
    BY <1>1 DEF Rows, TypeOK
  <1>4. stock' \in [StockKeys -> StockItem]
    <2>1. \A i \in Items : new.quantity[i] \in Quantities
      BY <1>1, QuantitiesAreNumbers
    <2>2. \A k \in StockKeys : k[2] \in Items
      BY DEF StockKeys
    <2>3. \A k \in StockKeys : PlainStock(new.quantity[k[2]], approver) \in StockItem
      BY <2>1, <2>2, PlainStockIsStock
    <2> QED
      BY <1>1, <2>3 DEF Rows, TypeOK
  <1>5. TypeOK'
    BY <1>1, <1>3, <1>4 DEF Rows, TypeOK, Taken
  <1>6. References'
    <2>1. new.status # "NEW"
      BY <1>1
    <2>2. ASSUME NEW p \in Orders, p # o
          PROVE  /\ orders'[p].type = "STANDARD" => orders'[p].lines \subseteq requested'
                 /\ ~Exists(p)' => orders'[p] = NoOrder /\ StockOf(p)' = {}
      <3>1. orders'[p] = orders[p]
        BY <1>1, <2>2 DEF Rows, TypeOK
      <3>2. \A k \in StockKeys : k[1] = p => stock'[k] = stock[k]
        BY <1>1, <2>2
      <3> QED
        BY <1>1, <3>1, <3>2 DEF Rows, References, Exists, StockOf
    <2>3. /\ orders'[o].type = "STANDARD" => orders'[o].lines \subseteq requested'
          /\ Exists(o)'
      BY <1>1, <1>2, <1>3, <2>1 DEF Exists
    <2> QED
      BY <2>2, <2>3 DEF References
  <1> QED
    BY <1>5, <1>6 DEF Rows

\* What SaveOrder writes.
LEMMA SavedOrder ==
    ASSUME TypeOK, NEW o \in Orders, SaveOrder(o)
    PROVE  \E new \in Order :
              /\ orders' = [orders EXCEPT ![o] = new]
              /\ new.status # "NEW"
              /\ new.type = orders[o].type /\ new.early = orders[o].early
              /\ new.lines = orders[o].lines
              /\ new.decision = "APPROVE_AND_FINISH" => orders[o].decision = "APPROVE_AND_FINISH"
              /\ new.decision = "NONE" <=> orders[o].decision = "NONE"
              /\ new.finished = orders[o].finished /\ new.invoices = orders[o].invoices
              /\ ~StalePages =>
                    /\ new.status = orders[o].status /\ new.decision = orders[o].decision
                    /\ new.barcoded = orders[o].barcoded
                    /\ AwaitsDecision(o) \/ new.quantity = orders[o].quantity
  <1>1. CASE UNCHANGED orders
    <2>1. orders[o] \in Order /\ orders' = [orders EXCEPT ![o] = orders[o]]
      BY <1>1 DEF TypeOK
    <2> QED
      BY <2>1 DEF SaveOrder, Exists
  <1>2. CASE AwaitsDecision(o)
             /\ \E quantity \in Changed(o) : orders' = [orders EXCEPT ![o].quantity = quantity]
    <2>1. PICK quantity \in Changed(o) : orders' = [orders EXCEPT ![o].quantity = quantity]
      BY <1>2
    <2> DEFINE new == [orders[o] EXCEPT !.quantity = quantity]
    <2>2. quantity \in [Items -> Quantities]
      BY QuantitiesAreNumbers DEF Changed
    <2>3. new \in Order
      BY <2>2 DEF TypeOK, Order
    <2>4. /\ orders' = [orders EXCEPT ![o] = new]
          /\ new.status = orders[o].status /\ new.decision = orders[o].decision
          /\ new.type = orders[o].type /\ new.early = orders[o].early
          /\ new.lines = orders[o].lines /\ new.barcoded = orders[o].barcoded
          /\ new.finished = orders[o].finished /\ new.invoices = orders[o].invoices
      BY <2>1 DEF TypeOK, Order
    <2> HIDE DEF new
    <2> QED
      BY <1>2, <2>3, <2>4 DEF SaveOrder, Exists
  <1>3. CASE StalePages /\ orders' = [orders EXCEPT ![o] = FirstForm(o)]
    <2>1. /\ FirstForm(o) \in Order
          /\ FirstForm(o).status # "NEW"
          /\ FirstForm(o).type = orders[o].type /\ FirstForm(o).early = orders[o].early
          /\ FirstForm(o).lines = orders[o].lines
          /\ FirstForm(o).decision # "APPROVE_AND_FINISH"
          /\ FirstForm(o).decision = "NONE" <=> orders[o].decision = "NONE"
          /\ FirstForm(o).finished = orders[o].finished
          /\ FirstForm(o).invoices = orders[o].invoices
      BY DEF FirstForm, TypeOK, Order, POStatus, ApprovalDecisionStatus
    <2> QED
      BY <1>3, <2>1
  <1> QED
    BY <1>1, <1>2, <1>3 DEF SaveOrder

\* What Barcode writes.
LEMMA BarcodedOrder ==
    ASSUME TypeOK, NEW o \in Orders, Barcode(o)
    PROVE  \E new \in Order, printed \in SUBSET SerialLines(o) :
              /\ orders' = [orders EXCEPT ![o] = new]
              /\ new.type = orders[o].type /\ new.early = orders[o].early
              /\ new.lines = orders[o].lines /\ new.quantity = orders[o].quantity
              /\ new.decision = orders[o].decision
              /\ new.finished = orders[o].finished /\ new.invoices = orders[o].invoices
              /\ \A i \in Items \ printed : new.barcoded[i] = orders[o].barcoded[i]
              /\ \/ /\ new.status = "OPEN"
                    /\ \E i \in printed : new.quantity[i] <= new.barcoded[i]
                 \/ /\ new.status = orders[o].status
                    /\ \A i \in printed : ~(new.quantity[i] <= new.barcoded[i])
              /\ stock' = [k \in StockKeys |->
                    IF k[1] = o /\ k[2] \in printed /\ NextPiece(k)
                    THEN PlainStock(1, FALSE) ELSE stock[k]]
  <1>1. PICK group \in [SerialLines(o) -> Quantities] :
        LET printed == {i \in SerialLines(o) : group[i] > 0}
            order == [orders[o] EXCEPT !.barcoded = [i \in Items |->
                         orders[o].barcoded[i] + IF i \in printed THEN group[i] ELSE 0]]
        IN
        /\ orders' = [orders EXCEPT ![o] =
               IF \E i \in printed : Complete(order, i)
               THEN [order EXCEPT !.status = "OPEN"] ELSE order]
        /\ stock' = [k \in StockKeys |->
               IF k[1] = o /\ k[2] \in printed /\ NextPiece(k)
               THEN PlainStock(1, FALSE) ELSE stock[k]]
    BY DEF Barcode
  <1> DEFINE printed == {i \in SerialLines(o) : group[i] > 0}
             barcoded == [i \in Items |->
                             orders[o].barcoded[i] + IF i \in printed THEN group[i] ELSE 0]
             order == [orders[o] EXCEPT !.barcoded = barcoded]
             opened == [order EXCEPT !.status = "OPEN"]
             new == IF \E i \in printed : Complete(order, i) THEN opened ELSE order
  <1>2. barcoded \in [Items -> Nat]
    <2>1. \A i \in printed : group[i] \in Nat
      BY QuantitiesAreNumbers
    <2>2. \A i \in Items : orders[o].barcoded[i] \in Nat
      BY DEF TypeOK, Order
    <2> HIDE DEF printed
    <2> QED
      BY <2>1, <2>2
  <1>3. \A i \in Items \ printed : barcoded[i] = orders[o].barcoded[i]
    BY DEF TypeOK, Order
  <1>4. /\ orders' = [orders EXCEPT ![o] = new]
        /\ stock' = [k \in StockKeys |->
               IF k[1] = o /\ k[2] \in printed /\ NextPiece(k)
               THEN PlainStock(1, FALSE) ELSE stock[k]]
    BY <1>1
  <1> HIDE DEF barcoded
  <1>5. /\ order \in Order /\ opened \in Order
        /\ order.status = orders[o].status /\ opened.status = "OPEN"
        /\ \A x \in {order, opened} :
              /\ x.type = orders[o].type /\ x.early = orders[o].early
              /\ x.lines = orders[o].lines /\ x.quantity = orders[o].quantity
              /\ x.decision = orders[o].decision
              /\ x.finished = orders[o].finished /\ x.invoices = orders[o].invoices
              /\ x.barcoded = barcoded
    BY <1>2 DEF TypeOK, Order, POStatus
  <1>6. printed \in SUBSET SerialLines(o)
    OBVIOUS
  <1> HIDE DEF printed, order, opened
  <1>7. /\ new \in Order
        /\ new.type = orders[o].type /\ new.early = orders[o].early
        /\ new.lines = orders[o].lines /\ new.quantity = orders[o].quantity
        /\ new.decision = orders[o].decision
        /\ new.finished = orders[o].finished /\ new.invoices = orders[o].invoices
        /\ new.barcoded = barcoded
    BY <1>5
  <1>8. \/ /\ new.status = "OPEN"
           /\ \E i \in printed : new.quantity[i] <= new.barcoded[i]
        \/ /\ new.status = orders[o].status
           /\ \A i \in printed : ~(new.quantity[i] <= new.barcoded[i])
    BY <1>5 DEF Complete
  <1> HIDE DEF new
  <1>9. new \in Order
    BY <1>7
  <1>10. \A i \in Items \ printed : new.barcoded[i] = orders[o].barcoded[i]
    BY <1>3, <1>7
  <1> QED
    BY <1>4, <1>6, <1>7, <1>8, <1>9, <1>10

LEMMA NextRows == Rows /\ [Next]_vars => Rows'
  <1> SUFFICES ASSUME Rows, [Next]_vars PROVE Rows'
    OBVIOUS
  <1> DEFINE Numbers == \A k \in StockKeys : stock[k].quantity \in Nat
  <1>0. Numbers
    BY QuantitiesAreNumbers DEF Rows, TypeOK, StockItem
  <1>1. ASSUME NEW i \in Items, AddRequisition(i) PROVE Rows'
    BY <1>1, <1>0, KeptReferences DEF AddRequisition, Rows, TypeOK, References
  <1>2. ASSUME NEW i \in Items, SaveRequisition(i) PROVE Rows'
    BY <1>2, <1>0, KeptReferences DEF SaveRequisition, Rows, TypeOK
  <1>3. ASSUME NEW i \in Items, LockItem(i) PROVE Rows'
    BY <1>3, <1>0, KeptReferences DEF LockItem, Rows, TypeOK
  <1>4. ASSUME NEW i \in Items, DeleteRequisition(i) PROVE Rows'
    BY <1>4 DEF DeleteRequisition, Rows, TypeOK, References, Exists, StockOf
  <1>5. ASSUME NEW o \in Orders, Decide(o) PROVE Rows'
    <2>1. PICK decision \in ApprovalDecisionStatus, quantity \in Changed(o) :
             /\ orders' = [orders EXCEPT ![o] =
                   [Decided(orders[o], decision) EXCEPT !.quantity = quantity]]
             /\ stock' = IF decision # "APPROVE_AND_FINISH" THEN stock
                         ELSE [k \in StockKeys |-> IF k \in StockOf(o)
                               THEN [stock[k] EXCEPT !.locked = FALSE] ELSE stock[k]]
      BY <1>5 DEF Decide
    <2> DEFINE new == [Decided(orders[o], decision) EXCEPT !.quantity = quantity]
    <2>2. quantity \in [Items -> Quantities]
      BY QuantitiesAreNumbers DEF Changed
    <2>3. /\ new \in Order
          /\ new.status = orders[o].status /\ new.type = orders[o].type
          /\ new.lines = orders[o].lines
      <3>1. orders[o] \in Order
        BY DEF Rows, TypeOK
      <3> QED
        BY <2>2, <3>1, DecidedKeepsLines
    <2>4. stock' \in [StockKeys -> StockItem]
      BY <2>1 DEF Rows, TypeOK, StockItem
    <2>5. \A k \in StockKeys : stock'[k].quantity = stock[k].quantity
      BY <2>1 DEF Rows, TypeOK, StockItem
    <2>6. Exists(o)
      BY <1>5 DEF Decide, Rows, References, NoOrder
    <2>7. orders' = [orders EXCEPT ![o] = new]
      BY <2>1
    <2> HIDE DEF new
    <2>8. TypeOK'
      BY <1>5, <2>3, <2>4, <2>7 DEF Rows, TypeOK, Decide
    <2>9. \A p \in Orders :
             \/ /\ orders'[p].type = orders[p].type /\ orders'[p].lines = orders[p].lines
                /\ Exists(p) /\ orders'[p].status # "NEW"
             \/ orders'[p] = orders[p]
      BY <2>3, <2>6, <2>7 DEF Rows, TypeOK, Exists
    <2> QED
      BY <1>0, <1>5, <2>5, <2>8, <2>9, KeptReferences DEF Decide, Rows
  <1>6. ASSUME NEW o \in Orders, NEW new \in Order, orders' = [orders EXCEPT ![o] = new],
               new.status # "NEW", Exists(o),
               new.type = orders[o].type, new.lines = orders[o].lines,
               UNCHANGED <<requested, available, stock>>
        PROVE Rows'
    <2>1. TypeOK'
      BY <1>6 DEF Rows, TypeOK
    <2> QED
      BY <1>0, <1>6, <2>1, KeptReferences DEF Rows, TypeOK
  <1>7. ASSUME NEW o \in Orders, SaveOrder(o) PROVE Rows'
    BY <1>6, <1>7, SavedOrder DEF SaveOrder, Rows
  <1>8. ASSUME NEW o \in Orders, Close(o) PROVE Rows'
    <2>1. /\ [orders[o] EXCEPT !.status = "CLOSED"] \in Order
          /\ orders' = [orders EXCEPT ![o] = [orders[o] EXCEPT !.status = "CLOSED"]]
      BY <1>8 DEF Close, Rows, TypeOK, Order, POStatus
    <2> QED
      BY <1>6, <1>8, <2>1 DEF Close, Rows, TypeOK, Order
  <1>9. ASSUME NEW o \in Orders, DeleteOrder(o) PROVE Rows'
    <2>1. NoStock \in StockItem
      BY QuantitiesAreNumbers DEF NoStock, StockItem
    <2>2. TypeOK'
      BY <1>9, <2>1, NoOrderIsAnOrder DEF DeleteOrder, Rows, TypeOK, References
    <2>3. ASSUME NEW p \in Orders
          PROVE  /\ orders'[p].type = "STANDARD" => orders'[p].lines \subseteq requested'
                 /\ ~Exists(p)' => orders'[p] = NoOrder /\ StockOf(p)' = {}
      <3>1. CASE p = o
        <4>1. orders' = [orders EXCEPT ![o] = NoOrder]
          BY <1>9 DEF DeleteOrder
        <4>2. \A k \in StockKeys : k[1] = o => stock'[k].quantity = 0
          BY <1>9 DEF DeleteOrder, NoStock
        <4>3. orders'[p] = NoOrder
          BY <3>1, <4>1 DEF Rows, TypeOK
        <4>4. StockOf(p)' = {}
          BY <3>1, <4>2 DEF StockOf
        <4> QED
          BY <4>3, <4>4 DEF NoOrder
      <3>2. CASE p # o
        BY <1>9, <3>2 DEF DeleteOrder, Rows, TypeOK, References, Exists, StockOf
      <3> QED
        BY <3>1, <3>2
    <2> QED
      BY <2>2, <2>3 DEF Rows, References
  <1>10. ASSUME NEW o \in Orders, Barcode(o) PROVE Rows'
    <2>1. PICK new \in Order, printed \in SUBSET SerialLines(o) :
             /\ orders' = [orders EXCEPT ![o] = new]
             /\ new.type = orders[o].type /\ new.lines = orders[o].lines
             /\ new.status \in {"OPEN", orders[o].status}
             /\ stock' = [k \in StockKeys |->
                    IF k[1] = o /\ k[2] \in printed /\ NextPiece(k)
                    THEN PlainStock(1, FALSE) ELSE stock[k]]
      <3>1. TypeOK
        BY DEF Rows
      <3> QED
        BY ONLY <1>10, <3>1, BarcodedOrder, ZenonT(20)
    <2>2. Exists(o)
      BY <1>10 DEF Barcode, Barcodeable, Exists
    <2>3. stock' \in [StockKeys -> StockItem]
      BY <2>1, PlainStockIsStock, QuantitiesAreNumbers DEF Rows, TypeOK
    <2>4. TypeOK'
      BY <1>10, <2>1, <2>3 DEF Barcode, Rows, TypeOK
    <2>5. \A p \in Orders :
             \/ /\ orders'[p].type = orders[p].type /\ orders'[p].lines = orders[p].lines
                /\ Exists(p) /\ orders'[p].status # "NEW"
             \/ /\ orders'[p] = orders[p]
                /\ \A k \in StockKeys : k[1] = p => stock'[k] = stock[k]
      BY <2>1, <2>2 DEF Rows, TypeOK, Exists
    <2>6. \A k \in StockKeys : stock'[k].quantity \in Nat
      BY <2>3, QuantitiesAreNumbers DEF StockItem
    <2> QED
      BY <1>0, <1>10, <2>4, <2>5, <2>6, KeptReferences DEF Barcode, Rows
  <1>11. ASSUME NEW o \in Orders, Receive(o) PROVE Rows'
    <2>1. PICK receipted \in [Receiptable(o) -> Quantities] :
             stock' = [k \in StockKeys |->
                 IF k \in Receiptable(o) /\ receipted[k] > 0
                 THEN Receipted(stock[k], receipted[k], orders[o].early) ELSE stock[k]]
      BY <1>11 DEF Receive
    <2>2. \A item \in StockItem, quantity \in Quantities, early \in BOOLEAN :
             /\ Receipted(item, quantity, early) \in StockItem
             /\ Receipted(item, quantity, early).quantity = item.quantity
      <3> TAKE item \in StockItem, quantity \in Quantities, early \in BOOLEAN
      <3> DEFINE received == item.received + quantity
                 billed == IF early THEN item.billed ELSE item.billed + quantity
                 locked == item.locked \/ received = item.quantity
      <3>1. received \in Nat /\ billed \in Nat /\ locked \in BOOLEAN
        BY QuantitiesAreNumbers DEF StockItem
      <3>2. Receipted(item, quantity, early) =
               [item EXCEPT !.received = received, !.billed = billed, !.locked = locked]
        BY Zenon DEF Receipted, StockItem
      <3> HIDE DEF received, billed, locked
      <3> QED
        BY <3>1, <3>2 DEF StockItem
    <2>3. orders[o].early \in BOOLEAN
      BY DEF Rows, TypeOK, Order
    <2>4. stock' \in [StockKeys -> StockItem]
      BY <2>1, <2>2, <2>3 DEF Rows, TypeOK
    <2>5. \A k \in StockKeys : stock'[k].quantity = stock[k].quantity
      BY <2>1, <2>2, <2>3 DEF Rows, TypeOK
    <2> QED
      BY <1>0, <1>11, <2>4, <2>5, KeptReferences DEF Receive, Rows, TypeOK
  <1>12. CASE UNCHANGED vars
    BY <1>0, <1>12, KeptReferences DEF Rows, TypeOK, vars
  <1> QED
    BY <1>1, <1>2, <1>3, <1>4, <1>5, <1>7, <1>8, <1>9, <1>10, <1>11, <1>12, AddOrderRows DEF Next

LEMMA AlwaysRows == Spec => []Rows
  BY InitRows, NextRows, PTL DEF Spec

\* Rows have their types, and only requested items are offered to orders,
\* stale pages or not.
THEOREM RequisitionsAndOrdersTyped == Spec => []TypeOK
  <1>1. Rows => TypeOK
    BY DEF Rows
  <1> QED
    BY <1>1, AlwaysRows, PTL
----------------------------------------------------------------------------
(* Nothing moves before the approval. *)

Approval ==
    /\ \A o \in Orders : orders[o].decision = "APPROVE_AND_FINISH" => orders[o].finished
    /\ NothingBeforeApproval

\* A step keeps the invariant if every order it leaves unreleased was so, and
\* keeps its invoices and its stock.
LEMMA KeptApproval ==
    ASSUME Approval,
           \A o \in Orders :
              /\ orders'[o].decision = "APPROVE_AND_FINISH" => orders'[o].finished
              /\ \/ Released(o)'
                 \/ /\ ~Released(o)
                    /\ orders'[o].invoices = orders[o].invoices
                    /\ \A k \in StockKeys : k[1] = o => stock'[k] = stock[k]
    PROVE  Approval'
  BY DEF Approval, NothingBeforeApproval, Released, StockOf

LEMMA NextApproval == Rows /\ Approval /\ [Next]_vars => Approval'
  <1> SUFFICES ASSUME Rows, Approval, [Next]_vars PROVE Approval'
    OBVIOUS
  <1>1. ASSUME UNCHANGED stock,
               \A o \in Orders : /\ orders'[o].decision = orders[o].decision
                                 /\ orders'[o].finished = orders[o].finished
                                 /\ orders'[o].invoices = orders[o].invoices
        PROVE Approval'
    BY <1>1, KeptApproval DEF Approval, Released
  <1>2. ASSUME NEW i \in Items,
               AddRequisition(i) \/ SaveRequisition(i) \/ LockItem(i) \/ DeleteRequisition(i)
        PROVE Approval'
    BY <1>1, <1>2 DEF AddRequisition, SaveRequisition, LockItem, DeleteRequisition
  <1>3. ASSUME NEW o \in Orders, AddOrder(o) PROVE Approval'
    <2>1. PICK new \in Order, approver \in BOOLEAN :
             /\ orders' = [orders EXCEPT ![o] = new]
             /\ new.decision = IF approver THEN "REQUESTED" ELSE "NONE"
             /\ new.invoices = IF new.early /\ ~approver THEN 1 ELSE 0
             /\ stock' = [k \in StockKeys |->
                   IF k[1] = o /\ k[2] \in new.lines \ Serial /\ k[3] = 0
                   THEN PlainStock(new.quantity[k[2]], approver) ELSE stock[k]]
      BY <1>3, AddedOrder DEF Rows
    <2>2. \A p \in Orders : orders'[p] = IF p = o THEN new ELSE orders[p]
      BY <2>1 DEF Rows, TypeOK
    <2>3. \A k \in StockKeys : k[1] = o => stock[k].quantity = 0
      <3>1. \A k \in StockKeys : stock[k].quantity \in Nat
        BY QuantitiesAreNumbers DEF Rows, TypeOK, StockItem
      <3> QED
        BY <1>3, <3>1 DEF AddOrder, Rows, References, StockOf
    <2>4. ASSUME ~Released(o)'
          PROVE  /\ orders'[o].invoices = 0
                 /\ \A k \in StockOf(o)' : /\ k[3] = 0 /\ stock'[k].locked
                                           /\ stock'[k].received = 0 /\ stock'[k].billed = 0
      <3>1. approver = TRUE
        BY <2>1, <2>2, <2>4 DEF Released
      <3>2. ASSUME NEW k \in StockOf(o)'
            PROVE  k[3] = 0 /\ stock'[k] = PlainStock(new.quantity[k[2]], approver)
        BY <2>1, <2>3, <3>2 DEF StockOf
      <3>3. orders'[o].invoices = 0
        <4>1. orders'[o] = new
          BY <2>2
        <4>2. new.invoices = IF new.early /\ ~approver THEN 1 ELSE 0
          BY <2>1
        <4> QED
          BY ONLY <3>1, <4>1, <4>2
      <3>4. \A quantity : /\ PlainStock(quantity, TRUE).locked
                          /\ PlainStock(quantity, TRUE).received = 0
                          /\ PlainStock(quantity, TRUE).billed = 0
        BY DEF PlainStock
      <3>5. ASSUME NEW k \in StockOf(o)'
            PROVE  /\ k[3] = 0 /\ stock'[k].locked
                   /\ stock'[k].received = 0 /\ stock'[k].billed = 0
        <4>1. k[3] = 0 /\ stock'[k] = PlainStock(new.quantity[k[2]], TRUE)
          BY <3>1, <3>2
        <4> QED
          BY ONLY <3>4, <4>1
      <3> QED
        BY <3>3, <3>5
    <2>5. \A p \in Orders : orders'[p].decision = "APPROVE_AND_FINISH" => orders'[p].finished
      BY <2>1, <2>2 DEF Approval
    <2>6. ASSUME NEW p \in Orders, p # o, ~Released(p)'
          PROVE  /\ orders'[p].invoices = 0
                 /\ \A k \in StockOf(p)' : /\ k[3] = 0 /\ stock'[k].locked
                                           /\ stock'[k].received = 0 /\ stock'[k].billed = 0
      <3>1. \A k \in StockKeys : k[1] = p => stock'[k] = stock[k]
        BY <2>1, <2>6
      <3> QED
        BY <2>2, <2>6, <3>1 DEF Approval, NothingBeforeApproval, Released, StockOf
    <2> QED
      BY <2>4, <2>5, <2>6 DEF Approval, NothingBeforeApproval
  <1>4. ASSUME NEW o \in Orders, Decide(o) PROVE Approval'
    <2>1. PICK decision \in ApprovalDecisionStatus, quantity \in Changed(o) :
             /\ orders' = [orders EXCEPT ![o] =
                   [Decided(orders[o], decision) EXCEPT !.quantity = quantity]]
             /\ stock' = IF decision # "APPROVE_AND_FINISH" THEN stock
                         ELSE [k \in StockKeys |-> IF k \in StockOf(o)
                               THEN [stock[k] EXCEPT !.locked = FALSE] ELSE stock[k]]
      BY <1>4 DEF Decide
    <2>2. /\ orders'[o].decision = decision
          /\ orders'[o].finished = (orders[o].finished \/ decision = "APPROVE_AND_FINISH")
          /\ decision # "APPROVE_AND_FINISH" => orders'[o].invoices = orders[o].invoices
      BY <2>1, DecidedIsAnOrder DEF Rows, TypeOK, Order
    <2>3. \A p \in Orders : p # o =>
             orders'[p] = orders[p] /\ \A k \in StockKeys : k[1] = p => stock'[k] = stock[k]
      BY <2>1 DEF Rows, TypeOK, StockOf
    <2>4. CASE decision = "APPROVE_AND_FINISH"
      BY <2>2, <2>3, <2>4, KeptApproval DEF Approval, Released
    <2>5. CASE decision # "APPROVE_AND_FINISH"
      BY <1>4, <2>1, <2>2, <2>3, <2>5, KeptApproval DEF Approval, Released, Decide
    <2> QED
      BY <2>4, <2>5
  <1>5. ASSUME NEW o \in Orders, SaveOrder(o) PROVE Approval'
    <2>1. \A p \in Orders :
             /\ orders'[p].decision = "APPROVE_AND_FINISH" => orders[p].decision = "APPROVE_AND_FINISH"
             /\ orders'[p].decision = "NONE" <=> orders[p].decision = "NONE"
             /\ orders'[p].finished = orders[p].finished
             /\ orders'[p].invoices = orders[p].invoices
      BY <1>5, SavedOrder DEF Rows, TypeOK
    <2> QED
      BY <1>5, <2>1, KeptApproval DEF SaveOrder, Approval, Released
  <1>6. ASSUME NEW o \in Orders, Close(o) PROVE Approval'
    BY <1>1, <1>6 DEF Close, Rows, TypeOK, Order
  <1>7. ASSUME NEW o \in Orders, DeleteOrder(o) PROVE Approval'
    BY <1>7, KeptApproval DEF DeleteOrder, NoOrder, Approval, Released, Rows, TypeOK
  <1>8. ASSUME NEW o \in Orders, Barcode(o) PROVE Approval'
    <2>1. Released(o)
      BY <1>8 DEF Barcode, Barcodeable, Released, Approval
    <2>2. \A p \in Orders : /\ orders'[p].decision = orders[p].decision
                            /\ orders'[p].finished = orders[p].finished
                            /\ orders'[p].invoices = orders[p].invoices
                            /\ p # o => \A k \in StockKeys : k[1] = p => stock'[k] = stock[k]
      BY <1>8, BarcodedOrder DEF Rows, TypeOK
    <2> QED
      BY <2>1, <2>2, KeptApproval DEF Approval, Released
  <1>9. ASSUME NEW o \in Orders, Receive(o) PROVE Approval'
    <2>1. PICK k \in Receiptable(o) : TRUE
      BY <1>9 DEF Receive
    <2>2. Released(o)
      BY <2>1 DEF Receiptable, Approval, NothingBeforeApproval
    <2>3. \A p \in Orders : p # o => \A x \in StockKeys : x[1] = p => stock'[x] = stock[x]
      BY <1>9 DEF Receive, Receiptable, StockOf
    <2> QED
      BY <1>9, <2>2, <2>3, KeptApproval DEF Receive, Approval, Released
  <1>10. CASE UNCHANGED vars
    BY <1>1, <1>10 DEF vars
  <1> QED
    BY <1>2, <1>3, <1>4, <1>5, <1>6, <1>7, <1>8, <1>9, <1>10 DEF Next

\* Whatever pages are open, an order whose approval is not finished is neither
\* invoiced nor printed, received or receivable.
THEOREM ApprovalComesFirst == Spec => []NothingBeforeApproval
  <1>1. Init => Approval
    BY DEF Init, NoOrder, Approval, NothingBeforeApproval, Released
  <1>2. Approval => NothingBeforeApproval
    BY DEF Approval
  <1> QED
    BY <1>1, <1>2, AlwaysRows, NextApproval, PTL DEF Spec
----------------------------------------------------------------------------
(* A requisition item is ordered once, while pages are up to date. *)

\* A step that leaves the lines of the orders alone, and frees no item.
LEMMA KeptOrdered ==
    ASSUME OrderedOnce,
           \A o \in Orders : /\ orders'[o].type = orders[o].type
                             /\ orders'[o].lines = orders[o].lines,
           \A i \in Items : StandardOrders(i) # {} /\ i \in requested \ available
                               => i \in requested' \ available'
    PROVE  OrderedOnce'
  BY DEF OrderedOnce, StandardOrders

\* Decisions, barcodes and edits leave the lines of all orders alone.
LEMMA LinesStay ==
    ASSUME TypeOK, NEW o \in Orders,
           Decide(o) \/ SaveOrder(o) \/ Close(o) \/ Barcode(o) \/ Receive(o)
    PROVE  /\ UNCHANGED <<requested, available>>
           /\ \A p \in Orders : /\ orders'[p].type = orders[p].type
                                /\ orders'[p].lines = orders[p].lines
  <1>1. CASE Decide(o)
    <2>1. PICK decision \in ApprovalDecisionStatus, quantity \in Changed(o) :
             orders' = [orders EXCEPT ![o] =
                [Decided(orders[o], decision) EXCEPT !.quantity = quantity]]
      BY <1>1 DEF Decide
    <2>2. quantity \in [Items -> Quantities]
      BY QuantitiesAreNumbers DEF Changed
    <2> DEFINE new == [Decided(orders[o], decision) EXCEPT !.quantity = quantity]
    <2>3. new.type = orders[o].type /\ new.lines = orders[o].lines
      <3>1. orders[o] \in Order
        BY DEF TypeOK
      <3> QED
        BY <2>2, <3>1, DecidedKeepsLines
    <2>4. orders' = [orders EXCEPT ![o] = new]
      BY <2>1
    <2> HIDE DEF new
    <2> QED
      BY <1>1, <2>3, <2>4 DEF Decide, TypeOK
  <1>2. CASE SaveOrder(o)
    BY <1>2, SavedOrder DEF SaveOrder, TypeOK
  <1>3. CASE Close(o)
    BY <1>3 DEF Close, TypeOK, Order
  <1>4. CASE Barcode(o)
    BY <1>4, BarcodedOrder DEF Barcode, TypeOK
  <1>5. CASE Receive(o)
    BY <1>5 DEF Receive
  <1> QED
    BY <1>1, <1>2, <1>3, <1>4, <1>5

LEMMA NextOrderedOnce ==
    ASSUME ~StalePages, Rows, OrderedOnce, [Next]_vars
    PROVE  OrderedOnce'
  <1>1. ASSUME NEW i \in Items,
               AddRequisition(i) \/ SaveRequisition(i) \/ LockItem(i) \/ DeleteRequisition(i)
        PROVE OrderedOnce'
    BY <1>1
    DEF AddRequisition, SaveRequisition, LockItem, DeleteRequisition, OrderedOnce, StandardOrders
  <1>2. ASSUME NEW o \in Orders, AddOrder(o) PROVE OrderedOnce'
    <2>1. PICK new \in Order :
             /\ orders' = [orders EXCEPT ![o] = new]
             /\ new.type = "STANDARD" => new.lines \subseteq Orderable
             /\ available' = Taken(new.type, new.lines)
             /\ UNCHANGED requested
      BY <1>2, AddedOrder DEF Rows
    <2>2. \A p \in Orders : orders'[p] = IF p = o THEN new ELSE orders[p]
      BY <2>1 DEF Rows, TypeOK
    <2>3. \A i \in Items : o \notin StandardOrders(i)
      BY <1>2 DEF AddOrder, Rows, References, NoOrder, StandardOrders
    <2>4. \A i \in Items : StandardOrders(i)' =
             StandardOrders(i) \cup {p \in {o} : new.type = "STANDARD" /\ i \in new.lines}
      BY <2>2, <2>3 DEF StandardOrders
    <2>5. \A i \in Items : new.type = "STANDARD" /\ i \in new.lines => StandardOrders(i) = {}
      BY <2>1 DEF Orderable, OrderedOnce
    <2>6. available \subseteq requested
      BY DEF Rows, TypeOK
    <2> QED
      BY <2>1, <2>4, <2>5, <2>6 DEF OrderedOnce, Taken, Orderable
  <1>3. ASSUME NEW o \in Orders, DeleteOrder(o) PROVE OrderedOnce'
    <2>1. \A i \in Items : StandardOrders(i)' = StandardOrders(i) \ {o}
      BY <1>3 DEF DeleteOrder, StandardOrders, NoOrder, Rows, TypeOK
    <2> QED
      BY <1>3, <2>1 DEF DeleteOrder, OrderedOnce, StandardOrders
  <1>4. ASSUME NEW o \in Orders,
               Decide(o) \/ SaveOrder(o) \/ Close(o) \/ Barcode(o) \/ Receive(o)
        PROVE OrderedOnce'
    BY <1>4, LinesStay, KeptOrdered DEF Rows
  <1>5. CASE UNCHANGED vars
    BY <1>5, KeptOrdered DEF vars
  <1> QED
    BY <1>1, <1>2, <1>3, <1>4, <1>5 DEF Next

\* While pages are up to date no requisition item is on two standard orders,
\* and none that is ordered is offered.
THEOREM ItemsOrderedOnce == Spec => [](~StalePages => OrderedOnce)
  <1>1. Init => OrderedOnce
    BY DEF Init, NoOrder, OrderedOnce, StandardOrders
  <1>2. Rows /\ (~StalePages => OrderedOnce) /\ [Next]_vars => (~StalePages => OrderedOnce)'
    BY NextOrderedOnce
  <1> QED
    BY <1>1, <1>2, AlwaysRows, PTL DEF Spec

LEMMA LockIsKept ==
    ASSUME ~StalePages, Rows, [Next]_vars, NEW i \in Items, LockedByHand(i)
    PROVE  LockedByHand(i)' \/ i \notin requested'
  <1>1. ASSUME NEW j \in Items,
               AddRequisition(j) \/ SaveRequisition(j) \/ LockItem(j) \/ DeleteRequisition(j)
        PROVE LockedByHand(i)' \/ i \notin requested'
    BY <1>1
    DEF AddRequisition, SaveRequisition, LockItem, DeleteRequisition, LockedByHand, StandardOrders
  <1>2. ASSUME NEW o \in Orders, AddOrder(o) PROVE LockedByHand(i)'
    <2>1. PICK new \in Order :
             /\ orders' = [orders EXCEPT ![o] = new]
             /\ new.type = "STANDARD" => new.lines \subseteq Orderable
             /\ available' = Taken(new.type, new.lines)
             /\ UNCHANGED requested
      BY <1>2, AddedOrder DEF Rows
    <2>2. \A p \in Orders : orders'[p] = IF p = o THEN new ELSE orders[p]
      BY <2>1 DEF Rows, TypeOK
    <2> QED
      BY <2>1, <2>2 DEF LockedByHand, StandardOrders, Orderable, Taken
  <1>3. ASSUME NEW o \in Orders, DeleteOrder(o) PROVE LockedByHand(i)'
    BY <1>3 DEF DeleteOrder, LockedByHand, StandardOrders, NoOrder, Rows, TypeOK
  <1>4. ASSUME NEW o \in Orders,
               Decide(o) \/ SaveOrder(o) \/ Close(o) \/ Barcode(o) \/ Receive(o)
        PROVE LockedByHand(i)'
    BY <1>4, LinesStay DEF Rows, LockedByHand, StandardOrders
  <1>5. CASE UNCHANGED vars
    BY <1>5 DEF vars, LockedByHand, StandardOrders
  <1> QED
    BY <1>1, <1>2, <1>3, <1>4, <1>5 DEF Next

\* While pages are up to date an item that was locked by hand is neither
\* ordered nor offered as long as it is requested.
THEOREM LockedForGood ==
    ASSUME ~StalePages
    PROVE  Spec => LockedStays
  <1>1. Rows /\ [Next]_vars =>
           [\A i \in Items : LockedByHand(i) => LockedByHand(i)' \/ i \notin requested']_vars
    BY LockIsKept
  <1> QED
    BY <1>1, AlwaysRows, PTL DEF Spec, LockedStays
----------------------------------------------------------------------------
(* Invoices and barcodes, while pages are up to date. *)

\* The approver decides before anything is printed, and not again.
InTurn ==
    \A o \in Orders :
        /\ orders[o].finished <=> orders[o].decision = "APPROVE_AND_FINISH"
        /\ orders[o].decision \notin {"NONE", "APPROVE_AND_FINISH"} =>
              /\ \A i \in Items : orders[o].barcoded[i] = 0
              /\ orders[o].status = "OPEN" => SerialLines(o) = {}

Documents == InTurn /\ InvoicedOnce /\ BarcodeStatus

\* What they say of one order.
InTurnOf(order) ==
    /\ order.finished <=> order.decision = "APPROVE_AND_FINISH"
    /\ order.decision \notin {"NONE", "APPROVE_AND_FINISH"} =>
          /\ \A i \in Items : order.barcoded[i] = 0
          /\ order.status = "OPEN" => order.lines \cap Serial = {}
InvoicedOf(order) ==
    order.invoices = IF order.early /\ (order.decision = "NONE" \/ order.finished) THEN 1 ELSE 0
BarcodesOf(order) ==
    /\ order.status = "BARCODE" =>
          \A i \in order.lines \cap Serial : order.quantity[i] > 0 => order.barcoded[i] < order.quantity[i]
    /\ order.status = "OPEN" /\ order.lines \cap Serial # {} =>
          \E i \in order.lines \cap Serial : order.barcoded[i] >= order.quantity[i]
Billed ==
    \A o \in Orders : \A k \in StockOf(o) :
        stock[k].billed = IF orders[o].early THEN 0 ELSE stock[k].received

LEMMA DocumentsByOrder ==
    /\ Documents <=>
          /\ \A o \in Orders : InTurnOf(orders[o]) /\ InvoicedOf(orders[o]) /\ BarcodesOf(orders[o])
          /\ Billed
    /\ Documents' <=>
          /\ \A o \in Orders : InTurnOf(orders'[o]) /\ InvoicedOf(orders'[o]) /\ BarcodesOf(orders'[o])
          /\ Billed'
  <1>1. Documents <=>
          /\ \A o \in Orders : InTurnOf(orders[o]) /\ InvoicedOf(orders[o]) /\ BarcodesOf(orders[o])
          /\ Billed
    BY DEF Documents, InTurn, InvoicedOnce, BarcodeStatus, InTurnOf, InvoicedOf, BarcodesOf, Billed,
           SerialLines, Released
  <1>2. Documents' <=>
          /\ \A o \in Orders : InTurnOf(orders'[o]) /\ InvoicedOf(orders'[o]) /\ BarcodesOf(orders'[o])
          /\ Billed'
    BY DEF Documents, InTurn, InvoicedOnce, BarcodeStatus, InTurnOf, InvoicedOf, BarcodesOf, Billed,
           SerialLines, Released
  <1> QED
    BY <1>1, <1>2

\* A step that writes one order and at most its stock.
LEMMA OneOrder ==
    ASSUME Documents, NEW o \in Orders, NEW new,
           orders' = [orders EXCEPT ![o] = new], orders \in [Orders -> Order],
           InTurnOf(new), InvoicedOf(new), BarcodesOf(new),
           \A k \in StockKeys : k[1] # o => stock'[k] = stock[k],
           \A k \in StockOf(o)' : stock'[k].billed = IF new.early THEN 0 ELSE stock'[k].received
    PROVE  Documents'
  <1>1. \A p \in Orders : orders'[p] = IF p = o THEN new ELSE orders[p]
    OBVIOUS
  <1>2. \A p \in Orders : InTurnOf(orders'[p]) /\ InvoicedOf(orders'[p]) /\ BarcodesOf(orders'[p])
    BY <1>1, DocumentsByOrder
  <1>3. Billed'
    <2>1. \A p \in Orders : p # o => StockOf(p)' = StockOf(p)
      BY DEF StockOf
    <2>2. \A p \in Orders : p # o => \A k \in StockOf(p) : stock'[k] = stock[k]
      BY DEF StockOf
    <2> QED
      BY <1>1, <2>1, <2>2, DocumentsByOrder DEF Billed
  <1> QED
    BY <1>2, <1>3, DocumentsByOrder

LEMMA NextDocuments ==
    ASSUME ~StalePages, Rows, Documents, [Next]_vars
    PROVE  Documents'
  <1>1. ASSUME UNCHANGED <<orders, stock>> PROVE Documents'
    <2>1. Billed'
      BY <1>1, DocumentsByOrder DEF Billed, StockOf
    <2> QED
      BY <1>1, <2>1, DocumentsByOrder
  <1>2. ASSUME NEW i \in Items,
               AddRequisition(i) \/ SaveRequisition(i) \/ LockItem(i) \/ DeleteRequisition(i)
        PROVE Documents'
    BY <1>1, <1>2 DEF AddRequisition, SaveRequisition, LockItem, DeleteRequisition
  <1>3. ASSUME NEW o \in Orders, AddOrder(o) PROVE Documents'
    <2>1. PICK new \in Order, approver \in BOOLEAN :
             /\ orders' = [orders EXCEPT ![o] = new]
             /\ new.status = IF new.lines \cap Serial # {} THEN "BARCODE" ELSE "OPEN"
             /\ new.decision = IF approver THEN "REQUESTED" ELSE "NONE"
             /\ ~new.finished
             /\ new.barcoded = [i \in Items |-> 0]
             /\ new.invoices = IF new.early /\ ~approver THEN 1 ELSE 0
             /\ stock' = [k \in StockKeys |->
                   IF k[1] = o /\ k[2] \in new.lines \ Serial /\ k[3] = 0
                   THEN PlainStock(new.quantity[k[2]], approver) ELSE stock[k]]
      BY <1>3, AddedOrder DEF Rows
    <2>2. InTurnOf(new) /\ InvoicedOf(new)
      BY <2>1 DEF InTurnOf, InvoicedOf
    <2>3. BarcodesOf(new)
      <3>1. /\ new.lines \subseteq Items
            /\ \A i \in Items : new.barcoded[i] = 0 /\ new.quantity[i] \in Nat
        BY <2>1, QuantitiesAreNumbers DEF Order
      <3> QED
        BY <2>1, <3>1 DEF BarcodesOf
    <2>4. \A k \in StockKeys : k[1] = o => stock[k].quantity = 0
      <3>1. \A k \in StockKeys : stock[k].quantity \in Nat
        BY QuantitiesAreNumbers DEF Rows, TypeOK, StockItem
      <3> QED
        BY <1>3, <3>1 DEF AddOrder, Rows, References, StockOf
    <2>5. ASSUME NEW k \in StockOf(o)'
          PROVE  stock'[k].billed = IF new.early THEN 0 ELSE stock'[k].received
      <3>1. stock'[k] = PlainStock(new.quantity[k[2]], approver)
        BY <2>1, <2>4, <2>5 DEF StockOf
      <3> QED
        BY <3>1 DEF PlainStock
    <2>6. \A k \in StockKeys : k[1] # o => stock'[k] = stock[k]
      BY <2>1
    <2> QED
      BY <2>1, <2>2, <2>3, <2>5, <2>6, OneOrder DEF Rows, TypeOK
  <1>4. ASSUME NEW o \in Orders, Decide(o) PROVE Documents'
    <2>1. PICK decision \in ApprovalDecisionStatus, quantity \in Changed(o) :
             /\ orders' = [orders EXCEPT ![o] =
                   [Decided(orders[o], decision) EXCEPT !.quantity = quantity]]
             /\ stock' = IF decision # "APPROVE_AND_FINISH" THEN stock
                         ELSE [k \in StockKeys |-> IF k \in StockOf(o)
                               THEN [stock[k] EXCEPT !.locked = FALSE] ELSE stock[k]]
      BY <1>4 DEF Decide
    <2> DEFINE new == [Decided(orders[o], decision) EXCEPT !.quantity = quantity]
    <2>2. /\ new.status = orders[o].status /\ new.early = orders[o].early
          /\ new.decision = decision
          /\ new.finished = (orders[o].finished \/ decision = "APPROVE_AND_FINISH")
          /\ new.lines = orders[o].lines /\ new.quantity = quantity
          /\ new.barcoded = orders[o].barcoded
          /\ new.invoices = orders[o].invoices +
                IF decision = "APPROVE_AND_FINISH" /\ orders[o].early THEN 1 ELSE 0
      BY DecidedIsAnOrder DEF Rows, TypeOK, Order
    <2>3. orders' = [orders EXCEPT ![o] = new]
      BY <2>1
    <2> HIDE DEF new
    <2>4. /\ orders[o].decision \in {"REQUESTED", "FORWARD"}
          /\ ~orders[o].finished
          /\ orders[o].invoices = 0
          /\ \A i \in Items : orders[o].barcoded[i] = 0
          /\ orders[o].status = "OPEN" => orders[o].lines \cap Serial = {}
      BY <1>4 DEF Decide, AwaitsDecision, Documents, InTurn, InvoicedOnce, SerialLines, Released
    <2>5. decision # "NONE"
      BY DEF ApprovalDecisionStatus
    <2>6. InTurnOf(new)
      BY <2>2, <2>4 DEF InTurnOf
    <2>7. InvoicedOf(new)
      <3>1. orders[o].early \in BOOLEAN
        BY DEF Rows, TypeOK, Order
      <3>2. CASE decision = "APPROVE_AND_FINISH"
        BY <2>2, <2>4, <3>1, <3>2 DEF InvoicedOf
      <3>3. CASE decision # "APPROVE_AND_FINISH"
        <4>1. new.invoices = 0 /\ ~new.finished /\ new.decision # "NONE"
          <5>1. new.invoices = orders[o].invoices
            <6>1. orders[o].invoices \in Nat
              BY DEF Rows, TypeOK, Order
            <6> QED
              BY <2>2, <3>3, <6>1
          <5>2. new.finished = orders[o].finished
            <6>1. orders[o].finished \in BOOLEAN
              BY DEF Rows, TypeOK, Order
            <6> QED
              BY <2>2, <3>3, <6>1
          <5> QED
            BY <2>2, <2>4, <2>5, <5>1, <5>2
        <4> QED
          BY <4>1 DEF InvoicedOf
      <3> QED
        BY <3>2, <3>3
    <2>8. BarcodesOf(new)
      <3>1. /\ \A i \in Items : quantity[i] \in Nat
            /\ orders[o].lines \subseteq Items
        BY QuantitiesAreNumbers DEF Changed, Rows, TypeOK, Order
      <3> QED
        BY <2>2, <2>4, <3>1 DEF BarcodesOf
    <2>9. \A k \in StockKeys : /\ k[1] # o => stock'[k] = stock[k]
                               /\ stock'[k].quantity = stock[k].quantity
                               /\ stock'[k].received = stock[k].received
                               /\ stock'[k].billed = stock[k].billed
      BY <2>1 DEF Rows, TypeOK, StockItem, StockOf
    <2>10. \A k \in StockOf(o)' :
              stock'[k].billed = IF new.early THEN 0 ELSE stock'[k].received
      BY <2>2, <2>9 DEF StockOf, Documents, InvoicedOnce
    <2> QED
      BY <2>3, <2>6, <2>7, <2>8, <2>9, <2>10, OneOrder DEF Rows, TypeOK
  <1>5. ASSUME NEW o \in Orders, SaveOrder(o) PROVE Documents'
    <2>1. PICK new \in Order :
             /\ orders' = [orders EXCEPT ![o] = new]
             /\ new.early = orders[o].early /\ new.lines = orders[o].lines
             /\ new.finished = orders[o].finished /\ new.invoices = orders[o].invoices
             /\ new.status = orders[o].status /\ new.decision = orders[o].decision
             /\ new.barcoded = orders[o].barcoded
             /\ AwaitsDecision(o) \/ new.quantity = orders[o].quantity
      BY <1>5, SavedOrder DEF Rows
    <2>2. InTurnOf(orders[o]) /\ InvoicedOf(orders[o]) /\ BarcodesOf(orders[o])
      BY DocumentsByOrder
    <2>3. InTurnOf(new) /\ InvoicedOf(new)
      BY <2>1, <2>2 DEF InTurnOf, InvoicedOf
    <2>4. BarcodesOf(new)
      <3>1. CASE AwaitsDecision(o)
        <4>1. /\ \A i \in Items : new.barcoded[i] = 0
              /\ new.status = "OPEN" => new.lines \cap Serial = {}
          BY <2>1, <2>3, <3>1 DEF InTurnOf, AwaitsDecision
        <4>2. new.lines \subseteq Items /\ \A i \in Items : new.quantity[i] \in Nat
          BY QuantitiesAreNumbers DEF Order
        <4> QED
          BY <4>1, <4>2 DEF BarcodesOf
      <3>2. CASE new.quantity = orders[o].quantity
        BY <2>1, <2>2, <3>2 DEF BarcodesOf
      <3> QED
        BY <2>1, <3>1, <3>2
    <2>5. \A k \in StockOf(o)' :
             stock'[k].billed = IF new.early THEN 0 ELSE stock'[k].received
      BY <1>5, <2>1 DEF SaveOrder, StockOf, Documents, InvoicedOnce
    <2> QED
      BY <1>5, <2>1, <2>3, <2>4, <2>5, OneOrder DEF SaveOrder, Rows, TypeOK
  <1>6. ASSUME NEW o \in Orders, Close(o) PROVE Documents'
    <2> DEFINE new == [orders[o] EXCEPT !.status = "CLOSED"]
    <2>1. orders' = [orders EXCEPT ![o] = new]
      BY <1>6 DEF Close
    <2>2. /\ new.status = "CLOSED" /\ new.early = orders[o].early
          /\ new.decision = orders[o].decision /\ new.finished = orders[o].finished
          /\ new.barcoded = orders[o].barcoded /\ new.invoices = orders[o].invoices
      BY DEF Rows, TypeOK, Order
    <2> HIDE DEF new
    <2>3. InTurnOf(orders[o]) /\ InvoicedOf(orders[o])
      BY DocumentsByOrder
    <2>4. InTurnOf(new) /\ InvoicedOf(new) /\ BarcodesOf(new)
      BY <2>2, <2>3 DEF InTurnOf, InvoicedOf, BarcodesOf
    <2>5. \A k \in StockOf(o)' :
             stock'[k].billed = IF new.early THEN 0 ELSE stock'[k].received
      BY <1>6, <2>2 DEF Close, StockOf, Documents, InvoicedOnce
    <2> QED
      BY <1>6, <2>1, <2>4, <2>5, OneOrder DEF Close, Rows, TypeOK
  <1>7. ASSUME NEW o \in Orders, DeleteOrder(o) PROVE Documents'
    <2>1. InTurnOf(NoOrder) /\ InvoicedOf(NoOrder) /\ BarcodesOf(NoOrder)
      BY DEF NoOrder, InTurnOf, InvoicedOf, BarcodesOf
    <2>2. StockOf(o)' = {} /\ \A k \in StockKeys : k[1] # o => stock'[k] = stock[k]
      BY <1>7 DEF DeleteOrder, StockOf, NoStock
    <2> QED
      BY <1>7, <2>1, <2>2, OneOrder DEF DeleteOrder, Rows, TypeOK
  <1>8. ASSUME NEW o \in Orders, Barcode(o) PROVE Documents'
    <2>1. PICK new \in Order, printed \in SUBSET SerialLines(o) :
             /\ orders' = [orders EXCEPT ![o] = new]
             /\ new.early = orders[o].early
             /\ new.lines = orders[o].lines /\ new.quantity = orders[o].quantity
             /\ new.decision = orders[o].decision
             /\ new.finished = orders[o].finished /\ new.invoices = orders[o].invoices
             /\ \A i \in Items \ printed : new.barcoded[i] = orders[o].barcoded[i]
             /\ \/ /\ new.status = "OPEN"
                   /\ \E i \in printed : new.quantity[i] <= new.barcoded[i]
                \/ /\ new.status = orders[o].status
                   /\ \A i \in printed : ~(new.quantity[i] <= new.barcoded[i])
             /\ stock' = [k \in StockKeys |->
                   IF k[1] = o /\ k[2] \in printed /\ NextPiece(k)
                   THEN PlainStock(1, FALSE) ELSE stock[k]]
      BY <1>8, BarcodedOrder DEF Rows
    <2>2. orders[o].status = "BARCODE" /\ orders[o].decision \in {"NONE", "APPROVE_AND_FINISH"}
      BY <1>8 DEF Barcode, Barcodeable
    <2>3. InTurnOf(orders[o]) /\ InvoicedOf(orders[o]) /\ BarcodesOf(orders[o])
      BY DocumentsByOrder
    <2>4. InTurnOf(new) /\ InvoicedOf(new)
      BY <2>1, <2>2, <2>3 DEF InTurnOf, InvoicedOf
    <2>5. BarcodesOf(new)
      <3>1. new.lines \cap Serial \subseteq Items /\ printed \subseteq new.lines \cap Serial
        BY <2>1 DEF Order, SerialLines
      <3>2. \A i \in Items : new.quantity[i] \in Nat /\ new.barcoded[i] \in Nat
        BY QuantitiesAreNumbers DEF Order
      <3> QED
        BY <2>1, <2>2, <2>3, <3>1, <3>2 DEF BarcodesOf
    <2>6. \A k \in StockOf(o)' :
             stock'[k].billed = IF new.early THEN 0 ELSE stock'[k].received
      <3> SUFFICES ASSUME NEW k \in StockOf(o)'
                   PROVE  stock'[k].billed = IF new.early THEN 0 ELSE stock'[k].received
        OBVIOUS
      <3>1. CASE stock'[k] = PlainStock(1, FALSE)
        BY <3>1 DEF PlainStock
      <3>2. CASE stock'[k] = stock[k]
        <4>1. k \in StockOf(o) /\ new.early = orders[o].early
          BY <2>1, <3>2 DEF StockOf
        <4> QED
          BY <3>2, <4>1 DEF Documents, InvoicedOnce
      <3> QED
        BY <2>1, <3>1, <3>2 DEF StockOf
    <2>7. \A k \in StockKeys : k[1] # o => stock'[k] = stock[k]
      BY <2>1
    <2> QED
      BY <2>1, <2>4, <2>5, <2>6, <2>7, OneOrder DEF Rows, TypeOK
  <1>9. ASSUME NEW o \in Orders, Receive(o) PROVE Documents'
    <2>1. PICK receipted \in [Receiptable(o) -> Quantities] :
             stock' = [k \in StockKeys |->
                 IF k \in Receiptable(o) /\ receipted[k] > 0
                 THEN Receipted(stock[k], receipted[k], orders[o].early) ELSE stock[k]]
      BY <1>9 DEF Receive
    <2>2. Receiptable(o) \subseteq StockOf(o)
      BY DEF Receiptable
    <2>3. \A k \in StockKeys : k[1] # o => stock'[k] = stock[k]
      BY <2>1, <2>2 DEF StockOf
    <2>4. \A k \in StockOf(o)' :
             stock'[k].billed = IF orders[o].early THEN 0 ELSE stock'[k].received
      <3> SUFFICES ASSUME NEW k \in StockOf(o)'
                   PROVE  stock'[k].billed = IF orders[o].early THEN 0 ELSE stock'[k].received
        OBVIOUS
      <3>1. CASE k \in Receiptable(o) /\ receipted[k] > 0
        <4>1. /\ stock'[k].received = stock[k].received + receipted[k]
              /\ stock'[k].billed = IF orders[o].early THEN stock[k].billed
                                    ELSE stock[k].billed + receipted[k]
          BY <2>1, <3>1 DEF Receipted, StockOf, Rows, TypeOK, StockItem
        <4>2. stock[k].billed = IF orders[o].early THEN 0 ELSE stock[k].received
          BY <2>2, <3>1 DEF Documents, InvoicedOnce
        <4> QED
          BY <4>1, <4>2
      <3>2. CASE ~(k \in Receiptable(o) /\ receipted[k] > 0)
        <4>1. stock'[k] = stock[k]
          BY <2>1, <3>2 DEF StockOf
        <4> QED
          BY <4>1 DEF StockOf, Documents, InvoicedOnce
      <3> QED
        BY <3>1, <3>2
    <2>5. orders' = [orders EXCEPT ![o] = orders[o]]
      BY <1>9 DEF Receive, Rows, TypeOK
    <2>6. InTurnOf(orders[o]) /\ InvoicedOf(orders[o]) /\ BarcodesOf(orders[o])
      BY DocumentsByOrder
    <2> QED
      BY <2>3, <2>4, <2>5, <2>6, OneOrder DEF Rows, TypeOK
  <1>10. CASE UNCHANGED vars
    BY <1>1, <1>10 DEF vars
  <1> QED
    BY <1>2, <1>3, <1>4, <1>5, <1>6, <1>7, <1>8, <1>9, <1>10 DEF Next

LEMMA AlwaysDocuments == Spec => [](~StalePages => Documents)
  <1>1. Init => Documents
    BY DEF Init, NoOrder, NoStock, Documents, InTurn, InvoicedOnce, BarcodeStatus,
           SerialLines, Released, StockOf
  <1>2. Rows /\ (~StalePages => Documents) /\ [Next]_vars => (~StalePages => Documents)'
    BY NextDocuments
  <1> QED
    BY <1>1, <1>2, AlwaysRows, PTL DEF Spec

\* While pages are up to date an order that is invoiced before its receipts is
\* invoiced once, as soon as it is released, and the others by their receipts.
THEOREM GoodsInvoicedOnce == Spec => [](~StalePages => InvoicedOnce)
  <1>1. Documents => InvoicedOnce
    BY DEF Documents
  <1> QED
    BY <1>1, AlwaysDocuments, PTL

\* While pages are up to date an order waits for barcodes as long as none of
\* its lines is complete, and no longer.
THEOREM WaitsForBarcodes == Spec => [](~StalePages => BarcodeStatus)
  <1>1. Documents => BarcodeStatus
    BY DEF Documents
  <1> QED
    BY <1>1, AlwaysDocuments, PTL
=============================================================================
