-------------------------- MODULE Warehouse_proofs --------------------------
(***************************************************************************)
(* Proofs about Warehouse for every set of containers, every bound, both   *)
(* orders of consumption and with or without foreign keys: types, the      *)
(* stock book, the agreement of the records, the value of the layers and   *)
(* the order they are used in.                                             *)
(***************************************************************************)
EXTENDS Warehouse, Sums

LEMMA OrderedQuantities == Ordered \subseteq Quantities
  BY BoundAssumption DEF Quantities

LEMMA BoundFacts ==
    /\ LastDate \in Nat \ {0}
    /\ MaxQty \in Nat \ {0}
    /\ MaxLayers \in Nat
    /\ Prices \subseteq Nat
  BY BoundAssumption

LEMMA LastIsDate == LastDate \in Dates /\ \A d \in Dates : d \in Int /\ d <= LastDate
  BY BoundFacts DEF Dates

LEMMA InitType == Init => TypeOK
  BY BoundFacts DEF Init, TypeOK, Books, TransactionItem, Dates, LayerIds

\* A draw never takes more than a layer holds.
LEMMA DrawBounded ==
    ASSUME NEW q \in Nat, NEW S, S \subseteq Layer, NEW taken \in [S -> 0..q], Draws(taken, q)
    PROVE  \A l \in S : taken[l] \in 0..l.quantity
  <1> TAKE l \in S
  <1>1. l.quantity \in Nat /\ taken[l] \in 0..q
    BY BoundFacts DEF Layer
  <1>2. taken[l] = IF LeftAt(taken, q, l) <= 0 THEN 0
                   ELSE IF l.quantity >= LeftAt(taken, q, l) THEN LeftAt(taken, q, l)
                   ELSE l.quantity
    BY DEF Draws
  <1> QED BY <1>1, <1>2

\* LayersSound and the type of the layers, for any set and any next id ...
Good(L, next) ==
    /\ L \subseteq Layer
    /\ \A l \in L : l.id < next /\ l.quantity <= l.receipted
    /\ \A l, m \in L : l.id = m.id => l = m

\* ... and a set of new layers that takes the ids from "next" up to "after".
Fresh(L, next, after) ==
    /\ L \subseteq Layer
    /\ \A l \in L : next <= l.id /\ l.id < after /\ l.quantity <= l.receipted
    /\ \A l, m \in L : l.id = m.id => l = m

\* Drawing keeps the layers sound.
LEMMA DrawnGood ==
    ASSUME NEW q \in Nat, NEW S, S \subseteq layers, NEW taken \in [S -> 0..q],
           Draws(taken, q), Good(layers, nextLayer)
    PROVE  Good(Drawn(taken), nextLayer)
  <1>1. \A l \in S : taken[l] \in 0..l.quantity
    BY DrawBounded DEF Good
  <1>2. \A l \in layers : /\ Taken(taken, l) \in 0..l.quantity
                           /\ l.quantity \in 0..MaxQty /\ l.receipted \in Nat
    BY <1>1, BoundFacts DEF Good, Taken, Layer, Quantities
  <1>3. \A l \in layers : l.quantity - Taken(taken, l) \in 0..l.quantity
    BY <1>2, BoundFacts
  <1>4. \A l \in layers : [l EXCEPT !.quantity = @ - Taken(taken, l)] \in Layer
    BY <1>2, <1>3, BoundFacts DEF Good, Layer
  <1> QED
    BY <1>2, <1>3, <1>4, BoundFacts DEF Drawn, Good, Layer

\* New layers with fresh ids keep them sound.
LEMMA AddedGood ==
    ASSUME NEW old, NEW new, NEW next \in Nat, NEW after \in Nat, next <= after,
           Good(old, next), Fresh(new, next, after)
    PROVE  Good(old \cup new, after)
  <1>1. \A l \in old \cup new : l.id \in Int
    BY BoundFacts DEF Good, Fresh, Layer, LayerIds
  <1> QED BY <1>1, BoundFacts DEF Good, Fresh

\* The inductive invariant for the stock.
Sound == TypeOK /\ LayersSound

\* What is ordered has a price of the price list.
PurchasePrices ==
    \A p \in PurchaseItems : purchases[p].quantity > 0 => purchases[p].price \in Prices

LEMMA SoundIsGood == Sound => Good(layers, nextLayer) /\ nextLayer \in Nat
  BY BoundFacts DEF Sound, TypeOK, LayersSound, Good

LEMMA OneNewLayer ==
    ASSUME nextLayer \in LayerIds, NEW c \in Containers, NEW q \in Quantities,
           NEW d \in Dates, NEW price \in Prices
    PROVE  Fresh({NewLayer(nextLayer, c, d, price, q, 0)}, nextLayer, nextLayer + 1)
  BY BoundFacts DEF Fresh, NewLayer, Layer, Quantities, LayerIds

----------------------------------------------------------------------------
(* One lemma for each way a document changes the records. *)

LEMMA BookInType ==
    ASSUME NEW book \in Books, NEW c \in Containers, NEW q \in Quantities, NEW d \in Dates
    PROVE  BookIn(book, c, d, q) \in Books
  <1>1. book[c][d] \in [in : Int, out : Nat] /\ q \in Nat
    BY BoundFacts DEF Books, Quantities
  <1>2. [book[c][d] EXCEPT !.in = @ + q] \in [in : Int, out : Nat]
    BY <1>1
  <1>3. [book[c] EXCEPT ![d].in = @ + q] \in [Dates -> [in : Int, out : Nat]]
    BY <1>2 DEF Books
  <1> QED BY <1>3 DEF BookIn, Books

LEMMA BookOutType ==
    ASSUME NEW book \in Books, NEW c \in Containers, NEW q \in Quantities, NEW d \in Dates
    PROVE  BookOut(book, c, d, q) \in Books
  <1>1. book[c][d] \in [in : Int, out : Nat] /\ q \in Nat
    BY BoundFacts DEF Books, Quantities
  <1>2. [book[c][d] EXCEPT !.out = @ + q] \in [in : Int, out : Nat]
    BY <1>1
  <1>3. [book[c] EXCEPT ![d].out = @ + q] \in [Dates -> [in : Int, out : Nat]]
    BY <1>2 DEF Books
  <1> QED BY <1>3 DEF BookOut, Books

LEMMA PutInSound ==
    ASSUME Sound, NEW c \in Containers, NEW q \in Quantities, NEW d \in Dates,
           NEW price \in Prices, PutIn(c, q, d, price),
           purchases' \in [PurchaseItems -> TransactionItem]
    PROVE  Sound'
  <1> USE BoundFacts DEF Sound
  <1>1. nextLayer \in LayerIds /\ nextLayer + 1 \in Nat /\ nextLayer <= nextLayer + 1
    BY DEF PutIn, TypeOK, LayerIds
  <1>2. Good(layers', nextLayer')
    BY <1>1, SoundIsGood, OneNewLayer, AddedGood DEF PutIn
  <1>3. onHand' \in [Containers -> Nat]
    BY DEF PutIn, TypeOK, Quantities
  <1>4. nextLayer' \in 1..(MaxLayers + 1)
    BY <1>1 DEF PutIn, LayerIds
  <1>5. balance' \in Books
    BY BookInType DEF PutIn, TypeOK
  <1>6. DOMAIN ledger' = Containers
    BY DEF PutIn, TypeOK
  <1>7. TypeOK'
    BY <1>2, <1>3, <1>4, <1>5, <1>6 DEF PutIn, TypeOK, Good
  <1> QED BY <1>2, <1>7 DEF Good, LayersSound

LEMMA TakeOutSound ==
    ASSUME Sound, NEW c \in Containers, NEW q \in Quantities, NEW d \in Dates,
           TakeOut(c, q, d)
    PROVE  Sound'
  <1> USE BoundFacts DEF Sound
  <1>1. PICK taken \in [Open(c, d) -> 0..q] :
          /\ Draws(taken, q)
          /\ layers' = Drawn(taken)
          /\ ledger' = [ledger EXCEPT ![c] = @ - Cost(taken)]
    BY DEF TakeOut
  <1>2. q \in Nat /\ Open(c, d) \subseteq layers
    BY DEF Open, Quantities
  <1>3. Good(layers', nextLayer')
    BY <1>1, <1>2, SoundIsGood, DrawnGood DEF TakeOut
  <1>4. onHand' \in [Containers -> Nat]
    BY DEF TakeOut, TypeOK, Quantities
  <1>5. balance' \in Books
    BY BookOutType DEF TakeOut, TypeOK
  <1>6. DOMAIN ledger' = Containers
    BY <1>1 DEF TypeOK
  <1>7. TypeOK'
    BY <1>3, <1>4, <1>5, <1>6 DEF TakeOut, TypeOK, Good
  <1> QED BY <1>3, <1>7 DEF Good, LayersSound

\* The layers a transfer writes, one for each drawn piece.
Moved(taken, id, to, d) ==
    {NewLayer(id[l], to, d, l.price, taken[l], 0) : l \in {m \in DOMAIN taken : taken[m] > 0}}

TransferBy(from, to, q, d, taken, next, id) ==
    /\ taken \in [Open(from, d) -> 0..q]
    /\ next \in nextLayer..(MaxLayers + 1)
    /\ id \in Bijection({l \in DOMAIN taken : taken[l] > 0}, nextLayer..(next - 1))
    /\ Draws(taken, q)
    /\ layers' = Drawn(taken) \cup Moved(taken, id, to, d)
    /\ nextLayer' = next
    /\ ledger' = [[ledger EXCEPT ![from] = @ - Cost(taken)] EXCEPT ![to] = @ + Cost(taken)]

LEMMA TransferSteps ==
    ASSUME NEW from, NEW to, NEW q, NEW d, AddTransferOrder(from, to, q, d)
    PROVE  \E taken, next, id : TransferBy(from, to, q, d, taken, next, id)
  <1>1. PICK taken \in [Open(from, d) -> 0..q], next \in nextLayer..(MaxLayers + 1) :
        \E id \in Bijection({l \in DOMAIN taken : taken[l] > 0}, nextLayer..(next - 1)) :
          TransferBy(from, to, q, d, taken, next, id)
    BY DEF AddTransferOrder, TransferBy, Moved
  <1> QED BY <1>1

LEMMA MovedFresh ==
    ASSUME Sound, NEW from \in Containers, NEW to \in Containers, NEW q \in Quantities,
           NEW d \in Dates, NEW taken, NEW next, NEW id,
           TransferBy(from, to, q, d, taken, next, id)
    PROVE  /\ Good(Drawn(taken), nextLayer)
           /\ Fresh(Moved(taken, id, to, d), nextLayer, next)
           /\ next \in Nat /\ nextLayer \in Nat /\ nextLayer <= next /\ next <= MaxLayers + 1
           /\ 1 <= nextLayer
           /\ \A l, m \in Open(from, d) :
                 taken[l] > 0 /\ taken[m] > 0 /\ id[l] = id[m] => l = m
           /\ \A l \in Open(from, d) : taken[l] > 0 => id[l] >= nextLayer
  <1> USE BoundFacts DEF Sound
  <1> DEFINE P == {l \in DOMAIN taken : taken[l] > 0}
  <1>1. /\ q \in Nat /\ q <= MaxQty /\ Open(from, d) \subseteq layers /\ layers \subseteq Layer
        /\ taken \in [Open(from, d) -> 0..q]
    BY DEF Open, TypeOK, Quantities, TransferBy
  <1>2. Good(Drawn(taken), nextLayer)
    BY <1>1, SoundIsGood, DrawnGood DEF TransferBy
  <1>3. /\ next \in Nat /\ nextLayer \in Nat /\ 1 <= nextLayer
        /\ nextLayer <= next /\ next <= MaxLayers + 1
    BY SoundIsGood DEF TypeOK, TransferBy
  <1>4. /\ id \in [P -> nextLayer..(next - 1)]
        /\ \A l, m \in P : id[l] = id[m] => l = m
    BY DEF Bijection, Injection, IsInjective, TransferBy
  <1>5. \A l \in P :
          l.price \in Prices /\ taken[l] \in Quantities /\ id[l] \in LayerIds
    BY <1>1, <1>3, <1>4 DEF Layer, Quantities, LayerIds
  <1>6. Moved(taken, id, to, d) \subseteq Layer
    BY <1>5 DEF NewLayer, Layer, Quantities, Moved
  <1>7. Fresh(Moved(taken, id, to, d), nextLayer, next)
    BY <1>3, <1>4, <1>5, <1>6 DEF Fresh, NewLayer, Quantities, Moved
  <1>8. /\ \A l, m \in Open(from, d) :
             taken[l] > 0 /\ taken[m] > 0 /\ id[l] = id[m] => l = m
        /\ \A l \in Open(from, d) : taken[l] > 0 => id[l] >= nextLayer
    BY <1>1, <1>3, <1>4
  <1> QED BY <1>2, <1>3, <1>7, <1>8

LEMMA TransferSound ==
    ASSUME Sound, NEW from \in Containers, NEW to \in Containers,
           NEW q \in Quantities, NEW d \in Dates, AddTransferOrder(from, to, q, d)
    PROVE  Sound'
  <1> USE BoundFacts DEF Sound
  <1>1. PICK taken, next, id : TransferBy(from, to, q, d, taken, next, id)
    BY TransferSteps
  <1>2. /\ Good(Drawn(taken), nextLayer) /\ Fresh(Moved(taken, id, to, d), nextLayer, next)
        /\ next \in Nat /\ nextLayer \in Nat /\ nextLayer <= next /\ next <= MaxLayers + 1
        /\ 1 <= nextLayer
    BY <1>1, MovedFresh
  <1>3. q \in Nat
    BY DEF Quantities
  <1>7. Good(layers', nextLayer')
    BY <1>1, <1>2, AddedGood DEF TransferBy
  <1>8. onHand' \in [Containers -> Nat] /\ onTransfer' \in [Containers -> Nat]
    <2>1. onHand' = [[onHand EXCEPT ![from] = @ - q] EXCEPT ![to] = @ + q] /\ q \in Nat
      BY <1>3 DEF AddTransferOrder
    <2>2. [onHand EXCEPT ![from] = @ - q] \in [Containers -> Nat]
      BY <1>3 DEF AddTransferOrder, TypeOK
    <2>3. onTransfer' \in [Containers -> Nat]
      BY <1>3 DEF AddTransferOrder, TypeOK, AtLeastZero
    <2> QED BY <2>1, <2>2, <2>3
  <1>9. balance' \in Books
    BY BookOutType, BookInType DEF AddTransferOrder, TypeOK
  <1>10. DOMAIN ledger' = Containers
    BY <1>1 DEF TypeOK, TransferBy
  <1>11. nextLayer' \in 1..(MaxLayers + 1)
    BY <1>1, <1>2 DEF TransferBy
  <1>12. manuals' = manuals /\ purchases' = purchases
    BY DEF AddTransferOrder
  <1>13. TypeOK'
    BY <1>7, <1>8, <1>9, <1>10, <1>11, <1>12 DEF TypeOK, Good
  <1> QED BY <1>7, <1>13 DEF Good, LayersSound

\* The layers a manual receipt writes, one for each container of "lines".
Rows(id, d, lines, price) ==
    {NewLayer(id[c], c, d, price, lines[c], nextLayer) : c \in DOMAIN lines}

ReceiptBy(d, lines, price, next, id) ==
    /\ next \in nextLayer..(MaxLayers + 1)
    /\ id \in Bijection(DOMAIN lines, nextLayer..(next - 1))
    /\ nextLayer \in LayerIds
    /\ manuals' = manuals \cup {nextLayer}
    /\ nextLayer' = next
    /\ layers' = layers \cup Rows(id, d, lines, price)

LEMMA ReceiptSteps ==
    ASSUME NEW d, NEW lines, NEW price, AddGoodsReceiptManual(d, lines, price)
    PROVE  \E next, id : ReceiptBy(d, lines, price, next, id)
  BY DEF AddGoodsReceiptManual, ReceiptBy, Rows

LEMMA RowsFresh ==
    ASSUME Sound, NEW cs \in SUBSET Containers, NEW d \in Dates, NEW price \in Prices,
           NEW lines \in [cs -> Quantities], NEW next, NEW id,
           ReceiptBy(d, lines, price, next, id)
    PROVE  /\ Fresh(Rows(id, d, lines, price), nextLayer, next)
           /\ next \in Nat /\ nextLayer \in Nat /\ 1 <= nextLayer
           /\ nextLayer <= next /\ next <= MaxLayers + 1
           /\ \A c \in cs : id[c] >= nextLayer
  <1> USE BoundFacts DEF Sound
  <1>1. /\ next \in Nat /\ nextLayer \in Nat /\ 1 <= nextLayer
        /\ nextLayer <= next /\ next <= MaxLayers + 1
    BY SoundIsGood DEF TypeOK, ReceiptBy
  <1>2. /\ id \in [cs -> nextLayer..(next - 1)]
        /\ \A c, e \in cs : id[c] = id[e] => c = e
    BY DEF Bijection, Injection, IsInjective, ReceiptBy
  <1>3. \A c \in cs : /\ c \in Containers /\ id[c] \in LayerIds
                       /\ lines[c] \in Quantities /\ nextLayer \in 0..MaxLayers
    BY <1>1, <1>2 DEF LayerIds, ReceiptBy
  <1>4. Rows(id, d, lines, price) \subseteq Layer
    BY <1>3 DEF NewLayer, Layer, Quantities, Rows
  <1>5. Fresh(Rows(id, d, lines, price), nextLayer, next)
    BY <1>1, <1>2, <1>3, <1>4 DEF Fresh, NewLayer, Quantities, Rows
  <1> QED BY <1>1, <1>2, <1>5

LEMMA ManualReceiptSound ==
    ASSUME Sound, NEW cs \in SUBSET Containers, NEW d \in Dates, NEW price \in Prices,
           NEW lines \in [cs -> Quantities], AddGoodsReceiptManual(d, lines, price)
    PROVE  Sound'
  <1> USE BoundFacts DEF Sound
  <1>1. PICK next, id : ReceiptBy(d, lines, price, next, id)
    BY ReceiptSteps
  <1>2. /\ Fresh(Rows(id, d, lines, price), nextLayer, next)
        /\ next \in Nat /\ nextLayer \in Nat /\ 1 <= nextLayer
        /\ nextLayer <= next /\ next <= MaxLayers + 1
    BY <1>1, RowsFresh
  <1>4. Good(layers', nextLayer')
    BY <1>1, <1>2, SoundIsGood, AddedGood DEF ReceiptBy
  <1>5. onHand' \in [Containers -> Nat]
    BY DEF AddGoodsReceiptManual, TypeOK, Quantities
  <1>6. balance' \in Books
    <2>1. \A c \in Containers, e \in Dates : balance[c][e] \in [in : Int, out : Nat]
      BY DEF TypeOK, Books
    <2>2. \A c \in cs, e \in Dates :
            [balance[c][e] EXCEPT !.in = @ + lines[c]] \in [in : Int, out : Nat]
      BY <2>1 DEF Quantities
    <2> QED BY <2>1, <2>2 DEF AddGoodsReceiptManual, Books
  <1>7. DOMAIN ledger' = Containers
    BY DEF AddGoodsReceiptManual
  <1>8. nextLayer' \in 1..(MaxLayers + 1) /\ manuals' \subseteq LayerIds
    <2>1. nextLayer' = next /\ manuals' = manuals \cup {nextLayer} /\ nextLayer \in LayerIds
      BY <1>1 DEF ReceiptBy
    <2>2. nextLayer' \in 1..(MaxLayers + 1)
      BY <2>1, <1>2
    <2> QED BY <2>1, <2>2 DEF TypeOK
  <1>9. onTransfer' = onTransfer /\ purchases' = purchases
    BY DEF AddGoodsReceiptManual
  <1>10. TypeOK'
    BY <1>4, <1>5, <1>6, <1>7, <1>8, <1>9 DEF TypeOK, Good
  <1> QED BY <1>4, <1>10 DEF Good, LayersSound

LEMMA DeleteSound ==
    ASSUME Sound, NEW m, DeleteGoodsReceiptManual(m)
    PROVE  Sound'
  <1> USE BoundFacts DEF Sound
  <1>1. layers' = layers \ Reversed(m) /\ nextLayer' = nextLayer
    BY DEF DeleteGoodsReceiptManual
  <1>2. Good(layers', nextLayer')
    BY <1>1, SoundIsGood DEF Good
  <1>3. Reversed(m) \subseteq Layer
    BY DEF Reversed, ReceiptOf, TypeOK
  <1>4. ASSUME NEW gone, gone \subseteq Layer, NEW c PROVE TakenBack(gone, c) \in Nat
    BY <1>4 DEF TakenBack, Layer, Quantities
  <1>5. onHand' \in [Containers -> Nat]
    <2>1. onHand' = [c \in Containers |-> onHand[c] - TakenBack(Reversed(m), c)]
      BY DEF DeleteGoodsReceiptManual
    <2>2. \A c \in Containers : TakenBack(Reversed(m), c) \in Nat
      BY <1>3, <1>4
    <2>3. \A c \in Containers : onHand[c] \in Nat /\ TakenBack(Reversed(m), c) <= onHand[c]
      BY DEF DeleteGoodsReceiptManual, TypeOK
    <2> QED BY <2>1, <2>2, <2>3
  <1>6. balance' \in Books
    <2>1. \A c \in Containers, d \in Dates :
            balance[c][d] \in [in : Int, out : Nat] /\ TakenBackOn(Reversed(m), c, d) \in Nat
      BY <1>3, <1>4 DEF TypeOK, Books, TakenBackOn
    <2>2. \A c \in Containers, d \in Dates :
            [balance[c][d] EXCEPT !.in = @ - TakenBackOn(Reversed(m), c, d)]
              \in [in : Int, out : Nat]
      BY <2>1
    <2> QED BY <2>2 DEF DeleteGoodsReceiptManual, Books
  <1>7. /\ DOMAIN ledger' = Containers /\ manuals' \subseteq manuals
        /\ onTransfer' = onTransfer /\ purchases' = purchases
    BY DEF DeleteGoodsReceiptManual
  <1>8. TypeOK'
    BY <1>1, <1>2, <1>5, <1>6, <1>7 DEF TypeOK, Good
  <1> QED BY <1>2, <1>8 DEF Good, LayersSound

\* The counters of a transaction item stay typed and in balance.
LEMMA ReceiptedType ==
    ASSUME NEW item \in TransactionItem, NEW q \in Quantities
    PROVE  Receipted(item, q) \in TransactionItem
  <1>1. q \in Nat
    BY BoundFacts DEF Quantities
  <1>2. /\ item.receipted + q \in Nat /\ item.unreceipted - q \in Int
        /\ (item.locked \/ item.receipted + q = item.quantity) \in BOOLEAN
    BY <1>1 DEF TransactionItem
  <1> QED BY <1>2 DEF Receipted, TransactionItem

LEMMA GoodsReceiptSound ==
    ASSUME Sound, NEW p \in PurchaseItems, NEW c \in Containers, NEW q \in Quantities,
           NEW d \in Dates, AddGoodsReceipt(p, c, q, d), PurchasePrices
    PROVE  Sound'
  <1>1. purchases' \in [PurchaseItems -> TransactionItem]
    BY ReceiptedType DEF AddGoodsReceipt, Sound, TypeOK
  <1>2. purchases[p].price \in Prices
    BY BoundFacts DEF AddGoodsReceipt, PurchasePrices, Quantities, Sound, TypeOK, TransactionItem
  <1> QED BY <1>1, <1>2, PutInSound DEF AddGoodsReceipt
LEMMA PurchaseItemSound ==
    ASSUME Sound, NEW p \in PurchaseItems, NEW q \in Quantities, NEW d \in Dates,
           NEW price \in Prices, AddPurchaseItem(p, q, d, price)
    PROVE  Sound'
  <1>1. purchases' \in [PurchaseItems -> TransactionItem]
    BY BoundFacts DEF AddPurchaseItem, Sound, TypeOK, TransactionItem, Quantities
  <1> QED BY <1>1 DEF AddPurchaseItem, Sound, TypeOK, LayersSound

----------------------------------------------------------------------------
(* The invariant is inductive. *)

Inv == Sound /\ DocCounters /\ PurchasePrices

LEMMA PurchasesStep ==
    ASSUME Inv, [Next]_vars
    PROVE  DocCounters' /\ PurchasePrices'
  <1> USE DEF Inv, Sound, DocCounters, PurchasePrices
  <1>1. ASSUME purchases' = purchases PROVE DocCounters' /\ PurchasePrices'
    BY <1>1
  <1>2. ASSUME NEW p \in PurchaseItems, NEW q \in Quantities, NEW d \in Dates,
               NEW price \in Prices, AddPurchaseItem(p, q, d, price)
        PROVE  DocCounters' /\ PurchasePrices'
    BY <1>2, BoundFacts DEF AddPurchaseItem, TypeOK, TransactionItem, Quantities
  <1>3. ASSUME NEW p \in PurchaseItems, NEW c \in Containers, NEW q \in Quantities,
               NEW d \in Dates, AddGoodsReceipt(p, c, q, d)
        PROVE  DocCounters' /\ PurchasePrices'
    <2> DEFINE i == purchases[p]
    <2>1. /\ i \in TransactionItem /\ q \in Nat
          /\ purchases' = [purchases EXCEPT ![p] = Receipted(i, q)]
      BY <1>3, BoundFacts DEF AddGoodsReceipt, TypeOK, Quantities
    <2>2. /\ Receipted(i, q).receipted = i.receipted + q
          /\ Receipted(i, q).unreceipted = i.unreceipted - q
          /\ Receipted(i, q).locked = (i.locked \/ i.receipted + q = i.quantity)
          /\ Receipted(i, q).quantity = i.quantity
          /\ Receipted(i, q).price = i.price
      BY <2>1 DEF Receipted, TransactionItem
    <2>3. /\ Receipted(i, q).receipted + Receipted(i, q).unreceipted = i.quantity
          /\ Receipted(i, q).locked => Receipted(i, q).unreceipted <= 0
      BY <2>1, <2>2 DEF TransactionItem
    <2> QED BY <2>1, <2>2, <2>3 DEF TypeOK
  <1>4. CASE UNCHANGED vars
    BY <1>1, <1>4 DEF vars
  <1>5. ASSUME NEW d, NEW lines, NEW price, AddGoodsReceiptManual(d, lines, price)
        PROVE  purchases' = purchases
    BY <1>5 DEF AddGoodsReceiptManual
  <1>6. ASSUME NEW c, NEW q, NEW d, TakeOut(c, q, d) PROVE purchases' = purchases
    BY <1>6 DEF TakeOut
  <1> QED
    BY <1>1, <1>2, <1>3, <1>4, <1>5, <1>6, OrderedQuantities
    DEF Next, ManualReceipt, DeleteGoodsReceiptManual, AddGoodsIssue,
        AddTransferOrder, AdjustIn, AdjustOut

LEMMA SoundStep ==
    ASSUME Inv, [Next]_vars
    PROVE  Sound'
  <1> USE DEF Inv
  <1>1. CASE UNCHANGED vars
    BY <1>1 DEF vars, Sound, TypeOK, LayersSound
  <1>2. ASSUME NEW p \in PurchaseItems, NEW q \in Quantities, NEW d \in Dates,
               NEW price \in Prices, AddPurchaseItem(p, q, d, price)
        PROVE  Sound'
    BY <1>2, PurchaseItemSound
  <1>3. ASSUME NEW p \in PurchaseItems, NEW c \in Containers, NEW q \in Quantities,
               NEW d \in Dates, AddGoodsReceipt(p, c, q, d)
        PROVE  Sound'
    BY <1>3, GoodsReceiptSound
  <1>4. CASE ManualReceipt
    BY <1>4, ManualReceiptSound DEF ManualReceipt
  <1>5. ASSUME NEW m \in LayerIds, DeleteGoodsReceiptManual(m) PROVE Sound'
    BY <1>5, DeleteSound
  <1>6. ASSUME NEW c \in Containers, NEW q \in Quantities, NEW d \in Dates, TakeOut(c, q, d)
        PROVE  Sound'
    BY <1>6, TakeOutSound
  <1>7. ASSUME NEW from \in Containers, NEW to \in Containers, NEW q \in Quantities,
               NEW d \in Dates, AddTransferOrder(from, to, q, d)
        PROVE  Sound'
    BY <1>7, TransferSound
  <1>8. ASSUME NEW c \in Containers, NEW q \in Quantities, NEW d \in Dates,
               NEW price \in Prices, AdjustIn(c, q, d, price)
        PROVE  Sound'
    BY <1>8, PutInSound DEF AdjustIn, Sound, TypeOK
  <1> QED
    BY <1>1, <1>2, <1>3, <1>4, <1>5, <1>6, <1>7, <1>8, OrderedQuantities
    DEF Next, AddGoodsIssue, AdjustOut

LEMMA InitInv == Init => Inv
  <1> SUFFICES ASSUME Init PROVE Inv
    OBVIOUS
  <1>1. TypeOK
    BY InitType
  <1>2. LayersSound
    BY DEF Init, LayersSound
  <1>3. DocCounters /\ PurchasePrices
    BY DEF Init, DocCounters, PurchasePrices
  <1> QED BY <1>1, <1>2, <1>3 DEF Inv, Sound

LEMMA InvInductive == Spec => []Inv
  <1>1. Inv /\ [Next]_vars => Inv'
    BY PurchasesStep, SoundStep DEF Inv
  <1> QED BY InitInv, <1>1, PTL DEF Spec

\* No quantity of the stock records ever leaves its range: nothing is on hand
\* below zero and no layer is drawn below zero, whatever documents come.
THEOREM TypeCorrect == Spec => []TypeOK
  <1>1. Inv => TypeOK
    BY DEF Inv, Sound
  <1> QED BY InvInductive, <1>1, PTL

\* A ProductInOutTransaction id names one layer, and no layer ever holds more
\* than it received.
THEOREM LayersAreSound == Spec => []LayersSound
  <1>1. Inv => LayersSound
    BY DEF Inv, Sound
  <1> QED BY InvInductive, <1>1, PTL

\* However many stale forms are posted, received plus outstanding is what was
\* ordered, and a locked item has nothing outstanding.
THEOREM DocCountersHold == Spec => []DocCounters
  <1>1. Inv => DocCounters
    BY DEF Inv
  <1> QED BY InvInductive, <1>1, PTL
----------------------------------------------------------------------------
(* The four records implement the stock book. *)

LEMMA TransferMoves ==
    ASSUME Inv, NEW from \in Containers, NEW to \in Containers, NEW q \in Quantities,
           NEW d \in Dates, AddTransferOrder(from, to, q, d)
    PROVE  Book!Next \/ onHand' = onHand
  <1>1. /\ q \in 1..onHand[from] /\ q \in Nat
        /\ onHand' = [[onHand EXCEPT ![from] = @ - q] EXCEPT ![to] = @ + q]
        /\ onHand \in [Containers -> Nat]
    BY BoundFacts DEF AddTransferOrder, Inv, Sound, TypeOK, Quantities
  <1>2. CASE from = to
    BY <1>1, <1>2
  <1>3. CASE from # to
    <2>1. onHand' = [onHand EXCEPT ![from] = @ - q, ![to] = @ + q]
      BY <1>1, <1>3
    <2> QED BY <1>1, <1>3, <2>1 DEF Book!Next, Book!Move
  <1> QED BY <1>2, <1>3

LEMMA BookStep ==
    ASSUME Inv, TypeOK', [Next]_vars
    PROVE  [Book!Next]_onHand
  <1>1. onHand \in [Containers -> Nat] /\ onHand' \in [Containers -> Nat]
    BY DEF Inv, Sound, TypeOK
  <1>2. ASSUME NEW c \in Containers, NEW q \in Quantities, NEW d, NEW price,
               PutIn(c, q, d, price)
        PROVE  Book!Receive
    BY <1>1, <1>2, BoundFacts DEF PutIn, Book!Receive, Quantities
  <1>3. ASSUME NEW c \in Containers, NEW q \in Quantities, NEW d, TakeOut(c, q, d)
        PROVE  Book!Release
    BY <1>1, <1>3, BoundFacts DEF TakeOut, Book!Release, Quantities
  <1>4. CASE ManualReceipt
    <2>1. PICK cs \in SUBSET Containers : \E lines \in [cs -> Quantities] :
             onHand' = [c \in Containers |->
                IF c \in DOMAIN lines THEN onHand[c] + lines[c] ELSE onHand[c]]
      BY <1>4 DEF ManualReceipt, AddGoodsReceiptManual
    <2>2. PICK lines \in [cs -> Quantities] :
             onHand' = [c \in Containers |->
                IF c \in DOMAIN lines THEN onHand[c] + lines[c] ELSE onHand[c]]
      BY <2>1
    <2>3. \A c \in DOMAIN lines : lines[c] \in Nat
      BY BoundFacts DEF Quantities
    <2>4. \A c \in Containers : onHand'[c] >= onHand[c]
      BY <1>1, <2>2, <2>3
    <2> QED BY <1>1, <2>4 DEF Book!Receive, Book!Next
  <1>5. ASSUME NEW m \in LayerIds, DeleteGoodsReceiptManual(m) PROVE Book!Release
    <2>1. Reversed(m) \subseteq Layer
      BY DEF Reversed, ReceiptOf, Inv, Sound, TypeOK
    <2>2. \A c \in Containers : TakenBack(Reversed(m), c) \in Nat
      BY <2>1, BoundFacts DEF TakenBack, Layer, Quantities
    <2>3. onHand' = [c \in Containers |-> onHand[c] - TakenBack(Reversed(m), c)]
      BY <1>5 DEF DeleteGoodsReceiptManual
    <2> QED BY <1>1, <2>2, <2>3 DEF Book!Release
  <1>6. ASSUME NEW p \in PurchaseItems, NEW q, NEW d, NEW price, AddPurchaseItem(p, q, d, price)
        PROVE  onHand' = onHand
    BY <1>6 DEF AddPurchaseItem
  <1>7. CASE UNCHANGED vars
    BY <1>7 DEF vars
  <1> QED
    BY <1>2, <1>3, <1>4, <1>5, <1>6, <1>7, TransferMoves
    DEF Next, AddGoodsReceipt, AddGoodsIssue, AdjustIn, AdjustOut, Book!Next

\* Seen through InventoryItem.onHand, the services are a stock book: documents
\* only add, take what is there, or move without loss.
THEOREM ImplementsStockBook == Spec => BookSpec
  <1>1. Init => Book!Init
    BY DEF Init, Book!Init
  <1>2. Inv /\ Inv' /\ [Next]_vars => [Book!Next]_onHand
    BY BookStep DEF Inv, Sound
  <1> QED BY InvInductive, <1>1, <1>2, PTL DEF Spec, BookSpec, Book!Spec
----------------------------------------------------------------------------
(* What a set of layers holds.  "v" chooses what is counted: the quantity, *)
(* or its value at the price of each layer.                                *)

Weight(l, v) == IF v = "value" THEN l.price ELSE 1
Worth(v) == [l \in Layer |-> l.quantity * Weight(l, v)]
Kept(L, c, e) == {l \in L : l.container = c /\ l.date <= e}

\* What the layers of L in container c dated up to e hold.
Held(L, c, e, v) == SumFunctionOnSet(Worth(v), Kept(L, c, e))

LEMMA ProductNat == \A m, n \in Nat : m * n \in Nat
  OBVIOUS

LEMMA LayerFields ==
    ASSUME NEW l \in Layer
    PROVE  /\ l.id \in Nat /\ l.id >= 1 /\ l.container \in Containers /\ l.date \in Dates
           /\ l.price \in Prices /\ l.price \in Nat /\ l.quantity \in Nat
           /\ l.receipted \in Nat /\ l.receipted >= 1 /\ l.manual \in Nat
  <1>1. /\ l.id \in LayerIds /\ l.container \in Containers /\ l.date \in Dates
        /\ l.price \in Prices /\ l.quantity \in 0..MaxQty /\ l.receipted \in Quantities
        /\ l.manual \in 0..MaxLayers
    BY DEF Layer
  <1>2. l.id \in Nat /\ l.id >= 1 /\ l.quantity \in Nat
    BY <1>1, BoundFacts DEF LayerIds
  <1>3. l.receipted \in Nat /\ l.receipted >= 1 /\ l.manual \in Nat
    BY <1>1, BoundFacts DEF Quantities
  <1>4. l.price \in Nat
    BY <1>1, BoundFacts
  <1> QED BY <1>1, <1>2, <1>3, <1>4

LEMMA WorthNat ==
    ASSUME NEW v, NEW l \in Layer
    PROVE  /\ Weight(l, v) \in Nat
           /\ Worth(v)[l] = l.quantity * Weight(l, v)
           /\ Worth(v)[l] \in Nat
  <1>1. l.quantity \in Nat /\ Weight(l, v) \in Nat
    BY LayerFields DEF Weight
  <1>2. l.quantity * Weight(l, v) \in Nat
    BY <1>1, ProductNat
  <1> QED BY <1>1, <1>2 DEF Worth

\* Layers with different ids are finitely many.
LEMMA GoodFinite ==
    ASSUME NEW L, NEW n \in Nat, Good(L, n)
    PROVE  IsFiniteSet(L)
  <1> DEFINE f == [l \in L |-> l.id]
  <1>1. f \in Injection(L, 1..n)
    <2>1. \A l \in L : l.id \in 1..n
      BY LayerFields DEF Good
    <2> QED BY <2>1 DEF Good, Injection, IsInjective
  <1>2. IsFiniteSet(1..n)
    BY FS_Interval
  <1> HIDE DEF f
  <1> QED BY <1>1, <1>2, FS_Injection

LEMMA KeptFinite ==
    ASSUME NEW L, IsFiniteSet(L), L \subseteq Layer, NEW c, NEW e
    PROVE  IsFiniteSet(Kept(L, c, e)) /\ Kept(L, c, e) \subseteq Layer
  BY FS_Subset DEF Kept

LEMMA HeldNat ==
    ASSUME NEW L, IsFiniteSet(L), L \subseteq Layer, NEW c, NEW e, NEW v
    PROVE  Held(L, c, e, v) \in Int /\ Held(L, c, e, v) >= 0
  <1>1. IsFiniteSet(Kept(L, c, e)) /\ Kept(L, c, e) \subseteq Layer
    BY KeptFinite
  <1>2. \A l \in Kept(L, c, e) : Worth(v)[l] \in Nat
    BY <1>1, WorthNat
  <1> QED BY <1>1, <1>2, SumNat DEF Held

LEMMA HeldAdded ==
    ASSUME NEW L, IsFiniteSet(L), L \subseteq Layer,
           NEW N, IsFiniteSet(N), N \subseteq Layer, L \cap N = {}, NEW c, NEW e, NEW v
    PROVE  Held(L \cup N, c, e, v) = Held(L, c, e, v) + Held(N, c, e, v)
  <1> DEFINE K == Kept(L, c, e)
             M == Kept(N, c, e)
  <1>1. IsFiniteSet(K) /\ IsFiniteSet(M) /\ K \cup M \subseteq Layer
    BY KeptFinite
  <1>2. K \cap M = {} /\ Kept(L \cup N, c, e) = K \cup M
    BY DEF Kept
  <1>3. \A l \in K \cup M : Worth(v)[l] \in Int
    BY <1>1, WorthNat
  <1> HIDE DEF K, M
  <1>4. SumFunctionOnSet(Worth(v), K \cup M) =
          SumFunctionOnSet(Worth(v), K) + SumFunctionOnSet(Worth(v), M)
    BY ONLY <1>1, <1>2, <1>3, SumUnion
  <1> QED BY <1>2, <1>4 DEF Held, K, M

LEMMA HeldRemoved ==
    ASSUME NEW L, IsFiniteSet(L), L \subseteq Layer, NEW G, G \subseteq L, NEW c, NEW e, NEW v
    PROVE  Held(L \ G, c, e, v) = Held(L, c, e, v) - Held(G, c, e, v)
  <1>1. /\ IsFiniteSet(G) /\ IsFiniteSet(L \ G) /\ G \subseteq Layer /\ L \ G \subseteq Layer
        /\ (L \ G) \cap G = {} /\ (L \ G) \cup G = L
    BY FS_Subset
  <1>2. Held((L \ G) \cup G, c, e, v) = Held(L \ G, c, e, v) + Held(G, c, e, v)
    BY ONLY <1>1, HeldAdded
  <1>3. Held(L \ G, c, e, v) \in Int /\ Held(G, c, e, v) \in Int
    BY <1>1, HeldNat
  <1>4. Held((L \ G) \cup G, c, e, v) = Held(L, c, e, v)
    BY <1>1
  <1> QED BY <1>2, <1>3, <1>4

LEMMA HeldNone ==
    ASSUME NEW L, NEW c, NEW e, NEW v, Kept(L, c, e) = {}
    PROVE  Held(L, c, e, v) = 0
  BY SumEmpty DEF Held

LEMMA HeldOne ==
    ASSUME NEW L, NEW c, NEW e, NEW v, NEW l \in Layer, Kept(L, c, e) = {l}
    PROVE  Held(L, c, e, v) = l.quantity * Weight(l, v)
  <1>1. Worth(v)[l] \in Int /\ Worth(v)[l] = l.quantity * Weight(l, v)
    BY WorthNat
  <1>2. IsFiniteSet({l}) /\ {l} \ {l} = {}
    BY FS_Singleton
  <1>3. SumFunctionOnSet(Worth(v), {l}) = Worth(v)[l] + SumFunctionOnSet(Worth(v), {l} \ {l})
    BY <1>1, <1>2, SumRemove
  <1>4. SumFunctionOnSet(Worth(v), {l} \ {l}) = 0
    BY <1>2, SumEmpty
  <1>5. Held(L, c, e, v) = SumFunctionOnSet(Worth(v), {l})
    BY DEF Held
  <1> QED BY <1>1, <1>3, <1>4, <1>5

----------------------------------------------------------------------------
(* What a draw takes from a set of layers. *)

Lost(taken, v) == [l \in Layer |-> Taken(taken, l) * Weight(l, v)]
Spent(taken, v) == SumFunctionOnSet(Lost(taken, v), DOMAIN taken)

LEMMA Distributes == \A a, t, w \in Int : a * w = (a - t) * w + t * w
  OBVIOUS

LEMMA Zero == \A w \in Int : 0 * w = 0
  OBVIOUS

LEMMA LostNat ==
    ASSUME NEW q \in Nat, NEW S, S \subseteq Layer, NEW taken \in [S -> 0..q],
           NEW v, NEW l \in Layer
    PROVE  /\ Taken(taken, l) \in Nat
           /\ Lost(taken, v)[l] = Taken(taken, l) * Weight(l, v)
           /\ Lost(taken, v)[l] \in Nat
           /\ l \notin S => Lost(taken, v)[l] = 0
  <1>1. Taken(taken, l) \in Nat /\ Weight(l, v) \in Nat
    BY WorthNat DEF Taken
  <1>2. Lost(taken, v)[l] = Taken(taken, l) * Weight(l, v)
    BY DEF Lost
  <1>3. l \notin S => Taken(taken, l) = 0
    BY DEF Taken
  <1>4. Taken(taken, l) * Weight(l, v) \in Nat
    BY <1>1, ProductNat
  <1> QED BY <1>1, <1>2, <1>3, <1>4, Zero

LEMMA SpentQuantity ==
    ASSUME NEW q \in Nat, NEW S, S \subseteq Layer, IsFiniteSet(S),
           NEW taken \in [S -> 0..q], Draws(taken, q)
    PROVE  Spent(taken, "units") = q
  <1>1. \A l \in S : Lost(taken, "units")[l] = taken[l]
    BY DEF Lost, Taken, Weight
  <1>2. SumFunctionOnSet(Lost(taken, "units"), S) = SumFunctionOnSet(taken, S)
    BY ONLY <1>1, IsFiniteSet(S), SumEqual
  <1>3. SumFunction(taken) = SumFunctionOnSet(taken, S) /\ SumFunction(taken) = q
    BY DEF SumFunction, Draws
  <1> QED BY <1>2, <1>3 DEF Spent

LEMMA SpentCost ==
    ASSUME NEW q \in Nat, NEW S, S \subseteq Layer, IsFiniteSet(S), NEW taken \in [S -> 0..q]
    PROVE  Spent(taken, "value") = Cost(taken)
  <1> DEFINE f == [l \in S |-> taken[l] * l.price]
  <1>1. \A l \in S : Lost(taken, "value")[l] = f[l]
    BY DEF Lost, Taken, Weight
  <1>2. Cost(taken) = SumFunctionOnSet(f, S)
    BY DEF Cost, SumFunction
  <1> HIDE DEF f
  <1>3. SumFunctionOnSet(Lost(taken, "value"), S) = SumFunctionOnSet(f, S)
    BY ONLY <1>1, IsFiniteSet(S), SumEqual
  <1> QED BY <1>2, <1>3 DEF Spent

\* After a draw a set of layers holds what it held without what it lost.
LEMMA DrawnLoses ==
    ASSUME Good(layers, nextLayer), nextLayer \in Nat, NEW q \in Nat,
           NEW S, S \subseteq layers, NEW taken \in [S -> 0..q], Draws(taken, q),
           NEW c, NEW e, NEW v
    PROVE  Held(layers, c, e, v) =
             Held(Drawn(taken), c, e, v) + SumFunctionOnSet(Lost(taken, v), Kept(layers, c, e))
  <1> DEFINE K == Kept(layers, c, e)
             b == [l \in layers |-> [l EXCEPT !.quantity = @ - Taken(taken, l)]]
             f == [l \in Layer |-> (l.quantity - Taken(taken, l)) * Weight(l, v)]
  <1>1. layers \subseteq Layer /\ IsFiniteSet(layers) /\ S \subseteq Layer
    BY GoodFinite DEF Good
  <1>2. IsFiniteSet(K) /\ K \subseteq Layer /\ K \subseteq layers
    <2>1. K \subseteq layers
      BY DEF Kept
    <2> QED BY <1>1, <2>1, FS_Subset
  <1>3. \A l \in layers : /\ b[l] \in Layer /\ b[l].id = l.id
                           /\ b[l].container = l.container /\ b[l].date = l.date
                           /\ b[l].price = l.price
                           /\ b[l].quantity = l.quantity - Taken(taken, l)
    <2>1. Good(Drawn(taken), nextLayer)
      BY DrawnGood
    <2> QED BY <1>1, <2>1 DEF Good, Drawn, Layer
  <1>4. Drawn(taken) = {b[l] : l \in layers}
    BY DEF Drawn
  <1> HIDE DEF b
  <1>5. Kept(Drawn(taken), c, e) = {b[l] : l \in K}
    BY <1>3, <1>4 DEF Kept
  <1>6. \A l, m \in K : b[l] = b[m] => l = m
    <2>1. \A l, m \in layers : l.id = m.id => l = m
      BY DEF Good
    <2> QED BY <1>2, <1>3, <2>1
  <1>7. \A l \in K : f[l] \in Int /\ Worth(v)[b[l]] = f[l]
    <2> TAKE l \in K
    <2>1. b[l] \in Layer /\ b[l].price = l.price /\ b[l].quantity = l.quantity - Taken(taken, l)
      BY <1>2, <1>3
    <2>2. Worth(v)[b[l]] = b[l].quantity * Weight(b[l], v) /\ Worth(v)[b[l]] \in Nat
      BY <2>1, WorthNat
    <2>3. Weight(b[l], v) = Weight(l, v)
      BY <2>1 DEF Weight
    <2>4. f[l] = (l.quantity - Taken(taken, l)) * Weight(l, v)
      BY <1>2
    <2> QED BY <2>1, <2>2, <2>3, <2>4
  <1>8. \A l \in K : /\ f[l] \in Int /\ Lost(taken, v)[l] \in Int
                      /\ Worth(v)[l] = f[l] + Lost(taken, v)[l]
    <2> TAKE l \in K
    <2>1. l \in Layer
      BY <1>2
    <2>2. /\ Taken(taken, l) \in Nat /\ Lost(taken, v)[l] \in Nat
          /\ Lost(taken, v)[l] = Taken(taken, l) * Weight(l, v)
      BY <1>1, <2>1, LostNat
    <2>3. Weight(l, v) \in Nat /\ Worth(v)[l] = l.quantity * Weight(l, v) /\ l.quantity \in Nat
      BY <2>1, WorthNat, LayerFields
    <2>4. f[l] = (l.quantity - Taken(taken, l)) * Weight(l, v)
      BY <2>1
    <2> HIDE DEF f
    <2>5. l.quantity * Weight(l, v) =
            (l.quantity - Taken(taken, l)) * Weight(l, v) + Taken(taken, l) * Weight(l, v)
      BY <2>2, <2>3, Distributes
    <2> QED BY <1>7, <2>2, <2>3, <2>4, <2>5
  <1> HIDE DEF K, f
  <1>9. SumFunctionOnSet(Worth(v), {b[l] : l \in K}) = SumFunctionOnSet(f, K)
    BY ONLY <1>2, <1>6, <1>7, SumImage
  <1>10. SumFunctionOnSet(Worth(v), K) =
           SumFunctionOnSet(f, K) + SumFunctionOnSet(Lost(taken, v), K)
    BY ONLY <1>2, <1>8, SumPlus
  <1> QED BY <1>5, <1>9, <1>10 DEF Held, K

\* ... so a draw for container c up to month d leaves the other containers
\* alone, and counts in every later month.
LEMMA DrawnHolds ==
    ASSUME Good(layers, nextLayer), nextLayer \in Nat, NEW q \in Nat,
           NEW c \in Containers, NEW d \in Dates,
           NEW taken \in [Open(c, d) -> 0..q], Draws(taken, q),
           NEW x \in Containers, NEW e \in Dates, NEW v
    PROVE  /\ Held(Drawn(taken), x, e, v) \in Int
           /\ Held(layers, x, e, v) \in Int
           /\ Spent(taken, v) \in Nat
           /\ Held(Drawn(taken), x, e, v) <= Held(layers, x, e, v)
           /\ x # c => Held(Drawn(taken), x, e, v) = Held(layers, x, e, v)
           /\ x = c /\ d <= e =>
                Held(Drawn(taken), x, e, v) = Held(layers, x, e, v) - Spent(taken, v)
  <1> DEFINE S == Open(c, d)
             K == Kept(layers, x, e)
             lost == SumFunctionOnSet(Lost(taken, v), K)
  <1>1. layers \subseteq Layer /\ IsFiniteSet(layers)
    BY GoodFinite DEF Good
  <1>2. S \subseteq layers /\ S \subseteq Layer /\ IsFiniteSet(S)
    <2>1. S \subseteq layers
      BY DEF Open
    <2> QED BY <1>1, <2>1, FS_Subset
  <1>3. IsFiniteSet(K) /\ K \subseteq Layer
    BY <1>1, KeptFinite
  <1>4. \A l \in Layer : Lost(taken, v)[l] \in Nat /\ (l \notin S => Lost(taken, v)[l] = 0)
    BY <1>2, LostNat
  <1>5. Held(layers, x, e, v) = Held(Drawn(taken), x, e, v) + lost
    BY <1>2, DrawnLoses
  <1>6. Held(Drawn(taken), x, e, v) \in Int
    <2>1. Good(Drawn(taken), nextLayer)
      BY <1>2, DrawnGood
    <2>2. IsFiniteSet(Drawn(taken)) /\ Drawn(taken) \subseteq Layer
      BY <2>1, GoodFinite DEF Good
    <2> QED BY <2>2, HeldNat
  <1>7. lost \in Nat
    BY <1>3, <1>4, SumNat
  <1>8. Spent(taken, v) \in Nat
    BY <1>2, <1>4, SumNat DEF Spent
  <1>9. x # c => lost = 0
    <2> SUFFICES ASSUME x # c PROVE lost = 0
      OBVIOUS
    <2>1. \A l \in K : l \notin S
      BY DEF Kept, Open
    <2>2. \A l \in K : Lost(taken, v)[l] = 0
      BY <1>3, <1>4, <2>1
    <2> HIDE DEF K, S
    <2> QED BY <1>3, <2>2, SumZeros
  <1>10. x = c /\ d <= e => lost = Spent(taken, v)
    <2> SUFFICES ASSUME x = c, d <= e PROVE lost = Spent(taken, v)
      OBVIOUS
    <2>1. S \subseteq K
      <3>1. ASSUME NEW l \in S PROVE l \in K
        <4>1. l \in layers /\ l.container = x /\ l.date <= d
          BY DEF Open
        <4>2. l.date \in Dates
          BY <1>2, LayerFields
        <4>3. l.date \in Int /\ d \in Int /\ e \in Int
          BY <4>2, LastIsDate
        <4>4. l.date <= e
          BY <4>1, <4>3
        <4> QED BY <4>1, <4>4 DEF Kept
      <3> QED BY <3>1
    <2>2. /\ \A l \in S : Lost(taken, v)[l] \in Int
          /\ \A l \in K \ S : Lost(taken, v)[l] = 0
      BY <1>2, <1>3, <1>4
    <2>3. DOMAIN taken = S
      OBVIOUS
    <2> HIDE DEF K, S
    <2>4. SumFunctionOnSet(Lost(taken, v), K) = SumFunctionOnSet(Lost(taken, v), S)
      BY ONLY <1>3, <2>1, <2>2, SumPart
    <2> QED BY <2>3, <2>4 DEF Spent
  <1> HIDE DEF lost
  <1> QED BY <1>5, <1>6, <1>7, <1>8, <1>9, <1>10

\* The layers of a transfer hold what was drawn, in the container it went to,
\* from month d on.
LEMMA MovedHolds ==
    ASSUME NEW S, S \subseteq Layer, IsFiniteSet(S), NEW q \in Nat, NEW taken \in [S -> 0..q],
           NEW to \in Containers, NEW d \in Dates, NEW id,
           \A l, m \in S : taken[l] > 0 /\ taken[m] > 0 /\ id[l] = id[m] => l = m,
           Moved(taken, id, to, d) \subseteq Layer,
           NEW x \in Containers, NEW e \in Dates, NEW v
    PROVE  Held(Moved(taken, id, to, d), x, e, v) =
             IF x = to /\ d <= e THEN Spent(taken, v) ELSE 0
  <1> DEFINE P == {m \in S : taken[m] > 0}
             b == [l \in P |-> NewLayer(id[l], to, d, l.price, taken[l], 0)]
             M == Moved(taken, id, to, d)
  <1>1. M = {b[l] : l \in P}
    BY DEF Moved
  <1>2. \A l \in P : /\ b[l].id = id[l] /\ b[l].container = to /\ b[l].date = d
                      /\ b[l].price = l.price /\ b[l].quantity = taken[l]
    BY DEF NewLayer
  <1>3. P \subseteq S /\ IsFiniteSet(P) /\ P \subseteq Layer
    <2>1. P \subseteq S
      OBVIOUS
    <2> QED BY <2>1, FS_Subset
  <1>4. \A l \in P : b[l] \in Layer
    BY <1>1
  <1>5. \A l, m \in P : b[l] = b[m] => l = m
    BY <1>2
  <1> HIDE DEF b, M
  <1>6. CASE ~(x = to /\ d <= e)
    <2>1. Kept(M, x, e) = {}
      BY <1>1, <1>2, <1>6 DEF Kept
    <2> QED BY <1>6, <2>1, HeldNone DEF M
  <1>7. CASE x = to /\ d <= e
    <2>1. Kept(M, x, e) = {b[l] : l \in P}
      BY <1>1, <1>2, <1>7 DEF Kept
    <2>2. \A l \in P : Lost(taken, v)[l] \in Int /\ Worth(v)[b[l]] = Lost(taken, v)[l]
      <3> TAKE l \in P
      <3>1. /\ Worth(v)[b[l]] = b[l].quantity * Weight(b[l], v)
            /\ Weight(b[l], v) = Weight(l, v) /\ b[l].quantity = taken[l]
        BY <1>2, <1>4, WorthNat DEF Weight
      <3>2. /\ Lost(taken, v)[l] = Taken(taken, l) * Weight(l, v)
            /\ Lost(taken, v)[l] \in Nat /\ Taken(taken, l) = taken[l]
        BY <1>3, LostNat DEF Taken
      <3> QED BY <3>1, <3>2
    <2>3. SumFunctionOnSet(Worth(v), {b[l] : l \in P}) = SumFunctionOnSet(Lost(taken, v), P)
      <3> HIDE DEF P
      <3> QED BY ONLY <1>3, <1>5, <2>2, SumImage
    <2>4. \A l \in S \ P : Lost(taken, v)[l] = 0
      <3> TAKE l \in S \ P
      <3>1. taken[l] = 0 /\ l \in Layer /\ Weight(l, v) \in Nat
        BY WorthNat
      <3>2. Lost(taken, v)[l] = 0 * Weight(l, v)
        BY <3>1 DEF Lost, Taken
      <3> QED BY <3>1, <3>2, Zero
    <2>5. \A l \in P : Lost(taken, v)[l] \in Int
      BY <2>2
    <2>6. SumFunctionOnSet(Lost(taken, v), S) = SumFunctionOnSet(Lost(taken, v), P)
      <3> HIDE DEF P
      <3> QED BY ONLY IsFiniteSet(S), <1>3, <2>4, <2>5, SumPart
    <2>7. Spent(taken, v) = SumFunctionOnSet(Lost(taken, v), S)
      BY DEF Spent
    <2>8. Held(M, x, e, v) = SumFunctionOnSet(Worth(v), {b[l] : l \in P})
      BY <2>1 DEF Held
    <2> QED BY <1>7, <2>3, <2>6, <2>7, <2>8 DEF M
  <1> QED BY <1>6, <1>7

----------------------------------------------------------------------------
(* What the monthly balances add up to. *)

Flow(book, c) == [x \in Dates |-> book[c][x].in - book[c][x].out]
Net(book, c, e) == SumFunctionOnSet(Flow(book, c), 1..e)

LEMMA FlowInt ==
    ASSUME NEW book \in Books, NEW c \in Containers, NEW x \in Dates
    PROVE  /\ book[c][x].in \in Int /\ book[c][x].out \in Nat
           /\ Flow(book, c)[x] = book[c][x].in - book[c][x].out
           /\ Flow(book, c)[x] \in Int
  <1>1. book[c][x] \in [in : Int, out : Nat]
    BY DEF Books
  <1> QED BY <1>1 DEF Flow

LEMMA UpTo ==
    ASSUME NEW e \in Dates
    PROVE  IsFiniteSet(1..e) /\ 1..e \subseteq Dates /\ e \in Int
  <1>1. e \in Int /\ e <= LastDate
    BY BoundFacts DEF Dates
  <1>2. IsFiniteSet(1..e)
    BY <1>1, FS_Interval
  <1> QED BY <1>1, <1>2, BoundFacts DEF Dates

LEMMA NetInt ==
    ASSUME NEW book \in Books, NEW c \in Containers, NEW e \in Dates
    PROVE  Net(book, c, e) \in Int
  <1>1. \A x \in 1..e : Flow(book, c)[x] \in Int
    BY UpTo, FlowInt
  <1> QED BY <1>1, UpTo, SumInt DEF Net

LEMMA NetUpToIsNet ==
    ASSUME NEW c \in Containers, NEW e \in Dates
    PROVE  NetUpTo(c, e) = Net(balance, c, e)
  <1> DEFINE f == [x \in 1..e |-> balance[c][x].in - balance[c][x].out]
  <1>1. \A x \in 1..e : f[x] = Flow(balance, c)[x]
    BY UpTo DEF Flow
  <1>2. NetUpTo(c, e) = SumFunctionOnSet(f, 1..e)
    BY DEF NetUpTo, SumFunction
  <1> HIDE DEF f
  <1>3. SumFunctionOnSet(f, 1..e) = SumFunctionOnSet(Flow(balance, c), 1..e)
    BY <1>1, UpTo, SumEqual
  <1> QED BY <1>2, <1>3 DEF Net

\* A booking of k in month d counts from that month on.
LEMMA NetMoved ==
    ASSUME NEW old \in Books, NEW new \in Books, NEW c \in Containers, NEW d \in Dates,
           NEW k \in Int, Flow(new, c)[d] = Flow(old, c)[d] + k,
           \A x \in Dates \ {d} : Flow(new, c)[x] = Flow(old, c)[x],
           NEW e \in Dates
    PROVE  Net(new, c, e) = Net(old, c, e) + IF d <= e THEN k ELSE 0
  <1> DEFINE f == Flow(old, c)
             g == Flow(new, c)
             E == 1..e
  <1>1. \A x \in Dates : f[x] \in Int /\ g[x] \in Int
    BY FlowInt
  <1>2. IsFiniteSet(E) /\ E \subseteq Dates
    BY UpTo
  <1>3. /\ Net(new, c, e) = SumFunctionOnSet(g, E) /\ Net(old, c, e) = SumFunctionOnSet(f, E)
        /\ Net(old, c, e) \in Int
    BY NetInt DEF Net
  <1>4. d \in E <=> d <= e
    BY UpTo, LastIsDate DEF Dates
  <1>5. g[d] = f[d] + k /\ \A x \in Dates \ {d} : g[x] = f[x]
    OBVIOUS
  <1> HIDE DEF f, g, E
  <1>6. CASE d <= e
    <2>1. d \in E /\ \A x \in E \ {d} : g[x] = f[x]
      BY <1>2, <1>4, <1>5, <1>6
    <2>2. \A x \in E : f[x] \in Int /\ g[x] \in Int
      BY <1>1, <1>2
    <2>3. SumFunctionOnSet(g, E) = SumFunctionOnSet(f, E) - f[d] + g[d]
      BY ONLY <1>2, <2>1, <2>2, SumChange
    <2>4. f[d] \in Int /\ g[d] \in Int
      BY <1>1
    <2> QED BY <1>3, <1>5, <1>6, <2>3, <2>4
  <1>7. CASE ~(d <= e)
    <2>1. \A x \in E : g[x] = f[x]
      BY <1>2, <1>4, <1>5, <1>7
    <2>2. SumFunctionOnSet(g, E) = SumFunctionOnSet(f, E)
      BY ONLY <1>2, <2>1, SumEqual
    <2> QED BY <1>3, <1>7, <2>2
  <1> QED BY <1>6, <1>7

LEMMA NetSame ==
    ASSUME NEW old, NEW new, NEW c, old[c] = new[c], NEW e
    PROVE  Net(new, c, e) = Net(old, c, e)
  BY DEF Net, Flow

LEMMA NetBookIn ==
    ASSUME NEW book \in Books, NEW c \in Containers, NEW q \in Quantities, NEW d \in Dates,
           NEW x \in Containers, NEW e \in Dates
    PROVE  Net(BookIn(book, c, d, q), x, e) =
             Net(book, x, e) + IF x = c /\ d <= e THEN q ELSE 0
  <1> DEFINE new == BookIn(book, c, d, q)
  <1>1. new \in Books /\ q \in Int
    BY BookInType, BoundFacts DEF Quantities
  <1>2. CASE x # c
    <2>1. new[x] = book[x]
      BY <1>2 DEF BookIn, Books
    <2>2. Net(new, x, e) = Net(book, x, e)
      BY <2>1, NetSame
    <2> QED BY <1>2, <2>2, NetInt
  <1>3. CASE x = c
    <2>1. /\ new[c][d].in = book[c][d].in + q /\ new[c][d].out = book[c][d].out
          /\ \A y \in Dates \ {d} : new[c][y] = book[c][y]
      BY DEF BookIn, Books
    <2>2. \A y \in Dates : /\ Flow(new, c)[y] = new[c][y].in - new[c][y].out
                            /\ Flow(book, c)[y] = book[c][y].in - book[c][y].out
      BY DEF Flow
    <2> HIDE DEF new
    <2>3. book[c][d].in \in Int /\ book[c][d].out \in Int
      BY FlowInt
    <2>4. Flow(new, c)[d] = Flow(book, c)[d] + q
      BY <1>1, <2>1, <2>2, <2>3
    <2>5. \A y \in Dates \ {d} : Flow(new, c)[y] = Flow(book, c)[y]
      BY <2>1, <2>2
    <2>6. Net(new, c, e) = Net(book, c, e) + IF d <= e THEN q ELSE 0
      BY ONLY <1>1, book \in Books, c \in Containers, d \in Dates, e \in Dates, <2>4, <2>5,
              NetMoved
    <2> QED BY <1>3, <2>6 DEF new
  <1> QED BY <1>2, <1>3

LEMMA NetBookOut ==
    ASSUME NEW book \in Books, NEW c \in Containers, NEW q \in Quantities, NEW d \in Dates,
           NEW x \in Containers, NEW e \in Dates
    PROVE  Net(BookOut(book, c, d, q), x, e) =
             Net(book, x, e) - IF x = c /\ d <= e THEN q ELSE 0
  <1> DEFINE new == BookOut(book, c, d, q)
  <1>1. new \in Books /\ q \in Int /\ 0 - q \in Int
    BY BookOutType, BoundFacts DEF Quantities
  <1>2. CASE x # c
    <2>1. new[x] = book[x]
      BY <1>2 DEF BookOut, Books
    <2>2. Net(new, x, e) = Net(book, x, e)
      BY <2>1, NetSame
    <2> QED BY <1>2, <2>2, NetInt
  <1>3. CASE x = c
    <2>1. /\ new[c][d].out = book[c][d].out + q /\ new[c][d].in = book[c][d].in
          /\ \A y \in Dates \ {d} : new[c][y] = book[c][y]
      BY DEF BookOut, Books
    <2>2. \A y \in Dates : /\ Flow(new, c)[y] = new[c][y].in - new[c][y].out
                            /\ Flow(book, c)[y] = book[c][y].in - book[c][y].out
      BY DEF Flow
    <2> HIDE DEF new
    <2>3. book[c][d].in \in Int /\ book[c][d].out \in Int
      BY FlowInt
    <2>4. Flow(new, c)[d] = Flow(book, c)[d] + (0 - q)
      BY <1>1, <2>1, <2>2, <2>3
    <2>5. \A y \in Dates \ {d} : Flow(new, c)[y] = Flow(book, c)[y]
      BY <2>1, <2>2
    <2>6. Net(new, c, e) = Net(book, c, e) + IF d <= e THEN 0 - q ELSE 0
      BY ONLY <1>1, book \in Books, c \in Containers, d \in Dates, e \in Dates, <2>4, <2>5,
              NetMoved
    <2>7. Net(book, c, e) \in Int
      BY NetInt
    <2> QED BY <1>1, <1>3, <2>6, <2>7 DEF new
  <1> QED BY <1>2, <1>3

----------------------------------------------------------------------------
(* What each document does to what the layers hold. *)

\* q units, or their value at a price.
Amount(q, price, v) == q * (IF v = "value" THEN price ELSE 1)

LEMMA AmountOf ==
    ASSUME NEW q \in Int, NEW price
    PROVE  Amount(q, price, "units") = q /\ Amount(q, price, "value") = q * price
  BY DEF Amount

LEMMA AddedHolds ==
    ASSUME NEW L, NEW N, NEW next \in Nat, NEW after \in Nat, next <= after,
           Good(L, next), Fresh(N, next, after), NEW x, NEW e, NEW v
    PROVE  /\ Held(L \cup N, x, e, v) = Held(L, x, e, v) + Held(N, x, e, v)
           /\ Held(L, x, e, v) \in Int /\ Held(N, x, e, v) \in Int
  <1>1. IsFiniteSet(L) /\ L \subseteq Layer
    BY GoodFinite DEF Good
  <1>2. Good(N, after) /\ N \subseteq Layer
    BY DEF Good, Fresh
  <1>3. IsFiniteSet(N)
    BY <1>2, GoodFinite
  <1>4. L \cap N = {}
    <2>1. \A l \in L, k \in N : l.id < next /\ next <= k.id /\ l.id \in Int /\ k.id \in Int
      BY <1>1, <1>2, LayerFields DEF Good, Fresh
    <2>2. \A l \in L : l \notin N
      BY <2>1
    <2> QED BY <2>2
  <1> QED BY <1>1, <1>2, <1>3, <1>4, HeldAdded, HeldNat

LEMMA OneHolds ==
    ASSUME NEW l \in Layer, NEW x, NEW e, NEW v
    PROVE  Held({l}, x, e, v) =
             IF l.container = x /\ l.date <= e THEN l.quantity * Weight(l, v) ELSE 0
  <1>1. CASE l.container = x /\ l.date <= e
    <2>1. Kept({l}, x, e) = {l}
      BY <1>1 DEF Kept
    <2> QED BY <1>1, <2>1, HeldOne
  <1>2. CASE ~(l.container = x /\ l.date <= e)
    <2>1. Kept({l}, x, e) = {}
      BY <1>2 DEF Kept
    <2> QED BY <1>2, <2>1, HeldNone
  <1> QED BY <1>1, <1>2

LEMMA PutInHolds ==
    ASSUME Sound, NEW c \in Containers, NEW q \in Quantities, NEW d \in Dates,
           NEW price \in Prices, PutIn(c, q, d, price),
           NEW x \in Containers, NEW e \in Dates, NEW v
    PROVE  /\ Held(layers', x, e, v) = Held(layers, x, e, v) +
                IF x = c /\ d <= e THEN Amount(q, price, v) ELSE 0
           /\ Held(layers, x, e, v) \in Int
  <1> DEFINE l == NewLayer(nextLayer, c, d, price, q, 0)
  <1>1. nextLayer \in LayerIds /\ nextLayer \in Nat /\ nextLayer + 1 \in Nat
        /\ nextLayer <= nextLayer + 1
    BY BoundFacts DEF PutIn, Sound, TypeOK, LayerIds
  <1>2. Fresh({l}, nextLayer, nextLayer + 1) /\ Good(layers, nextLayer)
    BY <1>1, OneNewLayer, SoundIsGood
  <1>3. layers' = layers \cup {l}
    BY DEF PutIn
  <1>4. /\ l \in Layer /\ l.container = c /\ l.date = d /\ l.quantity = q
        /\ Weight(l, v) = IF v = "value" THEN price ELSE 1
    BY <1>2 DEF Fresh, NewLayer, Weight
  <1> HIDE DEF l
  <1>5. Held(layers \cup {l}, x, e, v) = Held(layers, x, e, v) + Held({l}, x, e, v)
        /\ Held(layers, x, e, v) \in Int
    BY <1>1, <1>2, AddedHolds
  <1>6. Held({l}, x, e, v) = IF x = c /\ d <= e THEN Amount(q, price, v) ELSE 0
    BY <1>4, OneHolds DEF Amount
  <1> QED BY <1>3, <1>5, <1>6

LEMMA TransferHolds ==
    ASSUME Sound, NEW from \in Containers, NEW to \in Containers, NEW q \in Quantities,
           NEW d \in Dates, NEW taken, NEW next, NEW id,
           TransferBy(from, to, q, d, taken, next, id),
           NEW x \in Containers, NEW e \in Dates, NEW v
    PROVE  /\ Held(layers', x, e, v) = Held(Drawn(taken), x, e, v) +
                IF x = to /\ d <= e THEN Spent(taken, v) ELSE 0
           /\ Held(Drawn(taken), x, e, v) \in Int
  <1>1. /\ Good(Drawn(taken), nextLayer) /\ Fresh(Moved(taken, id, to, d), nextLayer, next)
        /\ next \in Nat /\ nextLayer \in Nat /\ nextLayer <= next
        /\ \A l, m \in Open(from, d) :
             taken[l] > 0 /\ taken[m] > 0 /\ id[l] = id[m] => l = m
    BY MovedFresh
  <1>2. /\ Open(from, d) \subseteq layers /\ layers \subseteq Layer /\ q \in Nat
        /\ taken \in [Open(from, d) -> 0..q]
        /\ layers' = Drawn(taken) \cup Moved(taken, id, to, d)
    BY BoundFacts DEF Open, Sound, TypeOK, TransferBy, Quantities
  <1>3. IsFiniteSet(Open(from, d)) /\ Open(from, d) \subseteq Layer
    BY <1>1, <1>2, SoundIsGood, GoodFinite, FS_Subset
  <1>4. Moved(taken, id, to, d) \subseteq Layer
    BY <1>1 DEF Fresh
  <1>5. Held(Moved(taken, id, to, d), x, e, v) = IF x = to /\ d <= e THEN Spent(taken, v) ELSE 0
    BY <1>1, <1>2, <1>3, <1>4, MovedHolds
  <1>6. /\ Held(Drawn(taken) \cup Moved(taken, id, to, d), x, e, v) =
             Held(Drawn(taken), x, e, v) + Held(Moved(taken, id, to, d), x, e, v)
        /\ Held(Drawn(taken), x, e, v) \in Int
    <2> DEFINE D == Drawn(taken)
               M == Moved(taken, id, to, d)
    <2>1. /\ Good(D, nextLayer) /\ Fresh(M, nextLayer, next)
          /\ next \in Nat /\ nextLayer \in Nat /\ nextLayer <= next
      BY <1>1
    <2> HIDE DEF D, M
    <2>2. Held(D \cup M, x, e, v) = Held(D, x, e, v) + Held(M, x, e, v) /\ Held(D, x, e, v) \in Int
      BY ONLY <2>1, AddedHolds
    <2> QED BY <2>2 DEF D, M
  <1> QED BY <1>2, <1>5, <1>6

LEMMA RowsHolds ==
    ASSUME Sound, NEW cs \in SUBSET Containers, NEW d \in Dates, NEW price \in Prices,
           NEW lines \in [cs -> Quantities], NEW next, NEW id,
           ReceiptBy(d, lines, price, next, id),
           NEW x \in Containers, NEW e \in Dates, NEW v
    PROVE  /\ Held(layers', x, e, v) = Held(layers, x, e, v) +
                IF x \in cs /\ d <= e THEN Amount(lines[x], price, v) ELSE 0
           /\ Held(layers, x, e, v) \in Int
  <1> DEFINE N == Rows(id, d, lines, price)
             l == NewLayer(id[x], x, d, price, lines[x], nextLayer)
  <1>1. /\ Fresh(N, nextLayer, next) /\ next \in Nat /\ nextLayer \in Nat
        /\ nextLayer <= next /\ layers' = layers \cup N
    BY RowsFresh DEF ReceiptBy
  <1>2. /\ Held(layers \cup N, x, e, v) = Held(layers, x, e, v) + Held(N, x, e, v)
        /\ Held(layers, x, e, v) \in Int
    <2>1. Good(layers, nextLayer)
      BY SoundIsGood
    <2> HIDE DEF N
    <2> QED BY ONLY <1>1, <2>1, AddedHolds
  <1>3. Held(N, x, e, v) =
          IF x \in cs /\ d <= e THEN Amount(lines[x], price, v) ELSE 0
    <2>1. CASE x \in cs /\ d <= e
      <3>1. l \in N /\ N \subseteq Layer
        BY <1>1, <2>1 DEF Rows, Fresh
      <3>2. Kept(N, x, e) = {l}
        BY <2>1 DEF Kept, Rows, NewLayer
      <3>3. l.quantity = lines[x] /\ Weight(l, v) = IF v = "value" THEN price ELSE 1
        BY DEF NewLayer, Weight
      <3> HIDE DEF l, N
      <3> QED BY <2>1, <3>1, <3>2, <3>3, HeldOne DEF Amount
    <2>2. CASE ~(x \in cs /\ d <= e)
      <3>1. Kept(N, x, e) = {}
        BY <2>2 DEF Kept, Rows, NewLayer
      <3> QED BY <2>2, <3>1, HeldNone
    <2> QED BY <2>1, <2>2
  <1> QED BY <1>1, <1>2, <1>3

----------------------------------------------------------------------------
(* The records agree. *)

\* InventoryItem.onHand is what the balances add up to.  It is never more
\* than the layers hold; with foreign keys it is exactly that, and at the end
\* of every month the balances still cover the layers dated up to it.
Agree(c) ==
    /\ onHand[c] = Net(balance, c, LastDate)
    /\ onHand[c] <= Held(layers, c, LastDate, "units")
    /\ ForeignKeys =>
          /\ onHand[c] = Held(layers, c, LastDate, "units")
          /\ \A e \in Dates : Held(layers, c, e, "units") <= Net(balance, c, e)

LEMMA Raised == \A a, b, k, c \in Int : a <= b /\ c >= b + k => a + k <= c
  OBVIOUS

LEMMA Covers == \A a, b, k, c \in Int : a <= b /\ c <= a + k => c <= b + k
  OBVIOUS

\* A document that changes the stock of container x by k, from month d on.
LEMMA AgreeKept ==
    ASSUME Sound, Sound', NEW x \in Containers, Agree(x), NEW k \in Int, NEW d \in Dates,
           onHand'[x] = onHand[x] + k,
           \A e \in Dates : Net(balance', x, e) = Net(balance, x, e) + IF d <= e THEN k ELSE 0,
           Held(layers', x, LastDate, "units") >= Held(layers, x, LastDate, "units") + k,
           ForeignKeys =>
             /\ Held(layers', x, LastDate, "units") = Held(layers, x, LastDate, "units") + k
             /\ \A e \in Dates : Held(layers', x, e, "units") <=
                   Held(layers, x, e, "units") + IF d <= e THEN k ELSE 0
    PROVE  Agree(x)'
  <1>1. /\ layers \subseteq Layer /\ IsFiniteSet(layers)
        /\ layers' \subseteq Layer /\ IsFiniteSet(layers')
    <2>1. Good(layers, nextLayer) /\ nextLayer \in Nat
      BY SoundIsGood
    <2>2. Good(layers', nextLayer') /\ nextLayer' \in Nat
      BY BoundFacts DEF Sound, TypeOK, LayersSound, Good
    <2> QED BY <2>1, <2>2, GoodFinite DEF Good
  <1>2. \A e \in Dates : /\ Held(layers, x, e, "units") \in Int
                          /\ Held(layers', x, e, "units") \in Int
                          /\ Net(balance, x, e) \in Int
    BY <1>1, HeldNat, NetInt DEF Sound, TypeOK
  <1>3. LastDate \in Dates /\ d <= LastDate
    BY LastIsDate
  <1>4. onHand[x] \in Int
    BY DEF Sound, TypeOK
  <1>5. onHand'[x] = Net(balance', x, LastDate)
    BY <1>3 DEF Agree
  <1>6. onHand'[x] <= Held(layers', x, LastDate, "units")
    <2>1. onHand[x] <= Held(layers, x, LastDate, "units")
      BY DEF Agree
    <2>2. /\ Held(layers, x, LastDate, "units") \in Int
          /\ Held(layers', x, LastDate, "units") \in Int
      BY <1>2, <1>3
    <2>3. /\ onHand'[x] = onHand[x] + k
          /\ Held(layers', x, LastDate, "units") >= Held(layers, x, LastDate, "units") + k
      OBVIOUS
    <2>4. onHand[x] + k <= Held(layers', x, LastDate, "units")
      BY ONLY k \in Int, <1>4, <2>1, <2>2, <2>3, Raised
    <2> QED BY ONLY <2>3, <2>4
  <1>7. ForeignKeys => onHand'[x] = Held(layers', x, LastDate, "units")
    BY DEF Agree
  <1>8. ASSUME ForeignKeys, NEW e \in Dates
        PROVE  Held(layers', x, e, "units") <= Net(balance', x, e)
    <2>1. Held(layers, x, e, "units") <= Net(balance, x, e)
      BY <1>8 DEF Agree
    <2>2. /\ Net(balance', x, e) = Net(balance, x, e) + IF d <= e THEN k ELSE 0
          /\ Held(layers', x, e, "units") <= Held(layers, x, e, "units") + IF d <= e THEN k ELSE 0
      BY <1>8
    <2>3. /\ Held(layers, x, e, "units") \in Int /\ Held(layers', x, e, "units") \in Int
          /\ Net(balance, x, e) \in Int
      BY <1>2
    <2>4. (IF d <= e THEN k ELSE 0) \in Int
      OBVIOUS
    <2> QED BY ONLY <2>1, <2>2, <2>3, <2>4, Covers
  <1> QED BY <1>5, <1>6, <1>7, <1>8 DEF Agree

LEMMA PutInAgrees ==
    ASSUME Sound, Sound', NEW c \in Containers, NEW q \in Quantities, NEW d \in Dates,
           NEW price \in Prices, PutIn(c, q, d, price), NEW x \in Containers, Agree(x)
    PROVE  Agree(x)'
  <1> DEFINE k == IF x = c THEN q ELSE 0
  <1>1. q \in Int /\ k \in Int
    BY BoundFacts DEF Quantities
  <1>2. onHand'[x] = onHand[x] + k
    BY <1>1 DEF PutIn, Sound, TypeOK
  <1>3. \A e \in Dates : Net(balance', x, e) = Net(balance, x, e) + IF d <= e THEN k ELSE 0
    <2> TAKE e \in Dates
    <2>1. balance' = BookIn(balance, c, d, q) /\ balance \in Books
      BY DEF PutIn, Sound, TypeOK
    <2>2. Net(balance', x, e) = Net(balance, x, e) + IF x = c /\ d <= e THEN q ELSE 0
      BY <2>1, NetBookIn
    <2> QED BY <2>2
  <1>4. \A e \in Dates :
          /\ Held(layers, x, e, "units") \in Int /\ Held(layers', x, e, "units") \in Int
          /\ ~(d <= e) => Held(layers', x, e, "units") = Held(layers, x, e, "units")
          /\ d <= e => Held(layers', x, e, "units") = Held(layers, x, e, "units") + k
    <2> TAKE e \in Dates
    <2>1. /\ Held(layers', x, e, "units") = Held(layers, x, e, "units") +
                IF x = c /\ d <= e THEN Amount(q, price, "units") ELSE 0
          /\ Held(layers, x, e, "units") \in Int
      BY PutInHolds
    <2>2. Amount(q, price, "units") = q
      BY <1>1, AmountOf
    <2>3. CASE x = c /\ d <= e
      BY <1>1, <2>1, <2>2, <2>3
    <2>4. CASE ~(x = c /\ d <= e)
      BY <2>1, <2>4
    <2> QED BY <2>3, <2>4
  <1> HIDE DEF k
  <1>5. LastDate \in Dates /\ d <= LastDate
    BY LastIsDate
  <1>6. /\ Held(layers', x, LastDate, "units") = Held(layers, x, LastDate, "units") + k
        /\ Held(layers', x, LastDate, "units") >= Held(layers, x, LastDate, "units") + k
    BY <1>1, <1>4, <1>5
  <1>7. \A e \in Dates : Held(layers', x, e, "units") <=
                           Held(layers, x, e, "units") + IF d <= e THEN k ELSE 0
    BY <1>1, <1>4
  <1> QED BY <1>1, <1>2, <1>3, <1>6, <1>7, AgreeKept

LEMMA RowsAgree ==
    ASSUME Sound, Sound', NEW cs \in SUBSET Containers, NEW d \in Dates, NEW price \in Prices,
           NEW lines \in [cs -> Quantities], AddGoodsReceiptManual(d, lines, price),
           NEW x \in Containers, Agree(x)
    PROVE  Agree(x)'
  <1> DEFINE k == IF x \in cs THEN lines[x] ELSE 0
  <1>1. k \in Int /\ (x \in cs => lines[x] \in Int)
    BY BoundFacts DEF Quantities
  <1>2. onHand'[x] = onHand[x] + k
    BY <1>1 DEF AddGoodsReceiptManual, Sound, TypeOK
  <1>3. \A e \in Dates : Net(balance', x, e) = Net(balance, x, e) + IF d <= e THEN k ELSE 0
    <2>1. balance \in Books /\ balance' \in Books
      BY DEF Sound, TypeOK
    <2>2. \A y \in Dates : balance'[x][y] =
            IF x \in cs /\ y = d THEN [balance[x][y] EXCEPT !.in = @ + lines[x]] ELSE balance[x][y]
      BY DEF AddGoodsReceiptManual
    <2>3. \A y \in Dates : /\ Flow(balance', x)[y] = balance'[x][y].in - balance'[x][y].out
                            /\ Flow(balance, x)[y] = balance[x][y].in - balance[x][y].out
      BY DEF Flow
    <2>4. \A y \in Dates \ {d} : Flow(balance', x)[y] = Flow(balance, x)[y]
      BY <2>2, <2>3
    <2>5. Flow(balance', x)[d] = Flow(balance, x)[d] + k
      <3>1. balance[x][d] \in [in : Int, out : Nat]
        BY <2>1 DEF Books
      <3>2. balance'[x][d].in = balance[x][d].in + k /\ balance'[x][d].out = balance[x][d].out
        <4>1. CASE x \in cs
          <5>1. balance'[x][d] = [balance[x][d] EXCEPT !.in = @ + lines[x]]
            BY <2>2, <4>1
          <5> QED BY <3>1, <4>1, <5>1
        <4>2. CASE x \notin cs
          <5>1. balance'[x][d] = balance[x][d]
            BY <2>2, <4>2
          <5> QED BY <3>1, <4>2, <5>1
        <4> QED BY <4>1, <4>2
      <3>3. /\ Flow(balance', x)[d] = balance'[x][d].in - balance'[x][d].out
            /\ Flow(balance, x)[d] = balance[x][d].in - balance[x][d].out
        BY <2>3
      <3> HIDE DEF k
      <3> QED BY <1>1, <3>1, <3>2, <3>3
    <2> HIDE DEF k
    <2> QED BY <1>1, <2>1, <2>4, <2>5, NetMoved
  <1>4. \A e \in Dates :
          /\ Held(layers, x, e, "units") \in Int /\ Held(layers', x, e, "units") \in Int
          /\ ~(d <= e) => Held(layers', x, e, "units") = Held(layers, x, e, "units")
          /\ d <= e => Held(layers', x, e, "units") = Held(layers, x, e, "units") + k
    <2> TAKE e \in Dates
    <2>1. PICK next, id : ReceiptBy(d, lines, price, next, id)
      BY ReceiptSteps
    <2>2. /\ Held(layers', x, e, "units") = Held(layers, x, e, "units") +
                IF x \in cs /\ d <= e THEN Amount(lines[x], price, "units") ELSE 0
          /\ Held(layers, x, e, "units") \in Int
      BY <2>1, RowsHolds
    <2>3. x \in cs => Amount(lines[x], price, "units") = lines[x]
      BY <1>1, AmountOf
    <2>4. CASE x \in cs /\ d <= e
      BY <1>1, <2>2, <2>3, <2>4
    <2>5. CASE ~(x \in cs /\ d <= e)
      BY <2>2, <2>5
    <2> QED BY <2>4, <2>5
  <1> HIDE DEF k
  <1>5. LastDate \in Dates /\ d <= LastDate
    BY LastIsDate
  <1>6. /\ Held(layers', x, LastDate, "units") = Held(layers, x, LastDate, "units") + k
        /\ Held(layers', x, LastDate, "units") >= Held(layers, x, LastDate, "units") + k
    BY <1>1, <1>4, <1>5
  <1>7. \A e \in Dates : Held(layers', x, e, "units") <=
                           Held(layers, x, e, "units") + IF d <= e THEN k ELSE 0
    BY <1>1, <1>4
  <1> QED BY <1>1, <1>2, <1>3, <1>6, <1>7, AgreeKept

LEMMA TakeOutAgrees ==
    ASSUME Sound, Sound', NEW c \in Containers, NEW q \in Quantities, NEW d \in Dates,
           TakeOut(c, q, d), NEW x \in Containers, Agree(x)
    PROVE  Agree(x)'
  <1> DEFINE k == IF x = c THEN 0 - q ELSE 0
  <1>1. q \in Nat /\ k \in Int
    BY BoundFacts DEF Quantities
  <1>2. onHand'[x] = onHand[x] + k
    BY <1>1 DEF TakeOut, Sound, TypeOK
  <1>3. \A e \in Dates : Net(balance', x, e) = Net(balance, x, e) + IF d <= e THEN k ELSE 0
    <2> TAKE e \in Dates
    <2>1. balance' = BookOut(balance, c, d, q) /\ balance \in Books
      BY DEF TakeOut, Sound, TypeOK
    <2>2. Net(balance', x, e) = Net(balance, x, e) - IF x = c /\ d <= e THEN q ELSE 0
      BY <2>1, NetBookOut
    <2>3. Net(balance, x, e) \in Int
      BY <2>1, NetInt
    <2> QED BY <1>1, <2>2, <2>3
  <1>4. PICK taken \in [Open(c, d) -> 0..q] : Draws(taken, q) /\ layers' = Drawn(taken)
    BY DEF TakeOut
  <1>5. Spent(taken, "units") = q /\ Good(layers, nextLayer) /\ nextLayer \in Nat
    <2>1. Good(layers, nextLayer) /\ nextLayer \in Nat
      BY SoundIsGood
    <2>2. Open(c, d) \subseteq layers
      BY DEF Open
    <2>3. IsFiniteSet(Open(c, d)) /\ Open(c, d) \subseteq Layer
      BY <2>1, <2>2, GoodFinite, FS_Subset DEF Good
    <2> QED BY <1>1, <1>4, <2>1, <2>3, SpentQuantity
  <1>6. \A e \in Dates :
          /\ Held(layers', x, e, "units") \in Int /\ Held(layers, x, e, "units") \in Int
          /\ Held(layers', x, e, "units") <= Held(layers, x, e, "units")
          /\ d <= e => Held(layers', x, e, "units") = Held(layers, x, e, "units") + k
    <2> TAKE e \in Dates
    <2>1. /\ Held(Drawn(taken), x, e, "units") \in Int
          /\ Held(layers, x, e, "units") \in Int
          /\ Held(Drawn(taken), x, e, "units") <= Held(layers, x, e, "units")
          /\ x # c => Held(Drawn(taken), x, e, "units") = Held(layers, x, e, "units")
          /\ x = c /\ d <= e =>
                Held(Drawn(taken), x, e, "units") = Held(layers, x, e, "units") - Spent(taken, "units")
      BY <1>1, <1>4, <1>5, DrawnHolds
    <2> QED BY <1>1, <1>4, <1>5, <2>1
  <1> HIDE DEF k
  <1>7. LastDate \in Dates /\ d <= LastDate
    BY LastIsDate
  <1>8. /\ Held(layers', x, LastDate, "units") = Held(layers, x, LastDate, "units") + k
        /\ Held(layers', x, LastDate, "units") >= Held(layers, x, LastDate, "units") + k
    BY <1>1, <1>6, <1>7
  <1>9. \A e \in Dates : Held(layers', x, e, "units") <=
                           Held(layers, x, e, "units") + IF d <= e THEN k ELSE 0
    BY <1>1, <1>6
  <1> QED BY <1>1, <1>2, <1>3, <1>8, <1>9, AgreeKept

LEMMA TransferAgrees ==
    ASSUME Sound, Sound', NEW from \in Containers, NEW to \in Containers,
           NEW q \in Quantities, NEW d \in Dates, AddTransferOrder(from, to, q, d),
           NEW x \in Containers, Agree(x)
    PROVE  Agree(x)'
  <1> DEFINE k == (IF x = to THEN q ELSE 0) - (IF x = from THEN q ELSE 0)
  <1>1. q \in Nat /\ k \in Int
    BY BoundFacts DEF Quantities
  <1>2. onHand'[x] = onHand[x] + k
    <2> DEFINE less == [onHand EXCEPT ![from] = @ - q]
    <2>1. /\ onHand' = [less EXCEPT ![to] = @ + q] /\ onHand \in [Containers -> Nat]
          /\ DOMAIN less = Containers
      BY DEF AddTransferOrder, Sound, TypeOK
    <2>2. less[x] = onHand[x] - (IF x = from THEN q ELSE 0)
      BY <1>1, <2>1
    <2>3. onHand[x] \in Int
      BY <2>1
    <2> HIDE DEF less
    <2>4. onHand'[x] = less[x] + (IF x = to THEN q ELSE 0)
      BY <1>1, <2>1, <2>2, <2>3
    <2> QED BY <1>1, <2>2, <2>3, <2>4
  <1>3. \A e \in Dates : Net(balance', x, e) = Net(balance, x, e) + IF d <= e THEN k ELSE 0
    <2> TAKE e \in Dates
    <2> DEFINE out == BookOut(balance, from, d, q)
    <2>1. balance' = BookIn(out, to, d, q) /\ balance \in Books /\ out \in Books
      BY BookOutType DEF AddTransferOrder, Sound, TypeOK
    <2>2. Net(out, x, e) = Net(balance, x, e) - IF x = from /\ d <= e THEN q ELSE 0
      BY <2>1, NetBookOut
    <2>3. Net(balance', x, e) = Net(out, x, e) + IF x = to /\ d <= e THEN q ELSE 0
      BY <2>1, NetBookIn
    <2>4. Net(balance, x, e) \in Int
      BY <2>1, NetInt
    <2> HIDE DEF out
    <2> QED BY <1>1, <2>2, <2>3, <2>4
  <1>4. PICK taken, next, id : TransferBy(from, to, q, d, taken, next, id)
    BY TransferSteps
  <1>5. /\ Spent(taken, "units") = q /\ Good(layers, nextLayer) /\ nextLayer \in Nat
        /\ taken \in [Open(from, d) -> 0..q] /\ Draws(taken, q)
    <2>1. Good(layers, nextLayer) /\ nextLayer \in Nat
      BY SoundIsGood
    <2>2. Open(from, d) \subseteq layers
      BY DEF Open
    <2>3. IsFiniteSet(Open(from, d)) /\ Open(from, d) \subseteq Layer
      BY <2>1, <2>2, GoodFinite, FS_Subset DEF Good
    <2>4. taken \in [Open(from, d) -> 0..q] /\ Draws(taken, q)
      BY <1>4 DEF TransferBy
    <2> QED BY <1>1, <2>1, <2>3, <2>4, SpentQuantity
  <1>6. \A e \in Dates :
          /\ Held(layers', x, e, "units") \in Int /\ Held(layers, x, e, "units") \in Int
          /\ ~(d <= e) => Held(layers', x, e, "units") <= Held(layers, x, e, "units")
          /\ d <= e => Held(layers', x, e, "units") = Held(layers, x, e, "units") + k
    <2> TAKE e \in Dates
    <2>1. /\ Held(Drawn(taken), x, e, "units") \in Int
          /\ Held(layers, x, e, "units") \in Int
          /\ Held(Drawn(taken), x, e, "units") <= Held(layers, x, e, "units")
          /\ x # from => Held(Drawn(taken), x, e, "units") = Held(layers, x, e, "units")
          /\ x = from /\ d <= e =>
                Held(Drawn(taken), x, e, "units") = Held(layers, x, e, "units") - Spent(taken, "units")
      BY <1>1, <1>5, DrawnHolds
    <2>2. Held(layers', x, e, "units") = Held(Drawn(taken), x, e, "units") +
             IF x = to /\ d <= e THEN Spent(taken, "units") ELSE 0
      BY <1>4, TransferHolds
    <2> QED BY <1>1, <1>5, <2>1, <2>2
  <1> HIDE DEF k
  <1>7. LastDate \in Dates /\ d <= LastDate
    BY LastIsDate
  <1>8. /\ Held(layers', x, LastDate, "units") = Held(layers, x, LastDate, "units") + k
        /\ Held(layers', x, LastDate, "units") >= Held(layers, x, LastDate, "units") + k
    BY <1>1, <1>6, <1>7
  <1>9. \A e \in Dates : Held(layers', x, e, "units") <=
                           Held(layers, x, e, "units") + IF d <= e THEN k ELSE 0
    BY <1>1, <1>6
  <1> QED BY <1>1, <1>2, <1>3, <1>8, <1>9, AgreeKept

\* A manual receipt puts one layer into a container, and its number is the id
\* of its first layer.
Apart ==
    /\ \A l \in layers : l.manual <= l.id
    /\ \A l, n \in layers :
          l.manual # 0 /\ l.manual = n.manual /\ l.container = n.container => l = n

LEMMA ReversedApart ==
    ASSUME Sound, Apart, NEW m \in LayerIds, DeleteGoodsReceiptManual(m)
    PROVE  /\ Reversed(m) \subseteq layers
           /\ \A l, n \in Reversed(m) : l.container = n.container => l = n
           /\ ForeignKeys => \A l \in Reversed(m) : l.quantity = l.receipted
           /\ layers \subseteq Layer /\ IsFiniteSet(layers)
           /\ \A l \in layers : l.quantity <= l.receipted
  <1>1. \A l \in Reversed(m) : l \in layers /\ l.manual = m
    BY DEF Reversed, ReceiptOf
  <1>2. m # 0
    BY BoundFacts DEF LayerIds
  <1>3. \A l, n \in Reversed(m) : l.container = n.container => l = n
    BY <1>1, <1>2 DEF Apart
  <1>4. ForeignKeys => \A l \in Reversed(m) : l.quantity = l.receipted
    BY DEF DeleteGoodsReceiptManual, KeysAllowDelete
  <1>5. Good(layers, nextLayer) /\ nextLayer \in Nat
    BY SoundIsGood
  <1> QED BY <1>1, <1>3, <1>4, <1>5, GoodFinite DEF Good

LEMMA DeleteAgrees ==
    ASSUME Sound, Sound', Apart, NEW m \in LayerIds, DeleteGoodsReceiptManual(m),
           NEW x \in Containers, Agree(x)
    PROVE  Agree(x)'
  <1> DEFINE G == Reversed(m)
  <1>1. /\ G \subseteq layers /\ layers \subseteq Layer /\ IsFiniteSet(layers)
        /\ \A l, n \in G : l.container = n.container => l = n
        /\ ForeignKeys => \A l \in G : l.quantity = l.receipted
        /\ \A l \in layers : l.quantity <= l.receipted
    BY ReversedApart
  <1>2. /\ layers' = layers \ G
        /\ onHand'[x] = onHand[x] - TakenBack(G, x)
        /\ \A y \in Dates :
             balance'[x][y] = [balance[x][y] EXCEPT !.in = @ - TakenBackOn(G, x, y)]
    BY DEF DeleteGoodsReceiptManual
  <1> HIDE DEF G
  <1>3. balance \in Books /\ balance' \in Books /\ onHand[x] \in Nat
    BY DEF Sound, TypeOK
  <1>4. \A e \in Dates :
          /\ Held(layers', x, e, "units") = Held(layers, x, e, "units") - Held(G, x, e, "units")
          /\ Held(layers, x, e, "units") \in Int /\ Held(G, x, e, "units") \in Int
    <2>1. IsFiniteSet(G) /\ G \subseteq Layer
      BY <1>1, FS_Subset
    <2> QED BY <1>1, <1>2, <2>1, HeldRemoved, HeldNat
  <1>5. CASE ~ \E l \in G : l.container = x
    <2>1. TakenBack(G, x) = 0 /\ \A y \in Dates : TakenBackOn(G, x, y) = 0
      BY <1>5 DEF TakenBack, TakenBackOn
    <2>2. \A y \in Dates : balance'[x][y] = balance[x][y]
      <3> TAKE y \in Dates
      <3>1. balance[x][y] \in [in : Int, out : Nat]
        BY <1>3 DEF Books
      <3> QED BY <1>2, <2>1, <3>1
    <2>3. balance'[x] = balance[x]
      BY <1>3, <2>2 DEF Books
    <2>4. \A e \in Dates : Held(G, x, e, "units") = 0
      <3>1. \A e \in Dates : Kept(G, x, e) = {}
        BY <1>5 DEF Kept
      <3> QED BY <3>1, HeldNone
    <2>5. onHand'[x] = onHand[x] /\ \A e \in Dates : Net(balance', x, e) = Net(balance, x, e)
      BY <1>2, <1>3, <2>1, <2>3, NetSame
    <2>6. \A e \in Dates : Held(layers', x, e, "units") = Held(layers, x, e, "units")
      BY <1>4, <2>4
    <2> QED BY <2>5, <2>6, LastIsDate DEF Agree
  <1>6. CASE \E l \in G : l.container = x
    <2>1. PICK l \in G : l.container = x
      BY <1>6
    <2> DEFINE r == l.receipted
               d == l.date
               k == 0 - r
    <2>2. /\ l \in Layer /\ r \in Nat /\ d \in Dates /\ k \in Int /\ l.quantity \in Nat
          /\ l.quantity <= r /\ (ForeignKeys => l.quantity = r)
      BY <1>1, LayerFields
    <2>3. TakenBack(G, x) = r
      BY <1>1, <2>1 DEF TakenBack
    <2>4. \A y \in Dates : TakenBackOn(G, x, y) = IF y = d THEN r ELSE 0
      BY <1>1, <2>1 DEF TakenBackOn, TakenBack
    <2>5. \A e \in Dates : Held(G, x, e, "units") = IF d <= e THEN l.quantity ELSE 0
      <3> TAKE e \in Dates
      <3>1. CASE d <= e
        <4>1. Kept(G, x, e) = {l}
          BY <1>1, <2>1, <3>1 DEF Kept
        <4>2. Held(G, x, e, "units") = l.quantity * Weight(l, "units")
          BY <2>2, <4>1, HeldOne
        <4>3. Weight(l, "units") = 1
          BY DEF Weight
        <4> QED BY <2>2, <3>1, <4>2, <4>3
      <3>2. CASE ~(d <= e)
        <4>1. Kept(G, x, e) = {}
          BY <1>1, <2>1, <3>2 DEF Kept
        <4> QED BY <3>2, <4>1, HeldNone
      <3> QED BY <3>1, <3>2
    <2> HIDE DEF d, r
    <2>6. onHand'[x] = onHand[x] + k
      BY <1>2, <1>3, <2>2, <2>3
    <2>7. Flow(balance', x)[d] = Flow(balance, x)[d] + k
      <3>1. balance[x][d] \in [in : Int, out : Nat]
        BY <1>3, <2>2 DEF Books
      <3>2. TakenBackOn(G, x, d) = r
        BY <2>2, <2>4
      <3>3. balance'[x][d].in = balance[x][d].in - r /\ balance'[x][d].out = balance[x][d].out
        BY <1>2, <2>2, <3>1, <3>2
      <3>4. /\ Flow(balance', x)[d] = balance'[x][d].in - balance'[x][d].out
            /\ Flow(balance, x)[d] = balance[x][d].in - balance[x][d].out
        BY <2>2 DEF Flow
      <3> QED BY <2>2, <3>1, <3>3, <3>4
    <2>8. \A y \in Dates \ {d} : Flow(balance', x)[y] = Flow(balance, x)[y]
      <3> TAKE y \in Dates \ {d}
      <3>1. balance[x][y] \in [in : Int, out : Nat]
        BY <1>3 DEF Books
      <3>2. TakenBackOn(G, x, y) = 0
        BY <2>4
      <3>3. balance'[x][y] = balance[x][y]
        BY <1>2, <3>1, <3>2
      <3> QED BY <3>3 DEF Flow
    <2>9. \A e \in Dates : Net(balance', x, e) = Net(balance, x, e) + IF d <= e THEN k ELSE 0
      <3> HIDE DEF k
      <3> QED BY <1>3, <2>2, <2>7, <2>8, NetMoved
    <2>10. LastDate \in Dates /\ d <= LastDate
      BY <2>2, LastIsDate
    <2>11. \A e \in Dates :
             /\ Held(layers, x, e, "units") \in Int
             /\ ~(d <= e) => Held(layers', x, e, "units") = Held(layers, x, e, "units")
             /\ d <= e => Held(layers', x, e, "units") = Held(layers, x, e, "units") - l.quantity
      <3> TAKE e \in Dates
      <3>1. /\ Held(layers', x, e, "units") = Held(layers, x, e, "units") - Held(G, x, e, "units")
            /\ Held(layers, x, e, "units") \in Int /\ Held(G, x, e, "units") \in Int
        BY <1>4
      <3>2. Held(G, x, e, "units") = IF d <= e THEN l.quantity ELSE 0
        BY <2>5
      <3>3. CASE d <= e
        BY <3>1, <3>2, <3>3
      <3>4. CASE ~(d <= e)
        BY <3>1, <3>2, <3>4
      <3> QED BY <3>3, <3>4
    <2>12. Held(layers', x, LastDate, "units") >= Held(layers, x, LastDate, "units") + k
      BY <2>2, <2>10, <2>11
    <2>13. ForeignKeys =>
             /\ Held(layers', x, LastDate, "units") = Held(layers, x, LastDate, "units") + k
             /\ \A e \in Dates : Held(layers', x, e, "units") <=
                   Held(layers, x, e, "units") + IF d <= e THEN k ELSE 0
      <3> SUFFICES ASSUME ForeignKeys
                   PROVE  /\ Held(layers', x, LastDate, "units") =
                               Held(layers, x, LastDate, "units") + k
                          /\ \A e \in Dates : Held(layers', x, e, "units") <=
                               Held(layers, x, e, "units") + IF d <= e THEN k ELSE 0
        OBVIOUS
      <3>1. l.quantity = r
        BY <2>2
      <3>2. Held(layers', x, LastDate, "units") = Held(layers, x, LastDate, "units") + k
        BY <2>2, <2>10, <2>11, <3>1
      <3>3. ASSUME NEW e \in Dates
            PROVE  Held(layers', x, e, "units") <=
                     Held(layers, x, e, "units") + IF d <= e THEN k ELSE 0
        <4>1. CASE d <= e
          BY <2>2, <2>11, <3>1, <4>1
        <4>2. CASE ~(d <= e)
          BY <2>11, <4>2
        <4> QED BY <4>1, <4>2
      <3> QED BY <3>2, <3>3
    <2> HIDE DEF k
    <2> QED BY <2>2, <2>6, <2>9, <2>12, <2>13, AgreeKept
  <1> QED BY <1>5, <1>6

\* A draw changes nothing of a layer but its quantity.
LEMMA DrawnLike ==
    ASSUME layers \subseteq Layer, NEW taken
    PROVE  \A n \in Drawn(taken) : \E l \in layers :
             /\ n = [l EXCEPT !.quantity = @ - Taken(taken, l)]
             /\ n.id = l.id /\ n.container = l.container /\ n.date = l.date
             /\ n.manual = l.manual /\ n.quantity = l.quantity - Taken(taken, l)
  BY DEF Drawn, Layer

LEMMA DrawnApart ==
    ASSUME layers \subseteq Layer, Apart, NEW taken
    PROVE  /\ \A n \in Drawn(taken) : n.manual <= n.id
           /\ \A n, k \in Drawn(taken) :
                n.manual # 0 /\ n.manual = k.manual /\ n.container = k.container => n = k
  <1>1. \A n \in Drawn(taken) : n.manual <= n.id
    BY DrawnLike DEF Apart
  <1>2. ASSUME NEW n \in Drawn(taken), NEW k \in Drawn(taken),
               n.manual # 0, n.manual = k.manual, n.container = k.container
        PROVE  n = k
    <2>1. PICK l \in layers : /\ n = [l EXCEPT !.quantity = @ - Taken(taken, l)]
                              /\ n.manual = l.manual /\ n.container = l.container
      BY DrawnLike
    <2>2. PICK j \in layers : /\ k = [j EXCEPT !.quantity = @ - Taken(taken, j)]
                              /\ k.manual = j.manual /\ k.container = j.container
      BY DrawnLike
    <2>3. l = j
      BY <1>2, <2>1, <2>2 DEF Apart
    <2> QED BY <2>1, <2>2, <2>3
  <1> QED BY <1>1, <1>2

LEMMA ApartStep ==
    ASSUME Sound, Apart, [Next]_vars
    PROVE  Apart'
  <1>0. layers \subseteq Layer /\ Good(layers, nextLayer) /\ nextLayer \in Nat
    BY SoundIsGood DEF Good
  <1>1. ASSUME layers' = layers PROVE Apart'
    BY <1>1 DEF Apart
  <1>2. ASSUME NEW c, NEW q, NEW d, NEW price, PutIn(c, q, d, price) PROVE Apart'
    <2> DEFINE l == NewLayer(nextLayer, c, d, price, q, 0)
    <2>1. layers' = layers \cup {l} /\ l.manual = 0 /\ l.id = nextLayer
      BY <1>2 DEF PutIn, NewLayer
    <2> HIDE DEF l
    <2>2. \A n \in layers' : n.manual <= n.id
      BY <1>0, <2>1 DEF Apart
    <2>3. \A n, k \in layers' :
            n.manual # 0 /\ n.manual = k.manual /\ n.container = k.container => n = k
      BY <2>1 DEF Apart
    <2> QED BY <2>2, <2>3 DEF Apart
  <1>3. ASSUME NEW c, NEW q, NEW d, TakeOut(c, q, d) PROVE Apart'
    <2>1. PICK taken : layers' = Drawn(taken)
      BY <1>3 DEF TakeOut
    <2> QED BY <1>0, <2>1, DrawnApart DEF Apart
  <1>4. ASSUME NEW from \in Containers, NEW to \in Containers, NEW q \in Quantities,
               NEW d \in Dates, AddTransferOrder(from, to, q, d)
        PROVE  Apart'
    <2>1. PICK taken, next, id : TransferBy(from, to, q, d, taken, next, id)
      BY <1>4, TransferSteps
    <2> DEFINE M == Moved(taken, id, to, d)
    <2>2. layers' = Drawn(taken) \cup M /\ DOMAIN taken = Open(from, d)
      BY <2>1 DEF TransferBy
    <2>3. \A l \in M : l.manual = 0 /\ l.id >= 0
      <3>1. \A l \in Open(from, d) : taken[l] > 0 => id[l] >= nextLayer
        BY <2>1, MovedFresh
      <3>2. Fresh(M, nextLayer, next)
        BY <2>1, MovedFresh
      <3>3. \A l \in M : l \in Layer /\ l.id >= 0
        BY <3>2, LayerFields DEF Fresh
      <3> QED BY <3>3 DEF Moved, NewLayer
    <2> HIDE DEF M
    <2>4. /\ \A n \in Drawn(taken) : n.manual <= n.id
          /\ \A n, k \in Drawn(taken) :
               n.manual # 0 /\ n.manual = k.manual /\ n.container = k.container => n = k
      BY <1>0, DrawnApart
    <2>5. \A n \in layers' : n.manual <= n.id
      BY <2>2, <2>3, <2>4
    <2>6. \A n, k \in layers' :
            n.manual # 0 /\ n.manual = k.manual /\ n.container = k.container => n = k
      BY <2>2, <2>3, <2>4
    <2> QED BY <2>5, <2>6 DEF Apart
  <1>5. ASSUME NEW cs \in SUBSET Containers, NEW d \in Dates, NEW price \in Prices,
               NEW lines \in [cs -> Quantities], AddGoodsReceiptManual(d, lines, price)
        PROVE  Apart'
    <2>1. PICK next, id : ReceiptBy(d, lines, price, next, id)
      BY <1>5, ReceiptSteps
    <2> DEFINE N == Rows(id, d, lines, price)
    <2>2. layers' = layers \cup N
      BY <2>1 DEF ReceiptBy
    <2>3. \A l \in N : l.manual = nextLayer /\ l.manual <= l.id
      <3>1. \A c \in cs : id[c] >= nextLayer
        BY <2>1, RowsFresh
      <3> QED BY <1>0, <3>1 DEF Rows, NewLayer
    <2>4. \A n, k \in N : n.container = k.container => n = k
      BY DEF Rows, NewLayer
    <2> HIDE DEF N
    <2>5. \A l \in layers : l.manual # nextLayer
      <3> TAKE l \in layers
      <3>1. l.manual <= l.id /\ l.id < nextLayer /\ l.id \in Nat /\ l.manual \in Nat
        BY <1>0, LayerFields DEF Apart, Good
      <3> QED BY <1>0, <3>1
    <2>6. \A n \in layers' : n.manual <= n.id
      BY <2>2, <2>3 DEF Apart
    <2>7. \A n, k \in layers' :
            n.manual # 0 /\ n.manual = k.manual /\ n.container = k.container => n = k
      BY <2>2, <2>3, <2>4, <2>5 DEF Apart
    <2> QED BY <2>6, <2>7 DEF Apart
  <1>6. ASSUME NEW m, DeleteGoodsReceiptManual(m) PROVE Apart'
    BY <1>6 DEF DeleteGoodsReceiptManual, Apart
  <1>7. CASE UNCHANGED vars
    BY <1>1, <1>7 DEF vars
  <1> QED
    BY <1>1, <1>2, <1>3, <1>4, <1>5, <1>6, <1>7
    DEF Next, ManualReceipt, AddGoodsIssue, AddPurchaseItem, AddGoodsReceipt, AdjustIn, AdjustOut

AllAgree == \A c \in Containers : Agree(c)

LEMMA AgreeStep ==
    ASSUME Inv, Sound', Apart, AllAgree, [Next]_vars
    PROVE  AllAgree'
  <1> SUFFICES ASSUME NEW x \in Containers PROVE Agree(x)'
    BY DEF AllAgree
  <1>0. Sound /\ Agree(x)
    BY DEF Inv, AllAgree
  <1>1. ASSUME onHand' = onHand, layers' = layers, balance' = balance PROVE Agree(x)'
    BY <1>0, <1>1 DEF Agree
  <1>2. CASE UNCHANGED vars
    BY <1>1, <1>2 DEF vars
  <1>3. ASSUME NEW p \in PurchaseItems, NEW q \in Quantities, NEW d \in Dates,
               NEW price \in Prices, AddPurchaseItem(p, q, d, price)
        PROVE  Agree(x)'
    BY <1>1, <1>3 DEF AddPurchaseItem
  <1>4. ASSUME NEW p \in PurchaseItems, NEW c \in Containers, NEW q \in Quantities,
               NEW d \in Dates, AddGoodsReceipt(p, c, q, d)
        PROVE  Agree(x)'
    <2>1. purchases[p].price \in Prices
      BY <1>4, BoundFacts DEF AddGoodsReceipt, Inv, PurchasePrices, Quantities, Sound, TypeOK,
         TransactionItem
    <2> QED BY <1>0, <1>4, <2>1, PutInAgrees DEF AddGoodsReceipt
  <1>5. CASE ManualReceipt
    BY <1>0, <1>5, RowsAgree DEF ManualReceipt
  <1>6. ASSUME NEW m \in LayerIds, DeleteGoodsReceiptManual(m) PROVE Agree(x)'
    BY <1>0, <1>6, DeleteAgrees
  <1>7. ASSUME NEW c \in Containers, NEW q \in Quantities, NEW d \in Dates, TakeOut(c, q, d)
        PROVE  Agree(x)'
    BY <1>0, <1>7, TakeOutAgrees
  <1>8. ASSUME NEW from \in Containers, NEW to \in Containers, NEW q \in Quantities,
               NEW d \in Dates, AddTransferOrder(from, to, q, d)
        PROVE  Agree(x)'
    BY <1>0, <1>8, TransferAgrees
  <1>9. ASSUME NEW c \in Containers, NEW q \in Quantities, NEW d \in Dates,
               NEW price \in Prices, AdjustIn(c, q, d, price)
        PROVE  Agree(x)'
    BY <1>0, <1>9, PutInAgrees DEF AdjustIn
  <1> QED
    BY <1>2, <1>3, <1>4, <1>5, <1>6, <1>7, <1>8, <1>9, OrderedQuantities
    DEF Next, AddGoodsIssue, AdjustOut

LEMMA AgreeInit == Init => Apart /\ AllAgree
  <1> SUFFICES ASSUME Init PROVE Apart /\ AllAgree
    OBVIOUS
  <1>1. layers = {} /\ Apart
    BY DEF Init, Apart
  <1>2. ASSUME NEW c \in Containers PROVE Agree(c)
    <2>1. \A e \in Dates : Held(layers, c, e, "units") = 0
      <3>1. \A e \in Dates : Kept(layers, c, e) = {}
        BY <1>1 DEF Kept
      <3> QED BY <3>1, HeldNone
    <2>2. \A e \in Dates : Net(balance, c, e) = 0
      <3> TAKE e \in Dates
      <3>1. \A y \in Dates : Flow(balance, c)[y] = 0
        BY DEF Init, Flow
      <3>2. \A y \in 1..e : Flow(balance, c)[y] = 0
        BY <3>1, UpTo
      <3> QED BY <3>2, UpTo, SumZeros DEF Net
    <2>3. onHand[c] = 0
      BY DEF Init
    <2>4. LastDate \in Dates
      BY LastIsDate
    <2> QED BY <2>1, <2>2, <2>3, <2>4 DEF Agree
  <1> QED BY <1>1, <1>2 DEF AllAgree

LEMMA AgreeInductive == Spec => [](Inv /\ Apart /\ AllAgree)
  <1>1. Init => Inv /\ Apart /\ AllAgree
    BY InitInv, AgreeInit
  <1>2. Inv /\ Apart /\ AllAgree /\ [Next]_vars => (Inv /\ Apart /\ AllAgree)'
    <2> SUFFICES ASSUME Inv, Apart, AllAgree, [Next]_vars PROVE Inv' /\ Apart' /\ AllAgree'
      OBVIOUS
    <2>1. Inv'
      BY PurchasesStep, SoundStep DEF Inv
    <2>2. Sound /\ Sound'
      BY <2>1 DEF Inv
    <2> QED BY <2>1, <2>2, ApartStep, AgreeStep
  <1> QED BY <1>1, <1>2, PTL DEF Spec

LEMMA InLayersHeld ==
    ASSUME Sound, NEW c \in Containers
    PROVE  /\ InLayers(c) = Held(layers, c, LastDate, "units")
           /\ ValueInLayers(c) = Held(layers, c, LastDate, "value")
  <1> DEFINE K == LayersIn(c)
             f == [l \in K |-> l.quantity]
             g == [l \in K |-> l.quantity * l.price]
  <1>1. layers \subseteq Layer /\ IsFiniteSet(layers)
    BY SoundIsGood, GoodFinite DEF Good
  <1>2. K = Kept(layers, c, LastDate)
    <2>1. \A l \in layers : l.date <= LastDate
      BY <1>1, LayerFields, LastIsDate
    <2> QED BY <2>1 DEF LayersIn, Kept
  <1>3. IsFiniteSet(K) /\ K \subseteq Layer
    BY <1>1, <1>2, KeptFinite
  <1>4. \A l \in K : f[l] = Worth("units")[l] /\ g[l] = Worth("value")[l]
    <2> TAKE l \in K
    <2>1. l \in Layer /\ l.quantity \in Nat
      BY <1>3, LayerFields
    <2>2. Worth("units")[l] = l.quantity * 1 /\ Worth("value")[l] = l.quantity * l.price
      BY <2>1 DEF Worth, Weight
    <2> QED BY <2>1, <2>2
  <1>5. InLayers(c) = SumFunctionOnSet(f, K) /\ ValueInLayers(c) = SumFunctionOnSet(g, K)
    BY DEF InLayers, ValueInLayers, SumFunction
  <1> HIDE DEF K, f, g
  <1>6. SumFunctionOnSet(f, K) = SumFunctionOnSet(Worth("units"), K)
    BY ONLY <1>3, <1>4, SumEqual
  <1>7. SumFunctionOnSet(g, K) = SumFunctionOnSet(Worth("value"), K)
    BY ONLY <1>3, <1>4, SumEqual
  <1> QED BY <1>2, <1>5, <1>6, <1>7 DEF Held

\* Whatever documents are added and reversed, the InventoryItem row is what
\* the monthly balances add up to, and with foreign keys it is what the open
\* batches hold: the helpers that write them never drift apart.
THEOREM RecordsAlwaysAgree == Spec => []RecordsAgree
  <1>1. Inv /\ Apart /\ AllAgree => RecordsAgree
    <2> SUFFICES ASSUME Inv, AllAgree PROVE RecordsAgree
      OBVIOUS
    <2>1. Sound
      BY DEF Inv
    <2> QED
      BY <2>1, InLayersHeld, LastIsDate, NetUpToIsNet
      DEF RecordsAgree, OnHandEqualsLayers, OnHandMatchesBalance, AllAgree, Agree
  <1> QED BY AgreeInductive, <1>1, PTL

\* Nothing on hand is without an open batch, with or without foreign keys.
THEOREM EveryItemHasItsBatch == Spec => []OnHandCovered
  <1>1. Inv /\ Apart /\ AllAgree => OnHandCovered
    BY InLayersHeld DEF Inv, OnHandCovered, AllAgree, Agree
  <1> QED BY AgreeInductive, <1>1, PTL

\* With foreign keys the stock card is never negative at the end of a month,
\* in whatever order of dates documents are entered: an issue only draws from
\* batches dated no later than itself.
THEOREM StockCardIsNeverNegative == Spec => []StockCardNeverNegative
  <1>1. Inv /\ Apart /\ AllAgree => StockCardNeverNegative
    <2> SUFFICES ASSUME Inv, AllAgree, ForeignKeys, NEW c \in Containers, NEW d \in Dates
                 PROVE  NetUpTo(c, d) >= 0
      BY DEF StockCardNeverNegative
    <2>1. layers \subseteq Layer /\ IsFiniteSet(layers) /\ balance \in Books
      BY SoundIsGood, GoodFinite DEF Inv, Good, Sound, TypeOK
    <2>2. Held(layers, c, d, "units") \in Int /\ Held(layers, c, d, "units") >= 0
      BY <2>1, HeldNat
    <2>3. Held(layers, c, d, "units") <= Net(balance, c, d)
      BY DEF AllAgree, Agree
    <2>4. Net(balance, c, d) \in Int /\ NetUpTo(c, d) = Net(balance, c, d)
      BY <2>1, NetInt, NetUpToIsNet
    <2> QED BY <2>2, <2>3, <2>4
  <1> QED BY AgreeInductive, <1>1, PTL

----------------------------------------------------------------------------
(* The value of the detail rows. *)

\* No layer was ever taken away.
Complete == \A i \in 1..(nextLayer - 1) : \E l \in layers : l.id = i

Valued(c) == ledger[c] = Held(layers, c, LastDate, "value")

AllValued ==
    /\ ledger \in [Containers -> Int]
    /\ Complete => \A c \in Containers : Valued(c)

LEMMA CompleteByNumber ==
    ASSUME Sound, Cardinality(layers) = nextLayer - 1
    PROVE  Complete
  <1> DEFINE f == [l \in layers |-> l.id]
             n == nextLayer - 1
  <1>1. nextLayer \in Nat /\ nextLayer >= 1 /\ n \in Nat
    BY SoundIsGood DEF Sound, TypeOK
  <1>2. \A l \in layers : l.id \in 1..n
    <2> TAKE l \in layers
    <2>1. l.id \in Nat /\ l.id >= 1 /\ l.id < nextLayer
      BY SoundIsGood, LayerFields DEF Good
    <2> QED BY <1>1, <2>1
  <1>3. f \in Injection(layers, 1..n)
    BY <1>2, SoundIsGood DEF Good, Injection, IsInjective
  <1>4. IsFiniteSet(1..n) /\ Cardinality(1..n) = n
    BY <1>1, FS_Interval
  <1>5. Cardinality(layers) = n
    OBVIOUS
  <1> HIDE DEF f, n
  <1>6. f \in Surjection(layers, 1..n)
    BY <1>3, <1>4, <1>5, FS_Injection
  <1>7. \A i \in 1..n : \E l \in layers : f[l] = i
    BY <1>6 DEF Surjection
  <1> QED BY <1>7 DEF Complete, f, n

LEMMA CompleteFrom ==
    ASSUME NEW old, NEW n \in Nat, NEW new, NEW k \in Nat, n <= k,
           \A i \in 1..(k - 1) : \E l \in new : l.id = i,
           \A j \in new : (j.id \in Nat /\ j.id >= n) \/ \E l \in old : j.id = l.id
    PROVE  \A i \in 1..(n - 1) : \E l \in old : l.id = i
  <1> TAKE i \in 1..(n - 1)
  <1>1. i \in Int /\ 1 <= i /\ i < n /\ i <= k - 1
    OBVIOUS
  <1>2. PICK j \in new : j.id = i
    BY <1>1
  <1>3. ~(j.id >= n)
    BY <1>1, <1>2
  <1> QED BY <1>2, <1>3

\* What is complete after a document was complete before it, and a document
\* that takes layers away leaves a gap.
LEMMA CompleteBefore ==
    ASSUME Sound, [Next]_vars, Complete'
    PROVE  Complete
  <1>0. layers \subseteq Layer /\ nextLayer \in Nat
    BY SoundIsGood DEF Good
  <1>1. ASSUME nextLayer' \in Nat, nextLayer <= nextLayer',
               \A j \in layers' :
                 (j.id \in Nat /\ j.id >= nextLayer) \/ \E l \in layers : j.id = l.id
        PROVE  Complete
    <2>1. \A i \in 1..(nextLayer' - 1) : \E l \in layers' : l.id = i
      BY DEF Complete
    <2>2. \A i \in 1..(nextLayer - 1) : \E l \in layers : l.id = i
      BY ONLY <1>0, <1>1, <2>1, CompleteFrom
    <2> QED BY <2>2 DEF Complete
  <1>2. ASSUME nextLayer' = nextLayer, \A j \in layers' : \E l \in layers : j.id = l.id
        PROVE  Complete
    <2>1. nextLayer' \in Nat /\ nextLayer <= nextLayer'
      BY <1>0, <1>2
    <2> QED BY <1>1, <1>2, <2>1
  <1>3. ASSUME NEW c \in Containers, NEW q \in Quantities, NEW d \in Dates,
               NEW price \in Prices, PutIn(c, q, d, price)
        PROVE  Complete
    <2> DEFINE N == {NewLayer(nextLayer, c, d, price, q, 0)}
    <2>1. layers' = layers \cup N /\ nextLayer' = nextLayer + 1
      BY <1>3 DEF PutIn
    <2>2. \A n \in N : n.id = nextLayer
      BY DEF NewLayer
    <2> HIDE DEF N
    <2> QED BY <1>0, <1>1, <2>1, <2>2
  <1>4. ASSUME NEW c, NEW q, NEW d, TakeOut(c, q, d) PROVE Complete
    <2>1. PICK taken : layers' = Drawn(taken) /\ nextLayer' = nextLayer
      BY <1>4 DEF TakeOut
    <2> QED BY <1>0, <1>2, <2>1, DrawnLike
  <1>5. ASSUME NEW from \in Containers, NEW to \in Containers, NEW q \in Quantities,
               NEW d \in Dates, AddTransferOrder(from, to, q, d)
        PROVE  Complete
    <2>1. PICK taken, next, id : TransferBy(from, to, q, d, taken, next, id)
      BY <1>5, TransferSteps
    <2> DEFINE M == Moved(taken, id, to, d)
    <2>2. /\ layers' = Drawn(taken) \cup M /\ nextLayer' = next
          /\ next \in Nat /\ nextLayer <= next /\ Fresh(M, nextLayer, next)
      BY <2>1, MovedFresh DEF TransferBy
    <2> HIDE DEF M
    <2>3. \A n \in M : n.id \in Nat /\ n.id >= nextLayer
      BY <1>0, <2>2, LayerFields DEF Fresh
    <2> QED BY <1>0, <1>1, <2>2, <2>3, DrawnLike
  <1>6. ASSUME NEW cs \in SUBSET Containers, NEW d \in Dates, NEW price \in Prices,
               NEW lines \in [cs -> Quantities], AddGoodsReceiptManual(d, lines, price)
        PROVE  Complete
    <2>1. PICK next, id : ReceiptBy(d, lines, price, next, id)
      BY <1>6, ReceiptSteps
    <2> DEFINE N == Rows(id, d, lines, price)
    <2>2. /\ layers' = layers \cup N /\ nextLayer' = next
          /\ next \in Nat /\ nextLayer <= next /\ Fresh(N, nextLayer, next)
      BY <2>1, RowsFresh DEF ReceiptBy
    <2> HIDE DEF N
    <2>3. \A n \in N : n.id \in Nat /\ n.id >= nextLayer
      BY <1>0, <2>2, LayerFields DEF Fresh
    <2> QED BY <1>0, <1>1, <2>2, <2>3
  <1>7. ASSUME NEW m, DeleteGoodsReceiptManual(m) PROVE Complete
    BY <1>2, <1>7 DEF DeleteGoodsReceiptManual
  <1>8. ASSUME layers' = layers, nextLayer' = nextLayer PROVE Complete
    BY <1>2, <1>8
  <1>9. ASSUME NEW p \in PurchaseItems, NEW c \in Containers, NEW q \in Quantities,
               NEW d \in Dates, AddGoodsReceipt(p, c, q, d)
        PROVE  Complete
    <2> DEFINE N == {NewLayer(nextLayer, c, d, purchases[p].price, q, 0)}
    <2>1. layers' = layers \cup N /\ nextLayer' = nextLayer + 1
      BY <1>9 DEF AddGoodsReceipt, PutIn
    <2>2. \A n \in N : n.id = nextLayer
      BY DEF NewLayer
    <2> HIDE DEF N
    <2> QED BY <1>0, <1>1, <2>1, <2>2
  <1>10. CASE UNCHANGED vars
    BY <1>8, <1>10 DEF vars
  <1> QED
    BY <1>3, <1>4, <1>5, <1>6, <1>7, <1>8, <1>9, <1>10
    DEF Next, ManualReceipt, AddGoodsIssue, AddPurchaseItem, AdjustIn, AdjustOut

LEMMA DeleteLeavesGap ==
    ASSUME Sound, NEW m, DeleteGoodsReceiptManual(m), Complete'
    PROVE  Reversed(m) = {}
  <1> SUFFICES ASSUME NEW l \in Reversed(m) PROVE FALSE
    OBVIOUS
  <1>1. l \in layers /\ layers' = layers \ Reversed(m) /\ nextLayer' = nextLayer
    BY DEF Reversed, ReceiptOf, DeleteGoodsReceiptManual
  <1>2. /\ l.id \in Nat /\ l.id >= 1 /\ l.id < nextLayer /\ nextLayer \in Nat
        /\ \A j, n \in layers : j.id = n.id => j = n
    BY <1>1, SoundIsGood, LayerFields DEF Good
  <1>3. l.id \in 1..(nextLayer' - 1)
    BY <1>1, <1>2
  <1>4. PICK n \in layers' : n.id = l.id
    BY <1>3 DEF Complete
  <1> QED BY <1>1, <1>2, <1>4

LEMMA PutInValued ==
    ASSUME Sound, AllValued, NEW c \in Containers, NEW q \in Quantities, NEW d \in Dates,
           NEW price \in Prices, PutIn(c, q, d, price)
    PROVE  /\ ledger' \in [Containers -> Int]
           /\ \A x \in Containers : Valued(x) => Valued(x)'
  <1>1. q \in Nat /\ price \in Nat /\ q * price \in Nat
    <2>1. q \in Nat /\ price \in Nat
      BY BoundFacts DEF Quantities
    <2> QED BY <2>1, ProductNat
  <1>2. ledger' = [ledger EXCEPT ![c] = @ + q * price] /\ ledger \in [Containers -> Int]
    BY DEF PutIn, AllValued
  <1>3. ledger' \in [Containers -> Int]
    BY <1>1, <1>2
  <1>4. ASSUME NEW x \in Containers, Valued(x) PROVE Valued(x)'
    <2>1. LastDate \in Dates /\ d <= LastDate
      BY LastIsDate
    <2>2. Held(layers', x, LastDate, "value") = Held(layers, x, LastDate, "value") +
             IF x = c /\ d <= LastDate THEN Amount(q, price, "value") ELSE 0
      BY <2>1, PutInHolds
    <2>3. Amount(q, price, "value") = q * price
      BY <1>1, AmountOf
    <2>4. ledger[x] = Held(layers, x, LastDate, "value") /\ ledger[x] \in Int
      BY <1>2, <1>4 DEF Valued
    <2>5. CASE x = c
      BY <1>1, <1>2, <2>1, <2>2, <2>3, <2>4, <2>5 DEF Valued
    <2>6. CASE x # c
      BY <1>2, <2>2, <2>4, <2>6 DEF Valued
    <2> QED BY <2>5, <2>6
  <1> QED BY <1>3, <1>4

LEMMA RowsValued ==
    ASSUME Sound, AllValued, NEW cs \in SUBSET Containers, NEW d \in Dates, NEW price \in Prices,
           NEW lines \in [cs -> Quantities], AddGoodsReceiptManual(d, lines, price)
    PROVE  /\ ledger' \in [Containers -> Int]
           /\ \A x \in Containers : Valued(x) => Valued(x)'
  <1>1. \A x \in cs : lines[x] \in Nat /\ lines[x] * price \in Nat
    <2>1. price \in Nat /\ \A x \in cs : lines[x] \in Nat
      BY BoundFacts DEF Quantities
    <2> QED BY <2>1, ProductNat
  <1>2. /\ ledger \in [Containers -> Int]
        /\ ledger' = [x \in Containers |->
             IF x \in cs THEN ledger[x] + lines[x] * price ELSE ledger[x]]
    BY DEF AddGoodsReceiptManual, AllValued
  <1>3. ledger' \in [Containers -> Int]
    BY <1>1, <1>2
  <1>4. ASSUME NEW x \in Containers, Valued(x) PROVE Valued(x)'
    <2>1. LastDate \in Dates /\ d <= LastDate
      BY LastIsDate
    <2>0. PICK next, id : ReceiptBy(d, lines, price, next, id)
      BY ReceiptSteps
    <2>2. Held(layers', x, LastDate, "value") = Held(layers, x, LastDate, "value") +
             IF x \in cs /\ d <= LastDate THEN Amount(lines[x], price, "value") ELSE 0
      BY <2>0, <2>1, RowsHolds
    <2>3. x \in cs => Amount(lines[x], price, "value") = lines[x] * price
      BY <1>1, AmountOf
    <2>4. ledger[x] = Held(layers, x, LastDate, "value") /\ ledger[x] \in Int
      BY <1>2, <1>4 DEF Valued
    <2>5. CASE x \in cs
      BY <1>1, <1>2, <2>1, <2>2, <2>3, <2>4, <2>5 DEF Valued
    <2>6. CASE x \notin cs
      BY <1>2, <2>2, <2>4, <2>6 DEF Valued
    <2> QED BY <2>5, <2>6
  <1> QED BY <1>3, <1>4

\* What a draw costs is the value it takes from the layers.
LEMMA DrawCosts ==
    ASSUME Sound, NEW c \in Containers, NEW q \in Quantities, NEW d \in Dates,
           NEW taken \in [Open(c, d) -> 0..q], Draws(taken, q)
    PROVE  /\ Cost(taken) \in Nat
           /\ Spent(taken, "value") = Cost(taken)
           /\ \A x \in Containers :
                /\ Held(layers, x, LastDate, "value") \in Int
                /\ Held(Drawn(taken), x, LastDate, "value") \in Int
                /\ Held(Drawn(taken), x, LastDate, "value") =
                     Held(layers, x, LastDate, "value") - IF x = c THEN Cost(taken) ELSE 0
  <1>1. q \in Nat /\ Good(layers, nextLayer) /\ nextLayer \in Nat
    BY SoundIsGood, BoundFacts DEF Quantities
  <1>2. IsFiniteSet(Open(c, d)) /\ Open(c, d) \subseteq Layer
    <2>1. Open(c, d) \subseteq layers
      BY DEF Open
    <2> QED BY <1>1, <2>1, GoodFinite, FS_Subset DEF Good
  <1>3. Spent(taken, "value") = Cost(taken)
    BY <1>1, <1>2, SpentCost
  <1>4. ASSUME NEW x \in Containers
        PROVE  /\ Cost(taken) \in Nat
               /\ Held(layers, x, LastDate, "value") \in Int
               /\ Held(Drawn(taken), x, LastDate, "value") \in Int
               /\ Held(Drawn(taken), x, LastDate, "value") =
                    Held(layers, x, LastDate, "value") - IF x = c THEN Cost(taken) ELSE 0
    <2>1. LastDate \in Dates /\ d <= LastDate
      BY LastIsDate
    <2>2. /\ Held(Drawn(taken), x, LastDate, "value") \in Int
          /\ Held(layers, x, LastDate, "value") \in Int
          /\ Spent(taken, "value") \in Nat
          /\ x # c => Held(Drawn(taken), x, LastDate, "value") =
                        Held(layers, x, LastDate, "value")
          /\ x = c /\ d <= LastDate =>
               Held(Drawn(taken), x, LastDate, "value") =
                 Held(layers, x, LastDate, "value") - Spent(taken, "value")
      BY <1>1, <2>1, DrawnHolds
    <2> QED BY <1>3, <2>1, <2>2
  <1> QED BY <1>3, <1>4

LEMMA TakeOutValued ==
    ASSUME Sound, AllValued, NEW c \in Containers, NEW q \in Quantities, NEW d \in Dates,
           TakeOut(c, q, d)
    PROVE  /\ ledger' \in [Containers -> Int]
           /\ \A x \in Containers : Valued(x) => Valued(x)'
  <1>1. PICK taken \in [Open(c, d) -> 0..q] :
          /\ Draws(taken, q)
          /\ layers' = Drawn(taken)
          /\ ledger' = [ledger EXCEPT ![c] = @ - Cost(taken)]
    BY DEF TakeOut
  <1>2. /\ Cost(taken) \in Nat
        /\ \A x \in Containers :
             /\ Held(layers, x, LastDate, "value") \in Int
             /\ Held(Drawn(taken), x, LastDate, "value") =
                  Held(layers, x, LastDate, "value") - IF x = c THEN Cost(taken) ELSE 0
    BY <1>1, DrawCosts
  <1>3. ledger \in [Containers -> Int]
    BY DEF AllValued
  <1>4. ledger' \in [Containers -> Int]
    BY <1>1, <1>2, <1>3
  <1>5. ASSUME NEW x \in Containers, Valued(x) PROVE Valued(x)'
    <2>1. ledger[x] = Held(layers, x, LastDate, "value") /\ ledger[x] \in Int
      BY <1>3, <1>5 DEF Valued
    <2>2. ledger'[x] = ledger[x] - IF x = c THEN Cost(taken) ELSE 0
      BY <1>1, <1>2, <1>3, <2>1
    <2>3. Held(layers', x, LastDate, "value") =
            Held(layers, x, LastDate, "value") - IF x = c THEN Cost(taken) ELSE 0
      BY <1>1, <1>2
    <2> QED BY <2>1, <2>2, <2>3 DEF Valued
  <1> QED BY <1>4, <1>5

LEMMA TransferValued ==
    ASSUME Sound, AllValued, NEW from \in Containers, NEW to \in Containers,
           NEW q \in Quantities, NEW d \in Dates, AddTransferOrder(from, to, q, d)
    PROVE  /\ ledger' \in [Containers -> Int]
           /\ \A x \in Containers : Valued(x) => Valued(x)'
  <1>1. PICK taken, next, id : TransferBy(from, to, q, d, taken, next, id)
    BY TransferSteps
  <1>2. taken \in [Open(from, d) -> 0..q] /\ Draws(taken, q)
    BY <1>1 DEF TransferBy
  <1> DEFINE cost == Cost(taken)
             less == [ledger EXCEPT ![from] = @ - cost]
  <1>3. /\ cost \in Nat /\ Spent(taken, "value") = cost
        /\ \A x \in Containers :
             /\ Held(layers, x, LastDate, "value") \in Int
             /\ Held(Drawn(taken), x, LastDate, "value") \in Int
             /\ Held(Drawn(taken), x, LastDate, "value") =
                  Held(layers, x, LastDate, "value") - IF x = from THEN cost ELSE 0
    BY <1>2, DrawCosts
  <1>4. ledger \in [Containers -> Int]
    BY DEF AllValued
  <1>5. ledger' = [less EXCEPT ![to] = @ + cost] /\ DOMAIN less = Containers
    BY <1>1, <1>4 DEF TransferBy
  <1>6. \A x \in Containers : /\ less[x] = ledger[x] - (IF x = from THEN cost ELSE 0)
                               /\ less[x] \in Int /\ ledger[x] \in Int
    <2> HIDE DEF cost
    <2> QED BY <1>3, <1>4
  <1> HIDE DEF less, cost
  <1>7. \A x \in Containers : ledger'[x] = less[x] + (IF x = to THEN cost ELSE 0)
    BY <1>3, <1>5, <1>6
  <1>8. ledger' \in [Containers -> Int]
    <2>1. \A x \in Containers : ledger'[x] \in Int
      BY <1>3, <1>6, <1>7
    <2> QED BY <1>5, <1>6, <1>3, <2>1 DEF less
  <1>9. ASSUME NEW x \in Containers, Valued(x) PROVE Valued(x)'
    <2>1. ledger[x] = Held(layers, x, LastDate, "value") /\ ledger[x] \in Int
      BY <1>4, <1>9 DEF Valued
    <2>2. LastDate \in Dates /\ d <= LastDate
      BY LastIsDate
    <2>3. Held(layers', x, LastDate, "value") = Held(Drawn(taken), x, LastDate, "value") +
             IF x = to /\ d <= LastDate THEN Spent(taken, "value") ELSE 0
      BY <1>1, <2>2, TransferHolds
    <2>4. Held(layers', x, LastDate, "value") = Held(Drawn(taken), x, LastDate, "value") +
             IF x = to THEN cost ELSE 0
      BY <1>3, <2>2, <2>3
    <2>5. Held(Drawn(taken), x, LastDate, "value") =
            ledger[x] - IF x = from THEN cost ELSE 0
      BY <1>3, <2>1
    <2>6. ledger'[x] = Held(layers', x, LastDate, "value")
      BY <1>6, <1>7, <2>4, <2>5
    <2> QED BY <2>6 DEF Valued
  <1> QED BY <1>8, <1>9

LEMMA DeleteValued ==
    ASSUME Sound, Apart, AllValued, NEW m \in LayerIds, DeleteGoodsReceiptManual(m)
    PROVE  /\ ledger' \in [Containers -> Int]
           /\ Complete' => \A x \in Containers : Valued(x) => Valued(x)'
  <1> DEFINE G == Reversed(m)
  <1>1. /\ ledger' = [c \in Containers |-> ledger[c] - ValueBack(G, c)]
        /\ layers' = layers \ G /\ ledger \in [Containers -> Int]
    BY DEF DeleteGoodsReceiptManual, AllValued
  <1>2. \A c \in Containers : ValueBack(G, c) \in Int
    <2> TAKE c \in Containers
    <2>1. G \subseteq Layer
      BY ReversedApart
    <2> HIDE DEF G
    <2>2. CASE \E l \in G : l.container = c
      <3> DEFINE l == CHOOSE j \in G : j.container = c
      <3>1. l \in Layer
        BY <2>1, <2>2
      <3>2. ValueBack(G, c) = l.receipted * (l.price * l.receipted)
        BY <2>2 DEF ValueBack
      <3> HIDE DEF l
      <3>3. l.receipted \in Nat /\ l.price \in Nat
        BY <3>1, LayerFields
      <3>4. l.price * l.receipted \in Nat
        BY <3>3, ProductNat
      <3>5. l.receipted * (l.price * l.receipted) \in Nat
        BY <3>3, <3>4, ProductNat
      <3> QED BY <3>2, <3>5
    <2>3. CASE ~ \E l \in G : l.container = c
      BY <2>3 DEF ValueBack
    <2> QED BY <2>2, <2>3
  <1>3. ledger' \in [Containers -> Int]
    <2> HIDE DEF G
    <2> QED BY <1>1, <1>2
  <1>4. ASSUME Complete', NEW x \in Containers, Valued(x) PROVE Valued(x)'
    <2>1. G = {}
      BY <1>4, DeleteLeavesGap
    <2> HIDE DEF G
    <2>2. ValueBack(G, x) = 0 /\ layers' = layers
      BY <1>1, <2>1 DEF ValueBack
    <2>3. ledger'[x] = ledger[x]
      BY <1>1, <2>2
    <2> QED BY <1>4, <2>2, <2>3 DEF Valued
  <1> QED BY <1>3, <1>4

LEMMA ValuedStep ==
    ASSUME Inv, Apart, AllValued, [Next]_vars
    PROVE  AllValued'
  <1>0. Sound /\ (Complete' => Complete) /\ (Complete => \A x \in Containers : Valued(x))
    BY CompleteBefore DEF Inv, AllValued
  <1>1. ASSUME ledger' \in [Containers -> Int],
               Complete' => \A x \in Containers : Valued(x) => Valued(x)'
        PROVE  AllValued'
    BY <1>0, <1>1 DEF AllValued
  <1>2. ASSUME ledger' = ledger, layers' = layers PROVE AllValued'
    BY <1>1, <1>2 DEF AllValued, Valued
  <1>3. CASE UNCHANGED vars
    BY <1>2, <1>3 DEF vars
  <1>4. ASSUME NEW p \in PurchaseItems, NEW q \in Quantities, NEW d \in Dates,
               NEW price \in Prices, AddPurchaseItem(p, q, d, price)
        PROVE  AllValued'
    BY <1>2, <1>4 DEF AddPurchaseItem
  <1>5. ASSUME NEW p \in PurchaseItems, NEW c \in Containers, NEW q \in Quantities,
               NEW d \in Dates, AddGoodsReceipt(p, c, q, d)
        PROVE  AllValued'
    <2>1. purchases[p].price \in Prices
      BY <1>5, BoundFacts DEF AddGoodsReceipt, Inv, PurchasePrices, Quantities, Sound, TypeOK,
         TransactionItem
    <2>2. PutIn(c, q, d, purchases[p].price)
      BY <1>5 DEF AddGoodsReceipt
    <2> QED BY <1>0, <1>1, <2>1, <2>2, PutInValued
  <1>6. CASE ManualReceipt
    <2>1. PICK cs \in SUBSET Containers, d \in Dates, price \in Prices :
            \E lines \in [cs -> Quantities] : AddGoodsReceiptManual(d, lines, price)
      BY <1>6 DEF ManualReceipt
    <2> QED BY <1>0, <1>1, <2>1, RowsValued
  <1>7. ASSUME NEW m \in LayerIds, DeleteGoodsReceiptManual(m) PROVE AllValued'
    BY <1>0, <1>1, <1>7, DeleteValued
  <1>8. ASSUME NEW c \in Containers, NEW q \in Quantities, NEW d \in Dates, TakeOut(c, q, d)
        PROVE  AllValued'
    BY <1>0, <1>1, <1>8, TakeOutValued
  <1>9. ASSUME NEW from \in Containers, NEW to \in Containers, NEW q \in Quantities,
               NEW d \in Dates, AddTransferOrder(from, to, q, d)
        PROVE  AllValued'
    BY <1>0, <1>1, <1>9, TransferValued
  <1>10. ASSUME NEW c \in Containers, NEW q \in Quantities, NEW d \in Dates,
                NEW price \in Prices, AdjustIn(c, q, d, price)
         PROVE  AllValued'
    BY <1>0, <1>1, <1>10, PutInValued DEF AdjustIn
  <1> QED
    BY <1>3, <1>4, <1>5, <1>6, <1>7, <1>8, <1>9, <1>10, OrderedQuantities
    DEF Next, AddGoodsIssue, AdjustOut

LEMMA ValuedInit == Init => AllValued
  <1> SUFFICES ASSUME Init PROVE AllValued
    OBVIOUS
  <1>1. ledger \in [Containers -> Int] /\ layers = {}
    BY DEF Init
  <1>2. ASSUME NEW c \in Containers PROVE Valued(c)
    <2>1. Kept(layers, c, LastDate) = {}
      BY <1>1 DEF Kept
    <2>2. Held(layers, c, LastDate, "value") = 0
      BY <2>1, HeldNone
    <2> QED BY <2>2 DEF Init, Valued
  <1> QED BY <1>1, <1>2 DEF AllValued

\* As long as nothing was reversed, the detail rows and the open batches put
\* the same value on the goods of a container: draws and transfers take every
\* unit at the price its batch came with.
THEOREM LedgerIsTheLayers == Spec => []LedgerMatchesLayers
  <1>1. Init => Inv /\ Apart /\ AllValued
    BY InitInv, AgreeInit, ValuedInit
  <1>2. Inv /\ Apart /\ AllValued /\ [Next]_vars => (Inv /\ Apart /\ AllValued)'
    <2> SUFFICES ASSUME Inv, Apart, AllValued, [Next]_vars PROVE Inv' /\ Apart' /\ AllValued'
      OBVIOUS
    <2>1. Inv'
      BY PurchasesStep, SoundStep DEF Inv
    <2> QED BY <2>1, ApartStep, ValuedStep DEF Inv
  <1>3. Inv /\ Apart /\ AllValued => LedgerMatchesLayers
    <2> SUFFICES ASSUME Inv, AllValued, Cardinality(layers) = nextLayer - 1,
                        NEW c \in Containers
                 PROVE  ledger[c] = ValueInLayers(c)
      BY DEF LedgerMatchesLayers
    <2>1. Sound /\ Valued(c)
      BY CompleteByNumber DEF Inv, AllValued
    <2> QED BY <2>1, InLayersHeld DEF Valued
  <1> QED BY <1>1, <1>2, <1>3, PTL DEF Spec

----------------------------------------------------------------------------
(* The order of consumption. *)

\* The loop of StockControlService.get empties a layer before it reaches one
\* that comes later.
LEMMA DrawOrder ==
    ASSUME Good(layers, nextLayer), nextLayer \in Nat, NEW q \in Nat,
           NEW c \in Containers, NEW d \in Dates,
           NEW taken \in [Open(c, d) -> 0..q], Draws(taken, q),
           NEW m \in Open(c, d), taken[m] > 0,
           NEW l \in layers, l.container = c, PreferredTo(l, m)
    PROVE  l.quantity - Taken(taken, l) = 0
  <1> DEFINE S == Open(c, d)
             Earlier(k) == {j \in S : Before(j, k)}
  <1>1. layers \subseteq Layer /\ S \subseteq layers /\ IsFiniteSet(S)
    <2>1. layers \subseteq Layer /\ S \subseteq layers
      BY DEF Good, Open
    <2> QED BY <2>1, GoodFinite, FS_Subset
  <1>2. \A j \in layers : j.id \in Int /\ j.date \in Int /\ j.quantity \in Nat
    BY <1>1, LayerFields, LastIsDate
  <1>3. m \in layers /\ m.date <= d /\ d \in Int
    BY LastIsDate DEF Open
  <1>4. CASE l.quantity = 0
    <2>1. l \notin DOMAIN taken
      BY <1>4 DEF Open
    <2>2. Taken(taken, l) = 0
      BY <2>1 DEF Taken
    <2> QED BY <1>4, <2>2
  <1>5. CASE l.quantity > 0
    <2>1. l.date <= m.date /\ Before(l, m)
      BY <1>2, <1>3 DEF PreferredTo, Before
    <2>2. l \in S
      <3>1. l.date <= d
        BY <1>2, <1>3, <2>1
      <3> QED BY <1>5, <3>1 DEF Open
    <2>3. Earlier(l) \cup {l} \subseteq Earlier(m) /\ l \notin Earlier(l)
      <3>1. \A j \in S : Before(j, l) => Before(j, m)
        BY <1>1, <1>2, <1>3, <2>1 DEF Before
      <3>2. ~Before(l, l)
        BY <1>2 DEF Before
      <3> QED BY <2>1, <2>2, <3>1, <3>2
    <2>4. /\ Earlier(m) \subseteq S /\ Earlier(l) \subseteq S
          /\ IsFiniteSet(Earlier(m)) /\ IsFiniteSet(Earlier(l))
          /\ \A j \in S : taken[j] \in Nat
      <3>1. Earlier(m) \subseteq S /\ Earlier(l) \subseteq S /\ \A j \in S : taken[j] \in Nat
        OBVIOUS
      <3> QED BY <1>1, <3>1, FS_Subset
    <2>5. /\ LeftAt(taken, q, m) = q - SumFunctionOnSet(taken, Earlier(m))
          /\ LeftAt(taken, q, l) = q - SumFunctionOnSet(taken, Earlier(l))
      BY DEF LeftAt
    <2>6. /\ taken[m] = IF LeftAt(taken, q, m) <= 0 THEN 0
                        ELSE IF m.quantity >= LeftAt(taken, q, m) THEN LeftAt(taken, q, m)
                        ELSE m.quantity
          /\ taken[l] = IF LeftAt(taken, q, l) <= 0 THEN 0
                        ELSE IF l.quantity >= LeftAt(taken, q, l) THEN LeftAt(taken, q, l)
                        ELSE l.quantity
      BY <2>2 DEF Draws
    <2>7. taken[l] \in Nat /\ taken[m] \in Nat /\ Taken(taken, l) = taken[l]
      BY <2>2 DEF Taken
    <2> HIDE DEF Earlier, S
    <2>8. SumFunctionOnSet(taken, Earlier(l) \cup {l}) <= SumFunctionOnSet(taken, Earlier(m))
      <3>1. \A j \in Earlier(m) : taken[j] \in Nat
        BY <2>4
      <3> QED BY <2>3, <2>4, <3>1, SumSubset
    <2>9. SumFunctionOnSet(taken, Earlier(l) \cup {l}) =
            SumFunctionOnSet(taken, Earlier(l)) + taken[l]
      <3>1. \A j \in Earlier(l) : taken[j] \in Int
        BY <2>4
      <3> QED BY <2>3, <2>4, <2>7, <3>1, SumAdd
    <2>10. SumFunctionOnSet(taken, Earlier(l)) \in Int /\ SumFunctionOnSet(taken, Earlier(m)) \in Int
      <3>1. /\ \A j \in Earlier(l) : taken[j] \in Nat
            /\ \A j \in Earlier(m) : taken[j] \in Nat
        BY <2>4
      <3> QED BY <2>4, <3>1, SumNat
    <2>11. LeftAt(taken, q, m) > 0
      BY <2>5, <2>6, <2>10
    <2>12. taken[l] < LeftAt(taken, q, l)
      BY <2>5, <2>7, <2>8, <2>9, <2>10, <2>11
    <2>13. LeftAt(taken, q, l) \in Int
      BY <2>5, <2>10
    <2>14. taken[l] = l.quantity
      BY <2>6, <2>7, <2>12, <2>13
    <2> QED BY <1>2, <2>7, <2>14
  <1> QED BY <1>2, <1>4, <1>5

\* The same for a layer as it is found after the draw.
LEMMA DrawnOrder ==
    ASSUME Good(layers, nextLayer), nextLayer \in Nat, NEW q \in Nat,
           NEW c \in Containers, NEW d \in Dates,
           NEW taken \in [Open(c, d) -> 0..q], Draws(taken, q),
           NEW l \in layers, NEW m \in layers, l.container = m.container, PreferredTo(l, m),
           NEW k \in Drawn(taken), k.id = m.id, k.quantity < m.quantity,
           NEW n \in Drawn(taken), n.id = l.id
    PROVE  n.quantity = 0
  <1>1. layers \subseteq Layer /\ \A i, j \in layers : i.id = j.id => i = j
    BY DEF Good
  <1>2. k.quantity = m.quantity - Taken(taken, m)
    BY <1>1, DrawnLike
  <1>3. n.quantity = l.quantity - Taken(taken, l)
    BY <1>1, DrawnLike
  <1>4. m \in Open(c, d) /\ taken[m] > 0
    <2>1. m.quantity \in Nat
      BY <1>1, LayerFields
    <2>2. CASE m \in Open(c, d)
      <3>1. Taken(taken, m) = taken[m] /\ taken[m] \in Nat
        BY <2>2 DEF Taken
      <3> QED BY <1>2, <2>1, <2>2, <3>1
    <2>3. CASE m \notin Open(c, d)
      <3>1. Taken(taken, m) = 0
        BY <2>3 DEF Taken
      <3> QED BY <1>2, <2>1, <3>1
    <2> QED BY <2>2, <2>3
  <1>5. l.container = c
    BY <1>4 DEF Open
  <1> QED BY <1>3, <1>4, <1>5, DrawOrder

LEMMA OrderStep ==
    ASSUME Inv, [Next]_vars, NEW l \in layers, NEW m \in layers, Shrinks(m),
           l.container = m.container, PreferredTo(l, m), NEW n \in layers', n.id = l.id
    PROVE  n.quantity = 0
  <1>0. /\ Good(layers, nextLayer) /\ nextLayer \in Nat /\ layers \subseteq Layer
        /\ \A i, j \in layers : i.id = j.id => i = j
        /\ \A j \in layers : j.id < nextLayer /\ j.id \in Int /\ j.quantity \in Int
        /\ Sound
    <2>1. Good(layers, nextLayer) /\ nextLayer \in Nat /\ Sound
      BY SoundIsGood DEF Inv
    <2> QED BY <2>1, LayerFields DEF Good
  <1>1. PICK k \in layers' : k.id = m.id /\ k.quantity < m.quantity
    BY DEF Shrinks
  <1>2. ASSUME \A j \in layers' : j \in layers \/ (j.id \in Int /\ j.id >= nextLayer)
        PROVE  FALSE
    <2>1. k \in layers
      BY <1>0, <1>1, <1>2
    <2>2. k = m
      BY <1>0, <1>1, <2>1
    <2> QED BY <1>0, <1>1, <2>2
  <1>3. ASSUME NEW c \in Containers, NEW q \in Quantities, NEW d \in Dates, NEW price,
               PutIn(c, q, d, price)
        PROVE  FALSE
    BY <1>0, <1>2, <1>3 DEF PutIn, NewLayer
  <1>4. ASSUME NEW c \in Containers, NEW q \in Quantities, NEW d \in Dates, TakeOut(c, q, d)
        PROVE  n.quantity = 0
    <2>1. PICK taken \in [Open(c, d) -> 0..q] : Draws(taken, q) /\ layers' = Drawn(taken)
      BY <1>4 DEF TakeOut
    <2>2. q \in Nat
      BY BoundFacts DEF Quantities
    <2>3. n \in Drawn(taken) /\ k \in Drawn(taken)
      BY <1>1, <2>1
    <2> QED BY <1>0, <1>1, <2>1, <2>2, <2>3, DrawnOrder
  <1>5. ASSUME NEW from \in Containers, NEW to \in Containers, NEW q \in Quantities,
               NEW d \in Dates, AddTransferOrder(from, to, q, d)
        PROVE  n.quantity = 0
    <2>1. PICK taken, next, id : TransferBy(from, to, q, d, taken, next, id)
      BY <1>5, TransferSteps
    <2> DEFINE M == Moved(taken, id, to, d)
    <2>2. /\ taken \in [Open(from, d) -> 0..q] /\ Draws(taken, q)
          /\ layers' = Drawn(taken) \cup M /\ Fresh(M, nextLayer, next)
      BY <1>0, <2>1, MovedFresh DEF TransferBy
    <2>3. q \in Nat
      BY BoundFacts DEF Quantities
    <2> HIDE DEF M
    <2>4. \A j \in M : j.id \in Int /\ j.id >= nextLayer
      BY <2>2, LayerFields DEF Fresh
    <2>5. n \in Drawn(taken) /\ k \in Drawn(taken)
      BY <1>0, <1>1, <2>2, <2>4
    <2> QED BY <1>0, <1>1, <2>2, <2>3, <2>5, DrawnOrder
  <1>6. ASSUME NEW cs \in SUBSET Containers, NEW d \in Dates, NEW price \in Prices,
               NEW lines \in [cs -> Quantities], AddGoodsReceiptManual(d, lines, price)
        PROVE  FALSE
    <2>1. PICK next, id : ReceiptBy(d, lines, price, next, id)
      BY <1>6, ReceiptSteps
    <2> DEFINE N == Rows(id, d, lines, price)
    <2>2. layers' = layers \cup N /\ Fresh(N, nextLayer, next)
      BY <1>0, <2>1, RowsFresh DEF ReceiptBy
    <2> HIDE DEF N
    <2>3. \A j \in N : j.id \in Int /\ j.id >= nextLayer
      BY <2>2, LayerFields DEF Fresh
    <2> QED BY <1>2, <2>2, <2>3
  <1>7. ASSUME NEW i, DeleteGoodsReceiptManual(i) PROVE FALSE
    BY <1>2, <1>7 DEF DeleteGoodsReceiptManual
  <1>8. ASSUME layers' = layers PROVE FALSE
    BY <1>2, <1>8
  <1>9. CASE UNCHANGED vars
    BY <1>8, <1>9 DEF vars
  <1> QED
    BY <1>3, <1>4, <1>5, <1>6, <1>7, <1>8, <1>9
    DEF Next, ManualReceipt, AddGoodsIssue, AddPurchaseItem, AddGoodsReceipt, AdjustIn, AdjustOut

\* FIFO uses up earlier months first, LIFO later entries first, in every
\* container, for issues, adjustments and transfers of any size.
THEOREM ConsumptionKeepsItsOrder == Spec => ConsumptionOrder
  <1>1. Inv /\ [Next]_vars =>
          [\A l, m \in layers :
             Shrinks(m) /\ l.container = m.container /\ PreferredTo(l, m)
             => \A n \in layers' : n.id = l.id => n.quantity = 0]_vars
    BY OrderStep
  <1> QED BY InvInductive, <1>1, PTL DEF Spec, ConsumptionOrder

=============================================================================
