----------------------- MODULE SalesFulfilment_proofs -----------------------
(***************************************************************************)
(* Proofs about SalesFulfilment for every number of orders, lines,         *)
(* sequences and deliveries.  The counters of the lines are sums over the  *)
(* documents: Sums says how they change with one sequence or delivery.     *)
(***************************************************************************)
EXTENDS SalesFulfilment, Sums

(* Types of the rows whose columns are no sums. *)

Rows ==
    /\ orders \in [Orders -> Order]
    /\ plans \in [Sequences -> [Lines -> Quantities]]
    /\ deliverable \in SUBSET References
    /\ deliveries \in [Deliveries -> Delivery]

LEMMA QuantitiesAreNumbers == Quantities \subseteq Int /\ 0 \in Quantities
  BY QuantityBound DEF Quantities

LEMMA InitRows == Init => Rows
  BY QuantitiesAreNumbers
  DEF Init, Rows, Order, Delivery, Nothing, SOStatus, DeliveryStatus

LEMMA PlannedIsAnOrder ==
    ASSUME NEW order \in Order
    PROVE  Planned(order) \in Order
  BY DEF Planned, Order, SOStatus

LEMMA DecidedIsAnOrder ==
    ASSUME NEW order \in Order, NEW decision \in ApprovalDecisionStatus
    PROVE  Decided(order, decision) \in Order
  <1> DEFINE taken == [order EXCEPT !.decision = decision,
                                    !.histories = @ \cup ({decision} \cap Approving)]
  <1>1. taken \in Order
    BY DEF Order
  <1>2. Decided(order, decision) \in {taken, Planned(taken)}
    BY DEF Decided
  <1> HIDE DEF taken
  <1> QED
    BY <1>1, <1>2, PlannedIsAnOrder

LEMMA AddOrderRows ==
    ASSUME Rows, NEW o \in Orders, AddOrder(o)
    PROVE  Rows'
  <1>1. PICK decision \in {"NONE", "REQUESTED"} :
           LET added == [orders[o] EXCEPT !.soStatus = "OPEN", !.decision = decision] IN
           orders' = [orders EXCEPT ![o] = IF decision = "NONE" THEN Planned(added) ELSE added]
    BY DEF AddOrder
  <1> DEFINE added == [orders[o] EXCEPT !.soStatus = "OPEN", !.decision = decision]
  <1>2. added \in Order
    BY DEF Rows, Order, SOStatus, ApprovalDecisionStatus
  <1>3. orders' = [orders EXCEPT ![o] = IF decision = "NONE" THEN Planned(added) ELSE added]
    BY <1>1
  <1> HIDE DEF added
  <1>4. orders' \in [Orders -> Order]
    BY <1>2, <1>3, PlannedIsAnOrder DEF Rows
  <1> QED
    BY <1>4 DEF AddOrder, Rows

LEMMA SaveOrderRows ==
    ASSUME Rows, NEW o \in Orders, SaveOrder(o)
    PROVE  Rows'
  <1>1. FirstForm(o).order \in Order /\ CurrentForm(o).order \in Order
    BY DEF Rows, FirstForm, CurrentForm, Order, SOStatus, ApprovalDecisionStatus
  <1>2. orders' \in [Orders -> Order]
    BY <1>1 DEF SaveOrder, Rows
  <1> QED
    BY <1>2 DEF SaveOrder, Rows

LEMMA AddDeliveryRows ==
    ASSUME Rows, NEW d \in Deliveries, AddDelivery(d)
    PROVE  Rows'
  <1>1. PICK items \in [References -> Quantities] :
           /\ deliveries' = [deliveries EXCEPT ![d].status = "OPEN", ![d].items = items]
           /\ deliverable' = deliverable \ {r \in References : items[r] > 0}
           /\ orders' = [o \in Orders |->
                 IF \E r \in {q \in References : items[q] > 0} : OrderOf[r[2]] = o
                 THEN [orders[o] EXCEPT !.soStatus = "DELIVERED"] ELSE orders[o]]
    BY DEF AddDelivery
  <1>2. deliveries' \in [Deliveries -> Delivery]
    BY <1>1 DEF Rows, Delivery, DeliveryStatus
  <1>3. orders' \in [Orders -> Order]
    <2>1. \A o \in Orders : [orders[o] EXCEPT !.soStatus = "DELIVERED"] \in Order
      BY DEF Rows, Order, SOStatus
    <2> QED
      BY <1>1, <2>1 DEF Rows
  <1> QED
    BY <1>1, <1>2, <1>3 DEF AddDelivery, Rows

LEMMA NextRows == Rows /\ [Next]_vars => Rows'
  <1> SUFFICES ASSUME Rows, [Next]_vars PROVE Rows'
    OBVIOUS
  <1>1. ASSUME NEW o \in Orders, Decide(o) PROVE Rows'
    BY <1>1, DecidedIsAnOrder DEF Decide, Rows
  <1>2. ASSUME NEW o \in Orders, Close(o) PROVE Rows'
    BY <1>2 DEF Close, Rows, Order, SOStatus
  <1>3. ASSUME NEW o \in Orders, NEW s \in Sequences, AddSequence(o, s) PROVE Rows'
    BY <1>3 DEF AddSequence, Rows, References
  <1>4. ASSUME NEW s \in Sequences, DeleteSequence(s) PROVE Rows'
    BY <1>4, QuantitiesAreNumbers DEF DeleteSequence, Rows, Nothing
  <1>5. ASSUME NEW d \in Deliveries, SaveDelivery(d) \/ Send(d) \/ Cancel(d) PROVE Rows'
    <2>1. PICK status \in DeliveryStatus : deliveries' = [deliveries EXCEPT ![d].status = status]
      BY <1>5 DEF SaveDelivery, Send, Cancel, Rows, Delivery, DeliveryStatus
    <2>2. deliveries' \in [Deliveries -> Delivery]
      BY <2>1 DEF Rows, Delivery
    <2> QED
      BY <1>5, <2>2 DEF SaveDelivery, Send, Cancel, Rows
  <1>6. ASSUME NEW d \in Deliveries, Realize(d) PROVE Rows'
    <2>1. PICK accepted \in SUBSET ItemsOf(d) :
             deliveries' = [deliveries EXCEPT ![d].status = "DELIVERED",
                                              ![d].accepted = @ \cup accepted]
      BY <1>6 DEF Realize
    <2>2. accepted \in SUBSET References /\ "DELIVERED" \in DeliveryStatus
      BY DEF ItemsOf, DeliveryStatus
    <2>3. deliveries' \in [Deliveries -> Delivery]
      BY <2>1, <2>2 DEF Rows, Delivery
    <2> QED
      BY <1>6, <2>3 DEF Realize, Rows
  <1>7. CASE UNCHANGED vars
    BY <1>7 DEF Rows, vars
  <1> QED
    BY <1>1, <1>2, <1>3, <1>4, <1>5, <1>6, <1>7, AddOrderRows, SaveOrderRows, AddDeliveryRows
    DEF Next

LEMMA AlwaysRows == Spec => []Rows
  BY InitRows, NextRows, PTL DEF Spec
----------------------------------------------------------------------------
(* Nothing is planned without an approval. *)

PlannedIsApproved ==
    /\ \A o \in Orders :
          /\ orders[o].planned /\ orders[o].decision # "NONE" => orders[o].histories # {}
          /\ orders[o].soStatus = "NEW" => ~orders[o].planned
    /\ \A s \in Sequences, l \in Lines : plans[s][l] > 0 => orders[OrderOf[l]].planned

\* The flags of an order: whether it is planned and approved.
LEMMA DecidedKeepsApproval ==
    ASSUME NEW order \in Order, NEW decision \in ApprovalDecisionStatus,
           order.planned /\ order.decision # "NONE" => order.histories # {},
           order.decision # "NONE"
    PROVE  /\ Decided(order, decision).planned => Decided(order, decision).histories # {}
           /\ Decided(order, decision).soStatus = "NEW" =>
                 order.soStatus = "NEW" /\ Decided(order, decision).planned = order.planned
           /\ order.planned => Decided(order, decision).planned
  <1> DEFINE taken == [order EXCEPT !.decision = decision,
                                    !.histories = @ \cup ({decision} \cap Approving)]
  <1>1. /\ taken \in Order
        /\ taken.planned = order.planned
        /\ taken.soStatus = order.soStatus
        /\ taken.histories = order.histories \cup ({decision} \cap Approving)
    BY DEF Order
  <1>2. Decided(order, decision) =
           IF decision \in Approving /\ ~order.planned THEN Planned(taken) ELSE taken
    BY DEF Decided
  <1>3. /\ Planned(taken).planned = TRUE
        /\ Planned(taken).soStatus = "PLANNING"
        /\ Planned(taken).histories = taken.histories
    BY <1>1 DEF Planned, Order
  <1> HIDE DEF taken
  <1>4. CASE decision \in Approving
    BY <1>1, <1>2, <1>3, <1>4
  <1>5. CASE decision \notin Approving
    BY <1>1, <1>2, <1>5
  <1> QED
    BY <1>4, <1>5

\* A step keeps the invariant if it keeps the flags of the orders and plans
\* only lines of orders that are planned.
LEMMA FlagsKeepApproval ==
    ASSUME Rows, Rows', PlannedIsApproved,
           \A o \in Orders :
              /\ orders'[o].planned /\ orders'[o].decision # "NONE" => orders'[o].histories # {}
              /\ orders'[o].soStatus = "NEW" => ~orders'[o].planned
              /\ orders[o].planned => orders'[o].planned,
           \A s \in Sequences, l \in Lines :
              plans'[s][l] > 0 => plans[s][l] > 0 \/ orders[OrderOf[l]].planned
    PROVE  PlannedIsApproved'
  BY OrderAssumption DEF PlannedIsApproved

LEMMA NextPlannedIsApproved ==
    Rows /\ Rows' /\ PlannedIsApproved /\ [Next]_vars => PlannedIsApproved'
  <1> SUFFICES ASSUME Rows, Rows', PlannedIsApproved, [Next]_vars PROVE PlannedIsApproved'
    OBVIOUS
  <1>1. ASSUME NEW o \in Orders, AddOrder(o) PROVE PlannedIsApproved'
    <2>1. PICK decision \in {"NONE", "REQUESTED"} :
             LET added == [orders[o] EXCEPT !.soStatus = "OPEN", !.decision = decision] IN
             orders' = [orders EXCEPT ![o] = IF decision = "NONE" THEN Planned(added) ELSE added]
      BY <1>1 DEF AddOrder
    <2> DEFINE added == [orders[o] EXCEPT !.soStatus = "OPEN", !.decision = decision]
    <2>2. ~orders[o].planned
      BY <1>1 DEF AddOrder, PlannedIsApproved
    <2>3. /\ added.planned = orders[o].planned
          /\ added.decision = decision
          /\ added.soStatus = "OPEN"
          /\ added \in Order
      BY DEF Rows, Order, SOStatus, ApprovalDecisionStatus
    <2>4. orders' = [orders EXCEPT ![o] = IF decision = "NONE" THEN Planned(added) ELSE added]
      BY <2>1
    <2> HIDE DEF added
    <2>5. Planned(added).decision = decision /\ Planned(added).soStatus = "PLANNING"
      BY <2>3 DEF Planned, Order
    <2> QED
      BY <1>1, <2>2, <2>3, <2>4, <2>5, FlagsKeepApproval DEF AddOrder, PlannedIsApproved, Rows
  <1>2. ASSUME NEW o \in Orders, Decide(o) PROVE PlannedIsApproved'
    <2>1. PICK decision \in ApprovalDecisionStatus :
             orders' = [orders EXCEPT ![o] = Decided(orders[o], decision)]
      BY <1>2 DEF Decide
    <2>2. /\ Decided(orders[o], decision).planned => Decided(orders[o], decision).histories # {}
          /\ Decided(orders[o], decision).soStatus = "NEW" =>
                orders[o].soStatus = "NEW" /\ Decided(orders[o], decision).planned = orders[o].planned
          /\ orders[o].planned => Decided(orders[o], decision).planned
      BY <1>2, DecidedKeepsApproval DEF Decide, PlannedIsApproved, Rows
    <2> QED
      BY <1>2, <2>1, <2>2, FlagsKeepApproval DEF Decide, PlannedIsApproved, Rows
  <1>3. ASSUME NEW o \in Orders, SaveOrder(o) PROVE PlannedIsApproved'
    <2>1. \A order \in {FirstForm(o).order, CurrentForm(o).order} :
             /\ order.planned = orders[o].planned
             /\ order.histories = orders[o].histories
             /\ order.decision = "NONE" <=> orders[o].decision = "NONE"
             /\ order.soStatus # "NEW"
      <3>1. orders[o] \in Order /\ orders[o].soStatus # "NEW"
        BY <1>3 DEF SaveOrder, Rows
      <3>2. CurrentForm(o).order = orders[o]
        BY DEF CurrentForm
      <3>3. FirstForm(o).order.planned = orders[o].planned
        BY <3>1 DEF FirstForm, Order
      <3>4. FirstForm(o).order.histories = orders[o].histories
        BY <3>1 DEF FirstForm, Order
      <3>5. FirstForm(o).order.decision = "NONE" <=> orders[o].decision = "NONE"
        BY <3>1 DEF FirstForm, Order
      <3>6. FirstForm(o).order.soStatus # "NEW"
        BY <3>1 DEF FirstForm, Order
      <3> QED
        BY <3>1, <3>2, <3>3, <3>4, <3>5, <3>6
    <2>2. \/ orders' = orders
          \/ \E order \in {FirstForm(o).order, CurrentForm(o).order} :
                orders' = [orders EXCEPT ![o] = order]
      BY <1>3 DEF SaveOrder
    <2> QED
      BY <1>3, <2>1, <2>2, FlagsKeepApproval DEF SaveOrder, PlannedIsApproved, Rows
  <1>4. ASSUME NEW o \in Orders, Close(o) PROVE PlannedIsApproved'
    <2>1. PICK status \in {"CLOSE", "CANCELED"} :
             orders' = [orders EXCEPT ![o].soStatus = status]
      BY <1>4 DEF Close
    <2>2. /\ \A x \in Orders \ {o} : orders'[x] = orders[x]
          /\ orders'[o].soStatus = status
          /\ orders'[o].planned = orders[o].planned
          /\ orders'[o].decision = orders[o].decision
          /\ orders'[o].histories = orders[o].histories
      BY <2>1 DEF Rows, Order
    <2>3. \A x \in Orders :
             /\ orders'[x].planned /\ orders'[x].decision # "NONE" => orders'[x].histories # {}
             /\ orders'[x].soStatus = "NEW" => ~orders'[x].planned
             /\ orders[x].planned => orders'[x].planned
      <3> TAKE x \in Orders
      <3>1. CASE x = o
        BY <2>2, <3>1 DEF PlannedIsApproved
      <3>2. CASE x # o
        BY <2>2, <3>2 DEF PlannedIsApproved
      <3> QED
        BY <3>1, <3>2
    <2>4. plans' = plans
      BY <1>4 DEF Close
    <2> QED
      BY <2>3, <2>4, FlagsKeepApproval
  <1>5. ASSUME NEW o \in Orders, NEW s \in Sequences, AddSequence(o, s) PROVE PlannedIsApproved'
    BY <1>5, FlagsKeepApproval DEF AddSequence, Planable, PlannedIsApproved, Rows
  <1>6. ASSUME NEW s \in Sequences, DeleteSequence(s) PROVE PlannedIsApproved'
    <2>1. plans' = [plans EXCEPT ![s] = Nothing] /\ orders' = orders
      BY <1>6 DEF DeleteSequence
    <2>2. \A t \in Sequences, l \in Lines : plans'[t][l] > 0 => plans[t][l] > 0
      BY <2>1 DEF Nothing, Rows
    <2> QED
      BY <2>1, <2>2, OrderAssumption DEF PlannedIsApproved
  <1>7. ASSUME NEW d \in Deliveries, AddDelivery(d) PROVE PlannedIsApproved'
    <2>1. \A o \in Orders :
             /\ orders'[o].planned = orders[o].planned
             /\ orders'[o].decision = orders[o].decision
             /\ orders'[o].histories = orders[o].histories
             /\ orders'[o].soStatus = "NEW" => orders[o].soStatus = "NEW"
      BY <1>7 DEF AddDelivery, Rows, Order
    <2> QED
      BY <1>7, <2>1, FlagsKeepApproval DEF AddDelivery, PlannedIsApproved
  <1>8. ASSUME NEW d \in Deliveries, SaveDelivery(d) \/ Send(d) \/ Cancel(d) \/ Realize(d)
        PROVE PlannedIsApproved'
    BY <1>8, FlagsKeepApproval DEF SaveDelivery, Send, Cancel, Realize, PlannedIsApproved
  <1>9. CASE UNCHANGED vars
    BY <1>9, FlagsKeepApproval DEF vars, PlannedIsApproved
  <1> QED
    BY <1>1, <1>2, <1>3, <1>4, <1>5, <1>6, <1>7, <1>8, <1>9 DEF Next

\* An order that needs approval is planned only after an approval, with stale
\* pages too.
THEOREM NothingPlannedUnapproved == Spec => []PlanningNeedsApproval
  <1>1. Init => PlannedIsApproved
    BY OrderAssumption, QuantitiesAreNumbers DEF Init, PlannedIsApproved, Nothing
  <1>2. PlannedIsApproved => PlanningNeedsApproval
    BY OrderAssumption DEF PlannedIsApproved, PlanningNeedsApproval
  <1> QED
    BY <1>1, <1>2, AlwaysRows, NextPlannedIsApproved, PTL DEF Spec
----------------------------------------------------------------------------
(* A settled order stays settled, while pages are up to date. *)

\* A settled order keeps its row, and neither gets a parcel nor a plan.
LEMMA SettledIsKept ==
    ASSUME ~StalePages, Rows, [Next]_vars, NEW o \in Orders, Settled(o)
    PROVE  /\ orders'[o].soStatus \in {"CLOSE", "CANCELED"}
           /\ orders'[o].decision = orders[o].decision
           /\ \A r \in deliverable' : r \in deliverable \/ OrderOf[r[2]] # o
           /\ \A s \in Sequences : \A l \in LinesOf(o) : plans'[s][l] <= plans[s][l]
  <1> DEFINE Kept ==
           /\ orders'[o].soStatus \in {"CLOSE", "CANCELED"}
           /\ orders'[o].decision = orders[o].decision
           /\ \A r \in deliverable' : r \in deliverable \/ OrderOf[r[2]] # o
           /\ \A s \in Sequences : \A l \in LinesOf(o) : plans'[s][l] <= plans[s][l]
  <1> SUFFICES Kept
    OBVIOUS
  <1>1. \A s \in Sequences, l \in Lines : plans[s][l] \in Int /\ plans[s][l] <= plans[s][l]
    <2> TAKE s \in Sequences, l \in Lines
    <2>1. plans[s][l] \in Int
      BY QuantitiesAreNumbers DEF Rows
    <2> QED
      BY <2>1
  <1>2. ASSUME UNCHANGED <<plans, deliverable>>, orders'[o] = orders[o] PROVE Kept
    BY <1>1, <1>2 DEF Settled, LinesOf
  <1>3. ASSUME NEW p \in Orders, AddOrder(p) \/ Decide(p) PROVE Kept
    <2>1. p # o
      BY <1>3 DEF AddOrder, Decide, Settled
    <2> QED
      BY <1>2, <1>3, <2>1 DEF AddOrder, Decide, Rows
  <1>4. ASSUME NEW p \in Orders, SaveOrder(p) PROVE Kept
    BY <1>2, <1>4 DEF SaveOrder, CurrentForm, Rows
  <1>5. ASSUME NEW p \in Orders, Close(p) PROVE Kept
    <2>1. PICK status \in {"CLOSE", "CANCELED"} :
             orders' = [orders EXCEPT ![p].soStatus = status]
      BY <1>5 DEF Close
    <2>2. /\ orders'[o].soStatus \in {"CLOSE", "CANCELED"}
          /\ orders'[o].decision = orders[o].decision
      BY <2>1 DEF Settled, Rows, Order
    <2> QED
      BY <1>1, <1>5, <2>2 DEF Close, LinesOf
  <1>6. ASSUME NEW p \in Orders, NEW s \in Sequences, AddSequence(p, s) PROVE Kept
    <2>1. p # o
      BY <1>6 DEF AddSequence, Planable, Settled
    <2>2. PICK quantity \in [Lines -> Quantities] :
             /\ \A l \in Lines : quantity[l] > 0 => OrderOf[l] = p
             /\ plans' = [plans EXCEPT ![s] = quantity]
             /\ deliverable' = deliverable \cup {<<s, l>> : l \in {k \in Lines : quantity[k] > 0}}
      BY <1>6 DEF AddSequence
    <2>3. \A l \in LinesOf(o) : quantity[l] = 0 /\ plans[s][l] >= 0
      BY <2>1, <2>2, QuantityBound DEF LinesOf, Quantities, Rows
    <2>4. \A t \in Sequences : \A l \in LinesOf(o) : plans'[t][l] <= plans[t][l]
      BY <1>1, <2>2, <2>3 DEF Rows, LinesOf
    <2>5. \A r \in deliverable' : r \in deliverable \/ OrderOf[r[2]] # o
      BY <2>1, <2>2
    <2> QED
      BY <1>6, <2>4, <2>5 DEF AddSequence, Settled
  <1>7. ASSUME NEW s \in Sequences, DeleteSequence(s) PROVE Kept
    <2>1. \A l \in LinesOf(o) : plans[s][l] >= 0
      BY QuantityBound DEF LinesOf, Quantities, Rows
    <2>2. \A t \in Sequences : \A l \in LinesOf(o) : plans'[t][l] <= plans[t][l]
      BY <1>1, <1>7, <2>1 DEF DeleteSequence, Nothing, Rows, LinesOf
    <2> QED
      BY <1>7, <2>2 DEF DeleteSequence, Settled
  <1>8. ASSUME NEW d \in Deliveries, AddDelivery(d) PROVE Kept
    <2>1. PICK items \in [References -> Quantities] :
             LET taken == {r \in References : items[r] > 0} IN
             /\ taken \subseteq Offered
             /\ deliverable' = deliverable \ taken
             /\ orders' = [x \in Orders |->
                   IF \E r \in taken : OrderOf[r[2]] = x
                   THEN [orders[x] EXCEPT !.soStatus = "DELIVERED"] ELSE orders[x]]
      BY <1>8 DEF AddDelivery
    <2>2. ~ \E r \in {q \in References : items[q] > 0} : OrderOf[r[2]] = o
      BY <2>1 DEF Offered, Settled
    <2>3. orders'[o] = orders[o] /\ deliverable' \subseteq deliverable
      BY <2>1, <2>2
    <2> QED
      BY <1>1, <1>8, <2>3 DEF AddDelivery, Settled, LinesOf
  <1>9. ASSUME NEW d \in Deliveries, SaveDelivery(d) \/ Send(d) \/ Cancel(d) \/ Realize(d)
        PROVE Kept
    BY <1>2, <1>9 DEF SaveDelivery, Send, Cancel, Realize
  <1>10. CASE UNCHANGED vars
    BY <1>2, <1>10 DEF vars
  <1> HIDE DEF Kept
  <1> QED
    BY <1>3, <1>4, <1>5, <1>6, <1>7, <1>8, <1>9, <1>10 DEF Next

\* An order that is closed or cancelled, awaits no decision and has nothing
\* left to deliver is never delivered, planned or opened again.
THEOREM SettledForGood ==
    ASSUME ~StalePages
    PROVE  Spec => SettledStays
  <1>1. Rows /\ [Next]_vars =>
           [\A o \in Orders : Settled(o) =>
               /\ Settled(o)'
               /\ \A s \in Sequences : \A l \in LinesOf(o) : plans'[s][l] <= plans[s][l]]_vars
    BY SettledIsKept DEF Settled
  <1> QED
    BY <1>1, AlwaysRows, PTL DEF Spec, SettledStays
----------------------------------------------------------------------------
(* Every reference leaves once: the refinement of Fulfilment, while pages   *)
(* are up to date.                                                         *)

Plan(r) == plans[r[1]][r[2]]

\* What is planned is either offered or on exactly one delivery, which is
\* realized at most once and not after it was cancelled.
Handled ==
    /\ \A r \in deliverable : Plan(r) > 0
    /\ \A d \in Deliveries : \A r \in ItemsOf(d) : Plan(r) > 0 /\ r \notin deliverable
    /\ \A d, e \in Deliveries : \A r \in ItemsOf(d) : r \in ItemsOf(e) => d = e
    /\ \A r \in References : Plan(r) > 0 /\ r \notin deliverable
          => \E d \in Deliveries : r \in ItemsOf(d)
    /\ \A d \in Deliveries : ~Exists(d) => ItemsOf(d) = {} /\ ~Realized(d)
    /\ \A d \in Deliveries : Realized(d) => deliveries[d].status = "DELIVERED"

LEMMA ParcelStates ==
    ASSUME NEW r \in References
    PROVE  ParcelState(r) =
              IF Plan(r) = 0 THEN "absent"
              ELSE IF r \in deliverable THEN "open"
              ELSE IF \E d \in Deliveries : r \in ItemsOf(d) /\ Realized(d) THEN "completed"
              ELSE IF \E d \in Deliveries : r \in ItemsOf(d) /\ deliveries[d].status = "CANCELED"
              THEN "withdrawn" ELSE "underway"
  BY DEF ParcelState, Plan

LEMMA InitHandled == Init => Handled
  BY DEF Init, Handled, Plan, ItemsOf, References, Nothing, Exists, Realized

\* Some parcels that go together make a step, or none.
LEMMA PartsMove ==
    ASSUME NEW S \in SUBSET References, NEW from, NEW to,
           Parcel!Move(from, to) => Parcel!Next,
           \A r \in References :
              /\ r \in S => ParcelState(r) = from
              /\ ParcelState(r)' = IF r \in S THEN to ELSE ParcelState(r)
    PROVE  [Parcel!Next]_[r \in References |-> ParcelState(r)]
  <1> DEFINE state == [r \in References |-> ParcelState(r)]
  <1>1. CASE S = {}
    BY <1>1
  <1>2. CASE S # {}
    <2>1. \A r \in S : state[r] = from
      OBVIOUS
    <2>2. state' = [r \in References |-> IF r \in S THEN to ELSE state[r]]
      OBVIOUS
    <2>3. Parcel!Move(from, to)
      BY <1>2, <2>1, <2>2 DEF Parcel!Move
    <2> QED
      BY <2>3
  <1> QED
    BY <1>1, <1>2

\* Nothing moves as long as the documents do not change.
LEMMA NothingMoves ==
    ASSUME Handled, plans' = plans, deliverable' = deliverable,
           \A d \in Deliveries :
              /\ ItemsOf(d)' = ItemsOf(d) /\ Realized(d)' = Realized(d) /\ Exists(d)' = Exists(d)
              /\ deliveries'[d].status = "CANCELED" <=> deliveries[d].status = "CANCELED"
              /\ Realized(d) => deliveries'[d].status = "DELIVERED"
    PROVE  Handled' /\ [Parcel!Next]_[r \in References |-> ParcelState(r)]
  <1>1. \A r \in References : Plan(r)' = Plan(r)
    BY DEF Plan
  <1>2. Handled'
    <2>1. deliverable' \subseteq deliverable /\ \A r : Plan(r)' = Plan(r)
      BY DEF Plan
    <2> QED
      BY <2>1 DEF Handled
  <1>3. \A r \in References : ParcelState(r)' = ParcelState(r)
    BY <1>1, ParcelStates DEF ParcelState
  <1> QED
    BY <1>2, <1>3

\* A delivery is another row, nothing else on it.
LEMMA SaveAndSend ==
    ASSUME ~StalePages, Rows, Handled, NEW d \in Deliveries, SaveDelivery(d) \/ Send(d)
    PROVE  Handled' /\ [Parcel!Next]_[r \in References |-> ParcelState(r)]
  <1>1. PICK status \in DeliveryStatus :
           /\ deliveries' = [deliveries EXCEPT ![d].status = status]
           /\ status # "NEW"
           /\ status = deliveries[d].status \/ (status = "SENT" /\ deliveries[d].status = "OPEN")
    BY DEF SaveDelivery, Send, Exists, Rows, Delivery, DeliveryStatus
  <1>2. \A e \in Deliveries :
           /\ deliveries'[e].items = deliveries[e].items
           /\ deliveries'[e].accepted = deliveries[e].accepted
           /\ deliveries'[e].status = IF e = d THEN status ELSE deliveries[e].status
    BY <1>1 DEF Rows, Delivery
  <1>3. \A e \in Deliveries :
           /\ ItemsOf(e)' = ItemsOf(e) /\ Realized(e)' = Realized(e) /\ Exists(e)' = Exists(e)
           /\ deliveries'[e].status = "CANCELED" <=> deliveries[e].status = "CANCELED"
           /\ Realized(e) => deliveries'[e].status = "DELIVERED"
    <2> TAKE e \in Deliveries
    <2>1. ItemsOf(e)' = ItemsOf(e) /\ Realized(e)' = Realized(e)
      BY <1>2 DEF ItemsOf, Realized
    <2>2. Exists(d)
      BY DEF SaveDelivery, Send
    <2>3. Realized(e) => deliveries[e].status = "DELIVERED"
      BY DEF Handled
    <2> QED
      BY <1>1, <1>2, <2>1, <2>2, <2>3 DEF Exists
  <1>4. plans' = plans /\ deliverable' = deliverable
    BY DEF SaveDelivery, Send
  <1> QED
    BY <1>3, <1>4, NothingMoves

\* What a delivery holds, and whether it is cancelled or realized, is left
\* alone by the steps of the planning.
LEMMA DeliveriesAlone ==
    ASSUME deliveries' = deliveries
    PROVE  \A e \in Deliveries :
              /\ ItemsOf(e)' = ItemsOf(e) /\ Realized(e)' = Realized(e) /\ Exists(e)' = Exists(e)
              /\ deliveries'[e].status = deliveries[e].status
  BY DEF ItemsOf, Realized, Exists

LEMMA AddSequenceMoves ==
    ASSUME Rows, Handled, NEW o \in Orders, NEW s \in Sequences, AddSequence(o, s)
    PROVE  Handled' /\ [Parcel!Next]_[r \in References |-> ParcelState(r)]
  <1>1. PICK quantity \in [Lines -> Quantities] :
           /\ plans' = [plans EXCEPT ![s] = quantity]
           /\ deliverable' = deliverable \cup {<<s, l>> : l \in {k \in Lines : quantity[k] > 0}}
    BY DEF AddSequence
  <1>2. deliveries' = deliveries /\ plans[s] = Nothing
    BY DEF AddSequence
  <1> DEFINE S == {r \in References : r[1] = s /\ quantity[r[2]] > 0}
  <1>3. /\ S \in SUBSET References
        /\ deliverable' = deliverable \cup S
    BY <1>1 DEF References
  <1>4. \A r \in References : r[1] \in Sequences /\ r[2] \in Lines
    BY DEF References
  <1>5. \A r \in References : r[1] = s => Plan(r) = 0 /\ Plan(r)' = quantity[r[2]]
    BY <1>1, <1>2, <1>4 DEF Plan, Nothing, Rows
  <1>6. \A r \in References : r[1] # s => Plan(r)' = Plan(r)
    BY <1>1, <1>4 DEF Plan, Rows
  <1>7. \A r \in References : r \in S => Plan(r) = 0 /\ Plan(r)' > 0
    BY <1>5
  <1>8. \A r \in References : r \notin S => Plan(r)' = Plan(r)
    BY <1>4, <1>5, <1>6, QuantityBound DEF Quantities
  <1>9. deliverable \in SUBSET References /\ \A e \in Deliveries : ItemsOf(e) \subseteq References
    BY DEF Rows, ItemsOf
  <1> HIDE DEF S
  <1>10. \A e \in Deliveries :
            /\ ItemsOf(e)' = ItemsOf(e) /\ Realized(e)' = Realized(e) /\ Exists(e)' = Exists(e)
            /\ deliveries'[e].status = deliveries[e].status
    BY <1>2, DeliveriesAlone
  <1>11. \A r \in S : r \notin deliverable /\ \A e \in Deliveries : r \notin ItemsOf(e)
    BY <1>3, <1>7 DEF Handled
  <1>12. Handled'
    BY <1>3, <1>7, <1>8, <1>9, <1>10, <1>11 DEF Handled
  <1>13. \A r \in References :
            /\ r \in S => ParcelState(r) = "absent"
            /\ ParcelState(r)' = IF r \in S THEN "open" ELSE ParcelState(r)
    <2> TAKE r \in References
    <2>1. CASE r \in S
      <3>1. ParcelState(r) = "absent"
        BY <1>7, <2>1, ParcelStates
      <3>2. Plan(r)' > 0 /\ r \in deliverable'
        BY <1>3, <1>7, <2>1
      <3>3. plans'[r[1]][r[2]] # 0
        BY <3>2 DEF Plan
      <3>4. ParcelState(r)' = "open"
        BY <3>2, <3>3 DEF ParcelState
      <3> QED
        BY <2>1, <3>1, <3>4
    <2>2. CASE r \notin S
      <3>1. Plan(r)' = Plan(r) /\ (r \in deliverable' <=> r \in deliverable)
        BY <1>3, <1>8, <2>2
      <3>2. ParcelState(r)' = ParcelState(r)
        BY <1>10, <3>1 DEF ParcelState, Plan
      <3> QED
        BY <2>2, <3>2
    <2> QED
      BY <2>1, <2>2
  <1>14. Parcel!Move("absent", "open") => Parcel!Next
    BY DEF Parcel!Next
  <1> QED
    BY <1>3, <1>12, <1>13, <1>14, PartsMove

LEMMA DeleteSequenceMoves ==
    ASSUME Rows, Handled, NEW s \in Sequences, DeleteSequence(s)
    PROVE  Handled' /\ [Parcel!Next]_[r \in References |-> ParcelState(r)]
  <1>1. /\ plans' = [plans EXCEPT ![s] = Nothing]
        /\ deliverable' = {r \in deliverable : r[1] # s}
        /\ deliveries' = deliveries
        /\ DeliveryOrders(s) = {}
    BY DEF DeleteSequence
  <1> DEFINE S == {r \in References : r[1] = s /\ Plan(r) > 0}
  <1>2. \A r \in References : r[1] \in Sequences /\ r[2] \in Lines /\ r = <<r[1], r[2]>>
    BY DEF References
  <1>3. \A e \in Deliveries : \A r \in ItemsOf(e) : r \in References /\ r[1] # s
    BY <1>1, <1>2 DEF DeliveryOrders, ItemsOf
  <1>4. \A r \in References : Plan(r)' = IF r[1] = s THEN 0 ELSE Plan(r)
    BY <1>1, <1>2 DEF Plan, Nothing, Rows
  <1>5. \A r \in References : Plan(r) \in Quantities
    BY <1>2 DEF Plan, Rows
  <1>6. \A r \in References : r \notin S => Plan(r)' = Plan(r)
    BY <1>4, <1>5, QuantityBound DEF Quantities
  <1>7. \A r \in S : r \in deliverable
    BY <1>3 DEF Handled
  <1>8. \A r \in References : r \in deliverable' <=> r \in deliverable /\ r \notin S
    BY <1>1 DEF Handled
  <1>9. \A r \in S : Plan(r) > 0 /\ Plan(r)' = 0
    BY <1>4
  <1>10. \A e \in Deliveries :
            /\ ItemsOf(e)' = ItemsOf(e) /\ Realized(e)' = Realized(e) /\ Exists(e)' = Exists(e)
            /\ deliveries'[e].status = deliveries[e].status
    BY <1>1, DeliveriesAlone
  <1>11. S \in SUBSET References /\ deliverable \in SUBSET References
         /\ deliverable' \subseteq deliverable /\ \A e \in Deliveries : \A r \in ItemsOf(e) : r \notin S
    BY <1>1, <1>3 DEF Rows
  <1> HIDE DEF S
  <1>12. Handled'
    BY <1>3, <1>6, <1>8, <1>9, <1>10, <1>11 DEF Handled
  <1>13. \A r \in References :
            /\ r \in S => ParcelState(r) = "open"
            /\ ParcelState(r)' = IF r \in S THEN "absent" ELSE ParcelState(r)
    <2> TAKE r \in References
    <2>1. CASE r \in S
      <3>1. ParcelState(r) = "open"
        BY <1>7, <1>9, <2>1, ParcelStates
      <3>2. plans'[r[1]][r[2]] = 0
        BY <1>9, <2>1 DEF Plan
      <3>3. ParcelState(r)' = "absent"
        BY <3>2 DEF ParcelState
      <3> QED
        BY <2>1, <3>1, <3>3
    <2>2. CASE r \notin S
      <3>1. Plan(r)' = Plan(r) /\ (r \in deliverable' <=> r \in deliverable)
        BY <1>6, <1>8, <2>2
      <3>2. ParcelState(r)' = ParcelState(r)
        BY <1>10, <3>1 DEF ParcelState, Plan
      <3> QED
        BY <2>2, <3>2
    <2> QED
      BY <2>1, <2>2
  <1>14. Parcel!Move("open", "absent") => Parcel!Next
    BY DEF Parcel!Next
  <1> QED
    BY <1>11, <1>12, <1>13, <1>14, PartsMove

LEMMA AddDeliveryMoves ==
    ASSUME ~StalePages, Rows, Handled, NEW d \in Deliveries, AddDelivery(d)
    PROVE  Handled' /\ [Parcel!Next]_[r \in References |-> ParcelState(r)]
  <1>1. PICK items \in [References -> Quantities] :
           LET taken == {r \in References : items[r] > 0} IN
           /\ taken \subseteq Offered
           /\ deliveries' = [deliveries EXCEPT ![d].status = "OPEN", ![d].items = items]
           /\ deliverable' = deliverable \ taken
    BY DEF AddDelivery
  <1> DEFINE S == {r \in References : items[r] > 0}
  <1>2. /\ S \in SUBSET References
        /\ deliverable' = deliverable \ S
        /\ \A r \in S : r \in deliverable /\ Plan(r) > 0
    BY <1>1 DEF Offered, Plan
  <1>3. ItemsOf(d) = {} /\ ~Realized(d)
    BY DEF AddDelivery, Exists, Handled
  <1>4. ItemsOf(d)' = S /\ ~Realized(d)' /\ Exists(d)' /\ deliveries'[d].status = "OPEN"
    BY <1>1, <1>3 DEF ItemsOf, Realized, Exists, Rows, Delivery
  <1>5. \A e \in Deliveries \ {d} :
           /\ ItemsOf(e)' = ItemsOf(e) /\ Realized(e)' = Realized(e) /\ Exists(e)' = Exists(e)
           /\ deliveries'[e].status = deliveries[e].status
    BY <1>1 DEF ItemsOf, Realized, Exists, Rows
  <1>6. plans' = plans /\ \A r : Plan(r)' = Plan(r)
    BY DEF AddDelivery, Plan
  <1>7. \A e \in Deliveries : \A r \in ItemsOf(e) : r \notin S
    BY <1>2 DEF Handled
  <1> HIDE DEF S
  <1>8. Handled'
    <2>1. \A r \in deliverable' : Plan(r)' > 0
      BY <1>2, <1>6 DEF Handled
    <2>2. \A e \in Deliveries : \A r \in ItemsOf(e)' : Plan(r)' > 0 /\ r \notin deliverable'
      BY <1>2, <1>4, <1>5, <1>6 DEF Handled
    <2>3. \A e, f \in Deliveries : \A r \in ItemsOf(e)' : r \in ItemsOf(f)' => e = f
      BY <1>4, <1>5, <1>7 DEF Handled
    <2>4. \A r \in References : Plan(r)' > 0 /\ r \notin deliverable'
             => \E e \in Deliveries : r \in ItemsOf(e)'
      <3> TAKE r \in References
      <3>1. CASE r \in S
        BY <1>4, <3>1
      <3>2. CASE r \notin S
        BY <1>2, <1>3, <1>5, <1>6, <3>2 DEF Handled
      <3> QED
        BY <3>1, <3>2
    <2>5. \A e \in Deliveries : ~Exists(e)' => ItemsOf(e)' = {} /\ ~Realized(e)'
      BY <1>4, <1>5 DEF Handled
    <2>6. \A e \in Deliveries : Realized(e)' => deliveries'[e].status = "DELIVERED"
      BY <1>4, <1>5 DEF Handled
    <2> QED
      BY <2>1, <2>2, <2>3, <2>4, <2>5, <2>6 DEF Handled
  <1>9. \A r \in References :
           /\ r \in S => ParcelState(r) = "open"
           /\ ParcelState(r)' = IF r \in S THEN "underway" ELSE ParcelState(r)
    <2> TAKE r \in References
    <2>1. CASE r \in S
      <3>1. ParcelState(r) = "open"
        BY <1>2, <2>1, ParcelStates
      <3>2. r \notin deliverable' /\ plans'[r[1]][r[2]] # 0
        BY <1>2, <1>6, <2>1 DEF Plan
      <3>3. ~ \E e \in Deliveries : r \in ItemsOf(e)' /\ Realized(e)'
        BY <1>4, <1>5, <1>7, <2>1
      <3>4. ~ \E e \in Deliveries : r \in ItemsOf(e)' /\ deliveries'[e].status = "CANCELED"
        BY <1>4, <1>5, <1>7, <2>1
      <3>5. ParcelState(r)' = "underway"
        BY <3>2, <3>3, <3>4 DEF ParcelState
      <3> QED
        BY <2>1, <3>1, <3>5
    <2>2. CASE r \notin S
      <3>1. r \in deliverable' <=> r \in deliverable
        BY <1>2, <2>2
      <3>2. \A e \in Deliveries : r \in ItemsOf(e)' /\ Realized(e)' <=> r \in ItemsOf(e) /\ Realized(e)
        BY <1>3, <1>4, <1>5, <2>2
      <3>3. \A e \in Deliveries :
               r \in ItemsOf(e)' /\ deliveries'[e].status = "CANCELED"
                  <=> r \in ItemsOf(e) /\ deliveries[e].status = "CANCELED"
        BY <1>3, <1>4, <1>5, <2>2
      <3>4. ParcelState(r)' = ParcelState(r)
        BY <1>6, <3>1, <3>2, <3>3 DEF ParcelState
      <3> QED
        BY <2>2, <3>4
    <2> QED
      BY <2>1, <2>2
  <1>10. Parcel!Move("open", "underway") => Parcel!Next
    BY DEF Parcel!Next
  <1> QED
    BY <1>2, <1>8, <1>9, <1>10, PartsMove

\* The parcels of a delivery that is neither cancelled nor realized are under
\* way; when the delivery is, they end with it, and no others do.
LEMMA DeliveryEnds ==
    ASSUME Rows, Handled, NEW d \in Deliveries, NEW to,
           plans' = plans, deliverable' = deliverable,
           Exists(d), ~Realized(d), deliveries[d].status # "CANCELED",
           \A e \in Deliveries : ItemsOf(e)' = ItemsOf(e),
           \A e \in Deliveries \ {d} :
              /\ Realized(e)' = Realized(e) /\ Exists(e)' = Exists(e)
              /\ deliveries'[e].status = deliveries[e].status,
           \/ to = "completed" /\ Realized(d)' /\ deliveries'[d].status = "DELIVERED"
           \/ to = "withdrawn" /\ ~Realized(d)' /\ deliveries'[d].status = "CANCELED"
    PROVE  Handled' /\ [Parcel!Next]_[r \in References |-> ParcelState(r)]
  <1>1. \A r : Plan(r)' = Plan(r)
    BY DEF Plan
  <1>2. Exists(d)'
    BY DEF Exists
  <1>3. Handled'
    <2>1. \A e \in Deliveries : ~Exists(e)' => ItemsOf(e)' = {} /\ ~Realized(e)'
      BY <1>2 DEF Handled
    <2>2. \A e \in Deliveries : Realized(e)' => deliveries'[e].status = "DELIVERED"
      BY DEF Handled
    <2> QED
      BY <1>1, <2>1, <2>2 DEF Handled
  <1>4. ItemsOf(d) \in SUBSET References
    BY DEF ItemsOf
  <1>5. \A r \in References :
           /\ r \in ItemsOf(d) => ParcelState(r) = "underway"
           /\ ParcelState(r)' = IF r \in ItemsOf(d) THEN to ELSE ParcelState(r)
    <2> TAKE r \in References
    <2>1. CASE r \in ItemsOf(d)
      <3>1. /\ Plan(r) > 0 /\ r \notin deliverable
            /\ \A e \in Deliveries : r \in ItemsOf(e) => e = d
        BY <2>1 DEF Handled
      <3>2. ParcelState(r) = "underway"
        BY <3>1, ParcelStates
      <3>3. plans'[r[1]][r[2]] # 0 /\ r \notin deliverable'
        BY <3>1 DEF Plan
      <3>4. ParcelState(r)' = to
        BY <2>1, <3>1, <3>3 DEF ParcelState
      <3> QED
        BY <2>1, <3>2, <3>4
    <2>2. CASE r \notin ItemsOf(d)
      <3>1. \A e \in Deliveries :
               /\ r \in ItemsOf(e)' /\ Realized(e)' <=> r \in ItemsOf(e) /\ Realized(e)
               /\ r \in ItemsOf(e)' /\ deliveries'[e].status = "CANCELED"
                     <=> r \in ItemsOf(e) /\ deliveries[e].status = "CANCELED"
        BY <2>2
      <3>2. ParcelState(r)' = ParcelState(r)
        BY <3>1 DEF ParcelState
      <3> QED
        BY <2>2, <3>2
    <2> QED
      BY <2>1, <2>2
  <1>6. Parcel!Move("underway", to) => Parcel!Next
    BY DEF Parcel!Next
  <1>7. PICK S \in SUBSET References : S = ItemsOf(d)
    BY <1>4
  <1>8. \A r \in References :
           /\ r \in S => ParcelState(r) = "underway"
           /\ ParcelState(r)' = IF r \in S THEN to ELSE ParcelState(r)
    BY <1>5, <1>7
  <1>9. [Parcel!Next]_[r \in References |-> ParcelState(r)]
    BY <1>6, <1>8, PartsMove
  <1> QED
    BY <1>3, <1>9

LEMMA CancelMoves ==
    ASSUME ~StalePages, Rows, Handled, NEW d \in Deliveries, Cancel(d)
    PROVE  Handled' /\ [Parcel!Next]_[r \in References |-> ParcelState(r)]
  <1>1. /\ deliveries' = [deliveries EXCEPT ![d].status = "CANCELED"]
        /\ Exists(d) /\ ~Realized(d) /\ deliveries[d].status # "CANCELED"
        /\ plans' = plans /\ deliverable' = deliverable
    BY DEF Cancel
  <1>2. \A e \in Deliveries : ItemsOf(e)' = ItemsOf(e) /\ Realized(e)' = Realized(e)
    BY <1>1 DEF ItemsOf, Realized, Rows, Delivery
  <1>3. deliveries'[d].status = "CANCELED"
    BY <1>1 DEF Rows, Delivery
  <1>4. \A e \in Deliveries \ {d} :
           /\ Realized(e)' = Realized(e) /\ Exists(e)' = Exists(e)
           /\ deliveries'[e].status = deliveries[e].status
    BY <1>1 DEF Realized, Exists, Rows
  <1>5. ~Realized(d)'
    BY <1>1, <1>2
  <1>6. \A e \in Deliveries : ItemsOf(e)' = ItemsOf(e)
    BY <1>2
  <1> DEFINE to == "withdrawn"
  <1>7. to = "withdrawn" /\ ~Realized(d)' /\ deliveries'[d].status = "CANCELED"
    BY <1>3, <1>5
  <1> HIDE DEF to
  <1> QED
    BY <1>1, <1>4, <1>6, <1>7, DeliveryEnds

LEMMA RealizeMoves ==
    ASSUME ~StalePages, Rows, Handled, NEW d \in Deliveries, Realize(d)
    PROVE  Handled' /\ [Parcel!Next]_[r \in References |-> ParcelState(r)]
  <1>1. PICK accepted \in SUBSET ItemsOf(d) :
           /\ accepted # {}
           /\ deliveries' = [deliveries EXCEPT ![d].status = "DELIVERED",
                                               ![d].accepted = @ \cup accepted]
    BY DEF Realize
  <1>2. deliveries[d].status = "SENT" /\ plans' = plans /\ deliverable' = deliverable
    BY DEF Realize
  <1>3. Exists(d) /\ ~Realized(d)
    BY <1>2 DEF Exists, Handled
  <1>4. \A e \in Deliveries : ItemsOf(e)' = ItemsOf(e)
    BY <1>1 DEF ItemsOf, Rows, Delivery
  <1>5. deliveries'[d].status = "DELIVERED" /\ Realized(d)'
    BY <1>1 DEF Realized, Rows, Delivery
  <1>6. \A e \in Deliveries \ {d} :
           /\ Realized(e)' = Realized(e) /\ Exists(e)' = Exists(e)
           /\ deliveries'[e].status = deliveries[e].status
    BY <1>1 DEF Exists, Realized, Rows
  <1> QED
    BY <1>2, <1>3, <1>4, <1>5, <1>6, DeliveryEnds

LEMMA NextMoves ==
    ASSUME ~StalePages, Rows, Handled, [Next]_vars
    PROVE  Handled' /\ [Parcel!Next]_[r \in References |-> ParcelState(r)]
  <1> DEFINE Moves == Handled' /\ [Parcel!Next]_[r \in References |-> ParcelState(r)]
  <1> SUFFICES Moves
    OBVIOUS
  <1> HIDE DEF Moves
  <1>1. ASSUME UNCHANGED <<plans, deliverable, deliveries>> PROVE Moves
    <2>1. \A d \in Deliveries : Realized(d) => deliveries[d].status = "DELIVERED"
      BY DEF Handled
    <2> QED
      BY <1>1, <2>1, DeliveriesAlone, NothingMoves DEF Moves
  <1>2. ASSUME NEW o \in Orders, AddOrder(o) \/ Decide(o) \/ SaveOrder(o) \/ Close(o) PROVE Moves
    BY <1>1, <1>2 DEF AddOrder, Decide, SaveOrder, Close
  <1>3. CASE UNCHANGED vars
    BY <1>1, <1>3 DEF vars
  <1>4. ASSUME NEW o \in Orders, NEW s \in Sequences, AddSequence(o, s) PROVE Moves
    BY <1>4, AddSequenceMoves DEF Moves
  <1>5. ASSUME NEW s \in Sequences, DeleteSequence(s) PROVE Moves
    BY <1>5, DeleteSequenceMoves DEF Moves
  <1>6. ASSUME NEW d \in Deliveries, SaveDelivery(d) \/ Send(d) PROVE Moves
    BY <1>6, SaveAndSend DEF Moves
  <1>7. ASSUME NEW d \in Deliveries, AddDelivery(d) PROVE Moves
    BY <1>7, AddDeliveryMoves DEF Moves
  <1>8. ASSUME NEW d \in Deliveries, Cancel(d) PROVE Moves
    BY <1>8, CancelMoves DEF Moves
  <1>9. ASSUME NEW d \in Deliveries, Realize(d) PROVE Moves
    BY <1>9, RealizeMoves DEF Moves
  <1> QED
    BY <1>2, <1>3, <1>4, <1>5, <1>6, <1>7, <1>8, <1>9 DEF Next

\* While pages are up to date, planning and delivering handle every reference
\* as Fulfilment says: it leaves at most once, and comes back or is handed
\* over for good.
THEOREM ImplementsFulfilment ==
    ASSUME ~StalePages
    PROVE  Spec => ParcelSpec
  <1>1. Init => Handled
    BY InitHandled
  <1>2. Init => Parcel!Init
    BY DEF Init, Parcel!Init, ParcelState, References, Nothing
  <1>3. Rows /\ Handled /\ [Next]_vars => Handled'
    BY NextMoves
  <1>4. Rows /\ Handled /\ [Next]_vars => [Parcel!Next]_[r \in References |-> ParcelState(r)]
    BY NextMoves
  <1> QED
    BY <1>1, <1>2, <1>3, <1>4, AlwaysRows, PTL DEF Spec, ParcelSpec, Parcel!Spec
----------------------------------------------------------------------------
(* The counters of the lines. *)

LEMMA AmountIsNatural ==
    ASSUME NEW items \in [References -> Quantities], NEW l \in Lines
    PROVE  Amount(items, l) \in Int /\ Amount(items, l) >= 0
  <1> DEFINE column == [s \in Sequences |-> items[<<s, l>>]]
  <1>1. \A s \in Sequences : <<s, l>> \in References
    BY DEF References
  <1>2. column \in [Sequences -> Int] /\ \A s \in Sequences : column[s] >= 0
    BY <1>1, QuantityBound DEF Quantities
  <1>3. Amount(items, l) = SumFunction(column)
    BY DEF Amount
  <1> HIDE DEF column
  <1> QED
    BY <1>2, <1>3, FiniteBounds, SumFunctionNat

LEMMA EnteredLines ==
    ASSUME TypeOK, NEW o \in Orders, lines' \in Entered(o)
    PROVE  /\ lines' \in [Lines -> Line]
           /\ \A l \in Lines : /\ lines'[l].assigned = lines[l].assigned
                               /\ lines'[l].delivered = lines[l].delivered
           /\ \A l \in Lines : \/ l \in LinesOf(o) /\ lines'[l].quantity > 0
                               \/ lines'[l] = lines[l]
  <1>1. PICK quantity \in [LinesOf(o) -> Quantities \ {0}] :
           lines' = [l \in Lines |-> IF l \in LinesOf(o)
              THEN [lines[l] EXCEPT !.quantity = quantity[l]] ELSE lines[l]]
    BY DEF Entered
  <1>2. \A l \in LinesOf(o) : quantity[l] \in Quantities /\ quantity[l] > 0
    BY QuantityBound DEF Quantities
  <1>3. \A l \in Lines : lines[l] \in Line
    BY DEF TypeOK
  <1> QED
    BY <1>1, <1>2, <1>3 DEF Line

LEMMA CountersOfALine ==
    ASSUME NEW line \in Line, NEW a \in Int, NEW b \in Int
    PROVE  /\ [line EXCEPT !.assigned = a] \in Line
           /\ [line EXCEPT !.delivered = b] \in Line
           /\ [line EXCEPT !.assigned = a, !.delivered = b] \in Line
           /\ [line EXCEPT !.delivered = b, !.assigned = a] \in Line
  <1>1. [line EXCEPT !.assigned = a] \in Line /\ [line EXCEPT !.delivered = b] \in Line
    BY DEF Line
  <1>2. [[line EXCEPT !.assigned = a] EXCEPT !.delivered = b] \in Line
    BY <1>1 DEF Line
  <1>3. [[line EXCEPT !.delivered = b] EXCEPT !.assigned = a] \in Line
    BY <1>1 DEF Line
  <1> QED
    BY <1>1, <1>2, <1>3

LEMMA NextTypeOK == TypeOK /\ [Next]_vars => TypeOK'
  <1> SUFFICES ASSUME TypeOK, [Next]_vars PROVE TypeOK'
    OBVIOUS
  <1>1. Rows /\ Rows'
    BY NextRows DEF TypeOK, Rows
  <1> SUFFICES lines' \in [Lines -> Line]
    BY <1>1 DEF TypeOK, Rows
  <1>2. ASSUME NEW l \in Lines, NEW n \in Int
        PROVE  /\ [lines[l] EXCEPT !.assigned = @ + n] \in Line
               /\ [lines[l] EXCEPT !.assigned = @ - n] \in Line
               /\ [lines[l] EXCEPT !.delivered = @ + n] \in Line
               /\ [lines[l] EXCEPT !.delivered = @ - n, !.assigned = @ - n] \in Line
    <2>1. lines[l] \in Line
      BY DEF TypeOK
    <2> DEFINE a == lines[l].assigned
               b == lines[l].delivered
    <2>2. a + n \in Int /\ a - n \in Int /\ b + n \in Int /\ b - n \in Int
      BY <2>1 DEF Line
    <2>3. /\ [lines[l] EXCEPT !.assigned = a + n] \in Line
          /\ [lines[l] EXCEPT !.assigned = a - n] \in Line
          /\ [lines[l] EXCEPT !.delivered = b + n] \in Line
      BY <2>1, <2>2, CountersOfALine
    <2>4. [lines[l] EXCEPT !.delivered = b - n, !.assigned = a - n] \in Line
      BY <2>1, <2>2, CountersOfALine
    <2> QED
      BY <2>3, <2>4
  <1>10. ASSUME NEW l \in Lines
         PROVE  [lines[l] EXCEPT !.assigned = 0, !.delivered = 0] \in Line
    <2>1. lines[l] \in Line /\ 0 \in Int
      BY DEF TypeOK
    <2> QED
      BY <2>1, CountersOfALine
  <1>3. ASSUME NEW o \in Orders, AddOrder(o) \/ Decide(o) \/ SaveOrder(o) \/ Close(o)
        PROVE lines' \in [Lines -> Line]
    <2>1. CASE lines' \in Entered(o)
      BY <2>1, EnteredLines
    <2>2. CASE UNCHANGED lines
      BY <2>2 DEF TypeOK
    <2>3. CASE \E form \in {CurrentForm(o), FirstForm(o)} :
                  lines' = [l \in Lines |-> IF l \in LinesOf(o) THEN form.lines[l] ELSE lines[l]]
      <3>1. FirstForm(o).lines = [l \in Lines |-> [lines[l] EXCEPT !.assigned = 0, !.delivered = 0]]
        BY DEF FirstForm
      <3>2. CurrentForm(o).lines = lines
        BY DEF CurrentForm
      <3>3. \A form \in {CurrentForm(o), FirstForm(o)} : \A l \in Lines : form.lines[l] \in Line
        BY <1>10, <3>1, <3>2 DEF TypeOK
      <3> QED
        BY <2>3, <3>3 DEF TypeOK
    <2> QED
      BY <1>3, <2>1, <2>2, <2>3 DEF AddOrder, Decide, SaveOrder, Close
  <1>4. ASSUME NEW o \in Orders, NEW s \in Sequences, AddSequence(o, s)
        PROVE lines' \in [Lines -> Line]
    <2>1. PICK quantity \in [Lines -> Quantities] :
             lines' = [l \in Lines |-> [lines[l] EXCEPT !.assigned = @ + quantity[l]]]
      BY <1>4 DEF AddSequence
    <2>2. \A l \in Lines : quantity[l] \in Int
      BY QuantitiesAreNumbers
    <2> QED
      BY <1>2, <2>1, <2>2
  <1>5. ASSUME NEW s \in Sequences, DeleteSequence(s) PROVE lines' \in [Lines -> Line]
    <2>1. \A l \in Lines : plans[s][l] \in Int
      BY <1>1, QuantitiesAreNumbers DEF Rows
    <2> QED
      BY <1>2, <1>5, <2>1 DEF DeleteSequence
  <1>6. ASSUME NEW d \in Deliveries, AddDelivery(d) PROVE lines' \in [Lines -> Line]
    <2>1. PICK items \in [References -> Quantities] :
             lines' = [l \in Lines |-> [lines[l] EXCEPT !.delivered = @ + Amount(items, l)]]
      BY <1>6 DEF AddDelivery
    <2>2. \A l \in Lines : Amount(items, l) \in Int
      BY AmountIsNatural
    <2> QED
      BY <1>2, <2>1, <2>2
  <1>7. ASSUME NEW d \in Deliveries, Cancel(d) PROVE lines' \in [Lines -> Line]
    <2>1. \A l \in Lines : Amount(deliveries[d].items, l) \in Int
      BY <1>1, AmountIsNatural DEF Rows, Delivery
    <2> QED
      BY <1>2, <1>7, <2>1 DEF Cancel
  <1>8. ASSUME NEW d \in Deliveries, SaveDelivery(d) \/ Send(d) \/ Realize(d)
        PROVE lines' \in [Lines -> Line]
    BY <1>8 DEF SaveDelivery, Send, Realize, TypeOK
  <1>9. CASE UNCHANGED vars
    BY <1>9 DEF vars, TypeOK
  <1> QED
    BY <1>3, <1>4, <1>5, <1>6, <1>7, <1>8, <1>9 DEF Next

\* Orders, lines with their counters, plans, references and deliveries keep
\* their types, with stale pages too: no counter is lost in an arithmetic
\* without a value.
THEOREM TypeCorrect == Spec => []TypeOK
  <1>1. Init => TypeOK
    <2>1. Init => lines \in [Lines -> Line]
      BY QuantitiesAreNumbers DEF Init, Line
    <2> QED
      BY <2>1, InitRows DEF TypeOK, Rows
  <1> QED
    BY <1>1, NextTypeOK, PTL DEF Spec
----------------------------------------------------------------------------
(* The counters follow the documents, while pages are up to date. *)

\* The amounts of some deliveries on a line after a step that keeps their
\* items, with one delivery more, and with one less.
LEMMA SameDeliveries ==
    ASSUME NEW D \in SUBSET Deliveries, NEW l \in Lines,
           \A e \in D : deliveries'[e].items = deliveries[e].items
    PROVE  SumFunction([e \in D |-> Amount(deliveries'[e].items, l)]) = OnDeliveries(D, l)
  <1>1. [e \in D |-> Amount(deliveries'[e].items, l)] = [e \in D |-> Amount(deliveries[e].items, l)]
    OBVIOUS
  <1> QED
    BY <1>1 DEF OnDeliveries

LEMMA AmountsAreNaturals ==
    ASSUME Rows
    PROVE  \A e \in Deliveries, l \in Lines :
              Amount(deliveries[e].items, l) \in Int /\ Amount(deliveries[e].items, l) >= 0
  BY AmountIsNatural DEF Rows, Delivery

LEMMA OnDeliveriesIsNatural ==
    ASSUME Rows, NEW D \in SUBSET Deliveries, NEW l \in Lines
    PROVE  OnDeliveries(D, l) \in Int /\ OnDeliveries(D, l) >= 0
  <1> DEFINE f == [e \in D |-> Amount(deliveries[e].items, l)]
  <1>1. f \in [D -> Int] /\ \A e \in D : f[e] >= 0
    BY AmountsAreNaturals
  <1>2. IsFiniteSet(D)
    BY FiniteBounds, FS_Subset
  <1>3. OnDeliveries(D, l) = SumFunction(f)
    BY DEF OnDeliveries
  <1> HIDE DEF f
  <1> QED
    BY <1>1, <1>2, <1>3, SumFunctionNat

LEMMA OneDeliveryMore ==
    ASSUME Rows, Rows', NEW D \in SUBSET Deliveries, NEW d \in Deliveries \ D, NEW l \in Lines,
           \A e \in D : deliveries'[e].items = deliveries[e].items
    PROVE  SumFunction([e \in D \cup {d} |-> Amount(deliveries'[e].items, l)]) =
              OnDeliveries(D, l) + Amount(deliveries'[d].items, l)
  <1> DEFINE f == [e \in D |-> Amount(deliveries[e].items, l)]
             g == [e \in D \cup {d} |-> Amount(deliveries'[e].items, l)]
  <1>1. f \in [D -> Int]
    BY AmountsAreNaturals
  <1>2. \A e \in Deliveries : Amount(deliveries'[e].items, l) \in Int
    BY AmountIsNatural DEF Rows, Delivery
  <1>3. g \in [D \cup {d} -> Int] /\ \A e \in D : g[e] = f[e]
    BY <1>2
  <1>4. IsFiniteSet(D)
    BY FiniteBounds, FS_Subset
  <1>5. g[d] = Amount(deliveries'[d].items, l) /\ OnDeliveries(D, l) = SumFunction(f)
    BY DEF OnDeliveries
  <1> HIDE DEF f, g
  <1>6. SumFunction(g) = SumFunction(f) + g[d]
    BY <1>1, <1>3, <1>4, SumFunctionJoined
  <1> QED
    BY <1>5, <1>6 DEF g

LEMMA OneDeliveryLess ==
    ASSUME Rows, NEW D \in SUBSET Deliveries, NEW d \in D, NEW l \in Lines,
           \A e \in D : deliveries'[e].items = deliveries[e].items
    PROVE  SumFunction([e \in D \ {d} |-> Amount(deliveries'[e].items, l)]) =
              OnDeliveries(D, l) - Amount(deliveries[d].items, l)
  <1> DEFINE R == D \ {d}
             f == [e \in D |-> Amount(deliveries[e].items, l)]
             g == [e \in R |-> Amount(deliveries'[e].items, l)]
  <1>1. f \in [D -> Int] /\ g \in [R -> Int] /\ \A e \in R : g[e] = f[e]
    BY AmountsAreNaturals
  <1>2. IsFiniteSet(D)
    BY FiniteBounds, FS_Subset
  <1>3. f[d] = Amount(deliveries[d].items, l) /\ OnDeliveries(D, l) = SumFunction(f)
    BY DEF OnDeliveries
  <1>5. R = D \ {d}
    OBVIOUS
  <1> HIDE DEF f, g, R
  <1>4. SumFunction(g) = SumFunction(f) - f[d]
    BY <1>1, <1>2, <1>5, SumFunctionWithout, Z3
  <1> QED
    BY <1>3, <1>4 DEF g, R

\* What is planned on a line, and the change of it with one sequence.
PlannedOn(l) == SumFunction([s \in Sequences |-> plans[s][l]])

LEMMA PlannedOnIsInt ==
    ASSUME Rows, NEW l \in Lines
    PROVE  PlannedOn(l) \in Int
  <1>1. [s \in Sequences |-> plans[s][l]] \in [Sequences -> Int]
    BY QuantitiesAreNumbers DEF Rows
  <1> QED
    BY <1>1, FiniteBounds, SumFunctionInt DEF PlannedOn

LEMMA OneSequenceChanges ==
    ASSUME Rows, Rows', NEW s \in Sequences, NEW l \in Lines,
           \A t \in Sequences \ {s} : plans'[t] = plans[t]
    PROVE  PlannedOn(l)' = PlannedOn(l) - plans[s][l] + plans'[s][l]
  <1> DEFINE f == [t \in Sequences |-> plans[t][l]]
             g == [t \in Sequences |-> plans'[t][l]]
  <1>1. f \in [Sequences -> Int] /\ g \in [Sequences -> Int]
    BY QuantitiesAreNumbers DEF Rows
  <1>2. /\ \A t \in Sequences \ {s} : g[t] = f[t]
        /\ f[s] = plans[s][l] /\ g[s] = plans'[s][l]
    OBVIOUS
  <1>3. PlannedOn(l) = SumFunction(f) /\ PlannedOn(l)' = SumFunction(g)
    BY DEF PlannedOn
  <1> HIDE DEF f, g
  <1>4. SumFunction(g) = SumFunction(f) - f[s] + g[s]
    BY <1>1, <1>2, FiniteBounds, SumFunctionChanged
  <1> QED
    BY <1>2, <1>3, <1>4

LEMMA CountersAre ==
    CountersFollowDocuments <=>
       \A l \in Lines :
          /\ lines[l].delivered = OnDeliveries(Live, l)
          /\ lines[l].assigned = PlannedOn(l) - OnDeliveries(Cancelled, l)
  BY DEF CountersFollowDocuments, PlannedOn

LEMMA CountersStill ==
    ASSUME CountersFollowDocuments, plans' = plans,
           \A e \in Deliveries : /\ deliveries'[e].items = deliveries[e].items
                                 /\ Exists(e)' = Exists(e)
                                 /\ deliveries'[e].status = "CANCELED" <=>
                                       deliveries[e].status = "CANCELED",
           \A l \in Lines : /\ lines'[l].assigned = lines[l].assigned
                            /\ lines'[l].delivered = lines[l].delivered
    PROVE  CountersFollowDocuments'
  <1>1. Live' = Live /\ Cancelled' = Cancelled
    BY DEF Live, Cancelled
  <1>2. Live \in SUBSET Deliveries /\ Cancelled \in SUBSET Deliveries
    BY DEF Live, Cancelled
  <1>3. ASSUME NEW l \in Lines
        PROVE  /\ OnDeliveries(Live, l)' = OnDeliveries(Live, l)
               /\ OnDeliveries(Cancelled, l)' = OnDeliveries(Cancelled, l)
               /\ PlannedOn(l)' = PlannedOn(l)
    BY <1>1, <1>2, SameDeliveries DEF OnDeliveries, PlannedOn
  <1> QED
    BY <1>3 DEF CountersFollowDocuments, PlannedOn

LEMMA NextCounters ==
    ASSUME ~StalePages, TypeOK, TypeOK', CountersFollowDocuments, [Next]_vars
    PROVE  CountersFollowDocuments'
  <1> DEFINE Still == \A l \in Lines : /\ lines'[l].assigned = lines[l].assigned
                                       /\ lines'[l].delivered = lines[l].delivered
  <1>1. Rows /\ Rows'
    BY DEF TypeOK, Rows
  <1>2. Live \in SUBSET Deliveries /\ Cancelled \in SUBSET Deliveries
    BY DEF Live, Cancelled
  <1>3. ASSUME Still, UNCHANGED <<plans, deliveries>> PROVE CountersFollowDocuments'
    BY <1>3, CountersStill DEF Exists
  <1>4. ASSUME NEW o \in Orders, AddOrder(o) \/ Decide(o) \/ SaveOrder(o) \/ Close(o)
        PROVE CountersFollowDocuments'
    <2>1. CASE lines' \in Entered(o)
      BY <1>3, <1>4, <2>1, EnteredLines DEF AddOrder, Decide, SaveOrder, Close
    <2>2. CASE \A l \in Lines : lines'[l] = lines[l]
      BY <1>3, <1>4, <2>2 DEF AddOrder, Decide, SaveOrder, Close
    <2> QED
      BY <1>4, <2>1, <2>2 DEF AddOrder, Decide, SaveOrder, Close, CurrentForm
  <1>5. ASSUME NEW o \in Orders, NEW s \in Sequences, AddSequence(o, s)
        PROVE CountersFollowDocuments'
    <2>1. PICK quantity \in [Lines -> Quantities] :
             /\ plans' = [plans EXCEPT ![s] = quantity]
             /\ lines' = [l \in Lines |-> [lines[l] EXCEPT !.assigned = @ + quantity[l]]]
      BY <1>5 DEF AddSequence
    <2>2. plans[s] = Nothing /\ deliveries' = deliveries
      BY <1>5 DEF AddSequence
    <2> SUFFICES ASSUME NEW l \in Lines
                 PROVE  /\ lines'[l].delivered = OnDeliveries(Live, l)'
                        /\ lines'[l].assigned = PlannedOn(l)' - OnDeliveries(Cancelled, l)'
      BY DEF CountersFollowDocuments, PlannedOn
    <2>3. PlannedOn(l)' = PlannedOn(l) - plans[s][l] + plans'[s][l]
      BY <1>1, <2>1, OneSequenceChanges DEF Rows
    <2>4. plans[s][l] = 0 /\ plans'[s][l] = quantity[l] /\ quantity[l] \in Int
      BY <1>1, <2>1, <2>2, QuantitiesAreNumbers DEF Nothing, Rows
    <2>5. /\ OnDeliveries(Live, l)' = OnDeliveries(Live, l)
          /\ OnDeliveries(Cancelled, l)' = OnDeliveries(Cancelled, l)
      BY <2>2 DEF OnDeliveries, Live, Cancelled, Exists
    <2>6. /\ lines'[l].delivered = lines[l].delivered
          /\ lines'[l].assigned = lines[l].assigned + quantity[l]
      BY <2>1 DEF TypeOK, Line
    <2>7. PlannedOn(l) \in Int /\ OnDeliveries(Cancelled, l) \in Int
      BY <1>1, <1>2, PlannedOnIsInt, OnDeliveriesIsNatural
    <2>8. /\ lines[l].delivered = OnDeliveries(Live, l)
          /\ lines[l].assigned = PlannedOn(l) - OnDeliveries(Cancelled, l)
      BY CountersAre
    <2> QED
      BY <2>3, <2>4, <2>5, <2>6, <2>7, <2>8
  <1>6. ASSUME NEW s \in Sequences, DeleteSequence(s) PROVE CountersFollowDocuments'
    <2>1. /\ plans' = [plans EXCEPT ![s] = Nothing]
          /\ lines' = [l \in Lines |-> [lines[l] EXCEPT !.assigned = @ - plans[s][l]]]
          /\ deliveries' = deliveries
      BY <1>6 DEF DeleteSequence
    <2> SUFFICES ASSUME NEW l \in Lines
                 PROVE  /\ lines'[l].delivered = OnDeliveries(Live, l)'
                        /\ lines'[l].assigned = PlannedOn(l)' - OnDeliveries(Cancelled, l)'
      BY DEF CountersFollowDocuments, PlannedOn
    <2>3. PlannedOn(l)' = PlannedOn(l) - plans[s][l] + plans'[s][l]
      BY <1>1, <2>1, OneSequenceChanges DEF Rows
    <2>4. plans'[s][l] = 0 /\ plans[s][l] \in Int
      BY <1>1, <2>1, QuantitiesAreNumbers DEF Nothing, Rows
    <2>5. /\ OnDeliveries(Live, l)' = OnDeliveries(Live, l)
          /\ OnDeliveries(Cancelled, l)' = OnDeliveries(Cancelled, l)
      BY <2>1 DEF OnDeliveries, Live, Cancelled, Exists
    <2>6. /\ lines'[l].delivered = lines[l].delivered
          /\ lines'[l].assigned = lines[l].assigned - plans[s][l]
      BY <2>1 DEF TypeOK, Line
    <2>7. PlannedOn(l) \in Int /\ OnDeliveries(Cancelled, l) \in Int
      BY <1>1, <1>2, PlannedOnIsInt, OnDeliveriesIsNatural
    <2>8. /\ lines[l].delivered = OnDeliveries(Live, l)
          /\ lines[l].assigned = PlannedOn(l) - OnDeliveries(Cancelled, l)
      BY CountersAre
    <2> QED
      BY <2>3, <2>4, <2>5, <2>6, <2>7, <2>8
  <1>7. ASSUME NEW d \in Deliveries, AddDelivery(d) PROVE CountersFollowDocuments'
    <2>1. PICK items \in [References -> Quantities] :
             /\ deliveries' = [deliveries EXCEPT ![d].status = "OPEN", ![d].items = items]
             /\ lines' = [l \in Lines |-> [lines[l] EXCEPT !.delivered = @ + Amount(items, l)]]
      BY <1>7 DEF AddDelivery
    <2>2. deliveries[d].status = "NEW" /\ plans' = plans
      BY <1>7 DEF AddDelivery
    <2>3. /\ deliveries'[d].status = "OPEN" /\ deliveries'[d].items = items
          /\ \A e \in Deliveries \ {d} : deliveries'[e] = deliveries[e]
      BY <1>1, <2>1 DEF Rows, Delivery
    <2>4. d \notin Live /\ d \notin Cancelled
      BY <2>2 DEF Live, Cancelled, Exists
    <2>5. Live' = Live \cup {d} /\ Cancelled' = Cancelled
      BY <2>2, <2>3 DEF Live, Cancelled, Exists
    <2>6. \A e \in Live \cup Cancelled : deliveries'[e].items = deliveries[e].items
      BY <1>2, <2>3, <2>4
    <2> SUFFICES ASSUME NEW l \in Lines
                 PROVE  /\ lines'[l].delivered = OnDeliveries(Live, l)'
                        /\ lines'[l].assigned = PlannedOn(l)' - OnDeliveries(Cancelled, l)'
      BY DEF CountersFollowDocuments, PlannedOn
    <2>7. OnDeliveries(Live, l)' = SumFunction([e \in Live \cup {d} |-> Amount(deliveries'[e].items, l)])
      BY <2>5 DEF OnDeliveries
    <2>8. OnDeliveries(Live, l)' = OnDeliveries(Live, l) + Amount(items, l)
      <3>1. d \in Deliveries \ Live /\ \A e \in Live : deliveries'[e].items = deliveries[e].items
        BY <2>4, <2>6
      <3>2. SumFunction([e \in Live \cup {d} |-> Amount(deliveries'[e].items, l)]) =
               OnDeliveries(Live, l) + Amount(deliveries'[d].items, l)
        BY <1>1, <1>2, <3>1, OneDeliveryMore
      <3> QED
        BY <2>3, <2>7, <3>2
    <2>9. OnDeliveries(Cancelled, l)' = OnDeliveries(Cancelled, l) /\ PlannedOn(l)' = PlannedOn(l)
      BY <1>2, <2>2, <2>5, <2>6, SameDeliveries DEF OnDeliveries, PlannedOn
    <2>10. /\ lines'[l].delivered = lines[l].delivered + Amount(items, l)
           /\ lines'[l].assigned = lines[l].assigned
      BY <2>1 DEF TypeOK, Line
    <2> QED
      BY <2>8, <2>9, <2>10, CountersAre
  <1>8. ASSUME NEW d \in Deliveries, Cancel(d) PROVE CountersFollowDocuments'
    <2>1. /\ Exists(d) /\ deliveries[d].status # "CANCELED" /\ plans' = plans
          /\ deliveries' = [deliveries EXCEPT ![d].status = "CANCELED"]
          /\ lines' = [l \in Lines |-> LET n == Amount(deliveries[d].items, l) IN
                 [lines[l] EXCEPT !.delivered = @ - n, !.assigned = @ - n]]
      BY <1>8 DEF Cancel
    <2>2. /\ deliveries'[d].status = "CANCELED"
          /\ \A e \in Deliveries : deliveries'[e].items = deliveries[e].items
          /\ \A e \in Deliveries \ {d} : deliveries'[e].status = deliveries[e].status
      BY <1>1, <2>1 DEF Rows, Delivery
    <2>3. d \in Live /\ d \notin Cancelled
      BY <2>1 DEF Live, Cancelled
    <2>4. Live' = Live \ {d} /\ Cancelled' = Cancelled \cup {d}
      BY <2>1, <2>2 DEF Live, Cancelled, Exists
    <2> SUFFICES ASSUME NEW l \in Lines
                 PROVE  /\ lines'[l].delivered = OnDeliveries(Live, l)'
                        /\ lines'[l].assigned = PlannedOn(l)' - OnDeliveries(Cancelled, l)'
      BY DEF CountersFollowDocuments, PlannedOn
    <2> DEFINE n == Amount(deliveries[d].items, l)
    <2>5. OnDeliveries(Live, l)' = OnDeliveries(Live, l) - n
      <3>1. OnDeliveries(Live, l)' = SumFunction([e \in Live \ {d} |-> Amount(deliveries'[e].items, l)])
        BY <2>4 DEF OnDeliveries
      <3> QED
        BY <1>1, <1>2, <2>2, <2>3, <3>1, OneDeliveryLess
    <2>6. OnDeliveries(Cancelled, l)' = OnDeliveries(Cancelled, l) + n
      <3>1. OnDeliveries(Cancelled, l)' =
               SumFunction([e \in Cancelled \cup {d} |-> Amount(deliveries'[e].items, l)])
        BY <2>4 DEF OnDeliveries
      <3>2. d \in Deliveries \ Cancelled /\ \A e \in Cancelled : deliveries'[e].items = deliveries[e].items
        BY <1>2, <2>2, <2>3
      <3>3. SumFunction([e \in Cancelled \cup {d} |-> Amount(deliveries'[e].items, l)]) =
               OnDeliveries(Cancelled, l) + Amount(deliveries'[d].items, l)
        BY <1>1, <1>2, <3>2, OneDeliveryMore
      <3> QED
        BY <2>2, <3>1, <3>3
    <2>7. PlannedOn(l)' = PlannedOn(l)
      BY <2>1 DEF PlannedOn
    <2>8. lines'[l].delivered = lines[l].delivered - n /\ lines'[l].assigned = lines[l].assigned - n
      BY <2>1 DEF TypeOK, Line
    <2>9. n \in Int /\ PlannedOn(l) \in Int /\ OnDeliveries(Cancelled, l) \in Int
      BY <1>1, <1>2, AmountsAreNaturals, PlannedOnIsInt, OnDeliveriesIsNatural
    <2>10. /\ lines[l].delivered = OnDeliveries(Live, l)
           /\ lines[l].assigned = PlannedOn(l) - OnDeliveries(Cancelled, l)
      BY CountersAre
    <2> HIDE DEF n
    <2> QED
      BY <2>5, <2>6, <2>7, <2>8, <2>9, <2>10
  <1>9. ASSUME NEW d \in Deliveries, SaveDelivery(d) \/ Send(d) \/ Realize(d)
        PROVE CountersFollowDocuments'
    <2>1. plans' = plans /\ lines' = lines
      BY <1>9 DEF SaveDelivery, Send, Realize
    <2>2. \A e \in Deliveries : deliveries'[e].items = deliveries[e].items
      <3>1. CASE SaveDelivery(d) \/ Send(d)
        BY <1>1, <3>1 DEF SaveDelivery, Send, Rows, Delivery
      <3>2. CASE Realize(d)
        <4>1. PICK accepted \in SUBSET ItemsOf(d) :
                 deliveries' = [deliveries EXCEPT ![d].status = "DELIVERED",
                                                  ![d].accepted = @ \cup accepted]
          BY <3>2 DEF Realize
        <4> QED
          BY <1>1, <4>1 DEF Rows, Delivery
      <3> QED
        BY <1>9, <3>1, <3>2
    <2>3. \A e \in Deliveries \ {d} : deliveries'[e].status = deliveries[e].status
      BY <1>1, <1>9 DEF SaveDelivery, Send, Realize, Rows, Delivery
    <2>4. \/ deliveries'[d].status = deliveries[d].status
          \/ /\ deliveries[d].status \notin {"NEW", "CANCELED"}
             /\ deliveries'[d].status \notin {"NEW", "CANCELED"}
      BY <1>1, <1>9 DEF SaveDelivery, Send, Realize, Rows, Delivery
    <2> QED
      BY <2>1, <2>2, <2>3, <2>4, CountersStill DEF Exists
  <1>10. CASE UNCHANGED vars
    BY <1>3, <1>10 DEF vars
  <1> QED
    BY <1>4, <1>5, <1>6, <1>7, <1>8, <1>9, <1>10 DEF Next

LEMMA InitCounters == Init => CountersFollowDocuments
  <1> SUFFICES ASSUME Init, NEW l \in Lines
               PROVE  /\ lines[l].delivered = OnDeliveries(Live, l)
                      /\ lines[l].assigned = PlannedOn(l) - OnDeliveries(Cancelled, l)
    BY CountersAre
  <1>1. Live = {} /\ Cancelled = {}
    BY DEF Init, Live, Cancelled, Exists
  <1>2. OnDeliveries({}, l) = 0
    BY FS_EmptySet, SumFunctionZero DEF OnDeliveries
  <1>3. PlannedOn(l) = 0
    <2>1. /\ [s \in Sequences |-> plans[s][l]] \in [Sequences -> Int]
          /\ \A s \in Sequences : plans[s][l] = 0
      BY DEF Init, Nothing
    <2> QED
      BY <2>1, FiniteBounds, SumFunctionZero DEF PlannedOn
  <1>4. lines[l].delivered = 0 /\ lines[l].assigned = 0
    BY DEF Init
  <1> QED
    BY <1>1, <1>2, <1>3, <1>4

\* While pages are up to date, the assigned and delivered columns of an order
\* line are what its sequences and deliveries amount to, cancelled ones given
\* back.
THEOREM CountersCorrect ==
    ASSUME ~StalePages
    PROVE  Spec => []CountersFollowDocuments
  <1>1. TypeOK /\ TypeOK' /\ CountersFollowDocuments /\ [Next]_vars => CountersFollowDocuments'
    BY NextCounters
  <1> QED
    BY <1>1, InitCounters, TypeCorrect, PTL DEF Spec
----------------------------------------------------------------------------
(* No more is planned than ordered, while pages are up to date. *)

\* An order that awaits a decision was at most forwarded, and one that is not
\* inserted yet has no approval at all.
PendingForwarded ==
    \A o \in Orders :
        /\ orders[o].decision \in Pending => orders[o].histories \subseteq {"APPROVE_AND_FORWARD"}
        /\ orders[o].soStatus = "NEW" => orders[o].decision = "NONE" /\ orders[o].histories = {}

LEMMA DecidedForwards ==
    ASSUME NEW order \in Order, NEW decision \in ApprovalDecisionStatus,
           order.histories \subseteq {"APPROVE_AND_FORWARD"}, order.soStatus # "NEW"
    PROVE  /\ Decided(order, decision).soStatus # "NEW"
           /\ Decided(order, decision).decision \in Pending
                 => Decided(order, decision).histories \subseteq {"APPROVE_AND_FORWARD"}
           /\ order.histories \subseteq Decided(order, decision).histories
  <1> DEFINE taken == [order EXCEPT !.decision = decision,
                                    !.histories = @ \cup ({decision} \cap Approving)]
  <1>1. /\ taken \in Order
        /\ taken.decision = decision
        /\ taken.soStatus = order.soStatus
        /\ taken.histories = order.histories \cup ({decision} \cap Approving)
    BY DEF Order
  <1>2. Decided(order, decision) \in {taken, Planned(taken)}
    BY DEF Decided
  <1>3. /\ Planned(taken).soStatus = "PLANNING"
        /\ Planned(taken).decision = taken.decision
        /\ Planned(taken).histories = taken.histories
    BY <1>1 DEF Planned, Order
  <1> HIDE DEF taken
  <1>4. decision \in Pending => {decision} \cap Approving \subseteq {"APPROVE_AND_FORWARD"}
    BY DEF Pending, Approving
  <1> QED
    BY <1>1, <1>2, <1>3, <1>4

LEMMA NextPendingForwarded ==
    ASSUME ~StalePages, Rows, PendingForwarded, [Next]_vars
    PROVE  PendingForwarded'
  <1>1. ASSUME \A x \in Orders : /\ orders'[x].decision = orders[x].decision
                                 /\ orders'[x].histories = orders[x].histories
                                 /\ orders'[x].soStatus = "NEW" => orders[x].soStatus = "NEW"
        PROVE PendingForwarded'
    BY <1>1 DEF PendingForwarded
  <1>2. ASSUME NEW o \in Orders, AddOrder(o) PROVE PendingForwarded'
    <2>1. PICK decision \in {"NONE", "REQUESTED"} :
             LET added == [orders[o] EXCEPT !.soStatus = "OPEN", !.decision = decision] IN
             orders' = [orders EXCEPT ![o] = IF decision = "NONE" THEN Planned(added) ELSE added]
      BY <1>2 DEF AddOrder
    <2> DEFINE added == [orders[o] EXCEPT !.soStatus = "OPEN", !.decision = decision]
    <2>2. added.histories = orders[o].histories /\ added.soStatus = "OPEN" /\ added \in Order
      BY DEF Rows, Order, SOStatus, ApprovalDecisionStatus
    <2>3. Planned(added).histories = added.histories /\ Planned(added).soStatus = "PLANNING"
      BY <2>2 DEF Planned, Order
    <2>4. orders' = [orders EXCEPT ![o] = IF decision = "NONE" THEN Planned(added) ELSE added]
      BY <2>1
    <2>5. orders[o].histories = {}
      BY <1>2 DEF AddOrder, PendingForwarded
    <2> HIDE DEF added
    <2>6. orders'[o].histories = {} /\ orders'[o].soStatus # "NEW"
      BY <2>2, <2>3, <2>4, <2>5 DEF Rows
    <2>7. \A x \in Orders \ {o} : orders'[x] = orders[x]
      BY <2>4 DEF Rows
    <2> QED
      BY <2>6, <2>7 DEF PendingForwarded
  <1>3. ASSUME NEW o \in Orders, Decide(o) PROVE PendingForwarded'
    <2>1. PICK decision \in ApprovalDecisionStatus :
             orders' = [orders EXCEPT ![o] = Decided(orders[o], decision)]
      BY <1>3 DEF Decide
    <2>2. orders[o].soStatus # "NEW" /\ orders[o].histories \subseteq {"APPROVE_AND_FORWARD"}
      BY <1>3 DEF Decide, PendingForwarded
    <2>3. /\ Decided(orders[o], decision).soStatus # "NEW"
          /\ Decided(orders[o], decision).decision \in Pending
                => Decided(orders[o], decision).histories \subseteq {"APPROVE_AND_FORWARD"}
      BY <2>2, DecidedForwards DEF Rows
    <2>4. /\ orders'[o] = Decided(orders[o], decision)
          /\ \A x \in Orders \ {o} : orders'[x] = orders[x]
      BY <2>1 DEF Rows
    <2> QED
      BY <2>3, <2>4 DEF PendingForwarded
  <1>4. ASSUME NEW o \in Orders, SaveOrder(o) PROVE PendingForwarded'
    <2>1. orders' = orders
      BY <1>4 DEF SaveOrder, CurrentForm, Rows
    <2> QED
      BY <1>1, <2>1
  <1>5. ASSUME NEW o \in Orders, Close(o) PROVE PendingForwarded'
    <2>1. PICK status \in {"CLOSE", "CANCELED"} :
             orders' = [orders EXCEPT ![o].soStatus = status]
      BY <1>5 DEF Close
    <2> QED
      BY <1>1, <2>1 DEF Rows, Order
  <1>6. ASSUME NEW d \in Deliveries, AddDelivery(d) PROVE PendingForwarded'
    BY <1>1, <1>6 DEF AddDelivery, Rows, Order
  <1>7. CASE UNCHANGED orders
    BY <1>1, <1>7
  <1> QED
    BY <1>2, <1>3, <1>4, <1>5, <1>6, <1>7
    DEF Next, vars, AddSequence, DeleteSequence, SaveDelivery, Send, Cancel, Realize

\* Nothing is assigned on the lines of an order that is not planned.
LEMMA UnplannedIsUnassigned ==
    ASSUME Rows, CountersFollowDocuments, PlannedIsApproved,
           NEW l \in Lines, ~orders[OrderOf[l]].planned
    PROVE  lines[l].assigned <= 0
  <1>1. /\ [s \in Sequences |-> plans[s][l]] \in [Sequences -> Int]
        /\ \A s \in Sequences : plans[s][l] = 0
    BY QuantityBound DEF PlannedIsApproved, Rows, Quantities
  <1>2. PlannedOn(l) = 0
    BY <1>1, FiniteBounds, SumFunctionZero DEF PlannedOn
  <1>3. OnDeliveries(Cancelled, l) \in Int /\ OnDeliveries(Cancelled, l) >= 0
    BY OnDeliveriesIsNatural DEF Cancelled
  <1> QED
    BY <1>2, <1>3, CountersAre

LEMMA NextPlannedWithinOrder ==
    ASSUME ~StalePages, TypeOK, TypeOK', CountersFollowDocuments, PlannedIsApproved,
           PendingForwarded, PlannedWithinOrder, [Next]_vars
    PROVE  PlannedWithinOrder'
  <1> DEFINE Forwarded(l) == "APPROVE_AND_FORWARD" \in orders[OrderOf[l]].histories
  <1>1. /\ Rows
        /\ \A l \in Lines : OrderOf[l] \in Orders
        /\ \A l \in Lines : lines[l].assigned \in Int /\ lines[l].quantity \in Int
        /\ \A l \in Lines : lines'[l].assigned \in Int /\ lines'[l].quantity \in Int
    BY OrderAssumption, QuantitiesAreNumbers DEF TypeOK, Rows, Line
  \* Neither the quantity, the counter nor the approvals get worse.
  <1>2. ASSUME \A l \in Lines : /\ lines'[l].quantity = lines[l].quantity
                                /\ lines'[l].assigned <= lines[l].assigned
                                /\ Forwarded(l) => Forwarded(l)'
        PROVE PlannedWithinOrder'
    BY <1>1, <1>2 DEF PlannedWithinOrder
  \* Only the lines of an order that was never planned, or was forwarded, are
  \* entered.
  <1>3. ASSUME NEW o \in Orders, lines' \in Entered(o),
               \/ orders[o].decision \in Pending /\ orders[o].soStatus # "NEW"
               \/ ~orders[o].planned,
               \A x \in Orders : orders[x].histories \subseteq orders'[x].histories
        PROVE PlannedWithinOrder'
    <2> SUFFICES ASSUME NEW l \in Lines, lines'[l].assigned > lines'[l].quantity,
                        ~Forwarded(l)
                 PROVE FALSE
      BY <1>1, <1>3 DEF PlannedWithinOrder
    <2>1. /\ lines'[l].assigned = lines[l].assigned
          /\ (l \in LinesOf(o) /\ lines'[l].quantity > 0) \/ lines'[l] = lines[l]
      BY <1>3, EnteredLines
    <2>2. OrderOf[l] = o /\ lines'[l].quantity > 0
      BY <1>1, <2>1 DEF PlannedWithinOrder, LinesOf
    <2>3. ~orders[o].planned
      <3>1. CASE orders[o].decision \in Pending
        <4>1. orders[o].histories = {}
          BY <2>2, <3>1 DEF PendingForwarded
        <4>2. orders[o].decision # "NONE"
          BY <3>1 DEF Pending
        <4> QED
          BY <4>1, <4>2 DEF PlannedIsApproved
      <3> QED
        BY <1>3, <3>1
    <2>4. lines[l].assigned <= 0
      BY <1>1, <2>2, <2>3, UnplannedIsUnassigned
    <2> QED
      BY <1>1, <2>1, <2>2, <2>4
  <1>4. ASSUME NEW o \in Orders, AddOrder(o) PROVE PlannedWithinOrder'
    <2>1. ~orders[o].planned /\ orders[o].histories = {}
      BY <1>4 DEF AddOrder, PlannedIsApproved, PendingForwarded
    <2>2. \A x \in Orders \ {o} : orders'[x] = orders[x]
      BY <1>1, <1>4 DEF AddOrder, Rows
    <2>3. \A x \in Orders : orders[x].histories \subseteq orders'[x].histories
      BY <2>1, <2>2
    <2> QED
      BY <1>3, <1>4, <2>1, <2>3 DEF AddOrder
  <1>5. ASSUME NEW o \in Orders, Decide(o) PROVE PlannedWithinOrder'
    <2>1. PICK decision \in ApprovalDecisionStatus :
             orders' = [orders EXCEPT ![o] = Decided(orders[o], decision)]
      BY <1>5 DEF Decide
    <2>2. /\ orders[o].decision \in Pending /\ orders[o].soStatus # "NEW"
          /\ orders[o].histories \subseteq {"APPROVE_AND_FORWARD"}
      BY <1>5 DEF Decide, PendingForwarded
    <2>3. orders[o].histories \subseteq Decided(orders[o], decision).histories
      BY <1>1, <2>2, DecidedForwards DEF Rows
    <2>4. \A x \in Orders : orders[x].histories \subseteq orders'[x].histories
      BY <1>1, <2>1, <2>3 DEF Rows
    <2> QED
      BY <1>3, <1>5, <2>2, <2>4 DEF Decide
  <1>6. ASSUME NEW o \in Orders, SaveOrder(o) PROVE PlannedWithinOrder'
    <2>1. orders' = orders /\ orders[o].soStatus # "NEW"
      BY <1>1, <1>6 DEF SaveOrder, CurrentForm, Rows
    <2>2. \/ orders[o].decision \in Pending /\ lines' \in Entered(o)
          \/ \A l \in Lines : lines'[l] = lines[l]
      BY <1>6 DEF SaveOrder, CurrentForm
    <2>3. CASE \A l \in Lines : lines'[l] = lines[l]
      BY <1>1, <1>2, <2>1, <2>3
    <2> QED
      BY <1>3, <2>1, <2>2, <2>3
  <1>7. ASSUME NEW o \in Orders, Close(o) PROVE PlannedWithinOrder'
    <2>1. PICK status \in {"CLOSE", "CANCELED"} :
             orders' = [orders EXCEPT ![o].soStatus = status]
      BY <1>7 DEF Close
    <2>2. \A x \in Orders : orders'[x].histories = orders[x].histories
      BY <1>1, <2>1 DEF Rows, Order
    <2>3. lines' = lines
      BY <1>7 DEF Close
    <2> QED
      BY <1>1, <1>2, <2>2, <2>3
  <1>8. ASSUME NEW o \in Orders, NEW s \in Sequences, AddSequence(o, s) PROVE PlannedWithinOrder'
    <2>1. PICK quantity \in [Lines -> Quantities] :
             /\ \A l \in Lines : quantity[l] > 0 => quantity[l] <= lines[l].quantity - lines[l].assigned
             /\ lines' = [l \in Lines |-> [lines[l] EXCEPT !.assigned = @ + quantity[l]]]
      BY <1>8 DEF AddSequence, Unassigned
    <2>2. \A l \in Lines : /\ lines'[l].quantity = lines[l].quantity
                           /\ lines'[l].assigned = lines[l].assigned + quantity[l]
      BY <2>1 DEF TypeOK, Line
    <2>3. \A l \in Lines : quantity[l] \in Int /\ quantity[l] >= 0
      BY QuantityBound DEF Quantities
    <2>4. orders' = orders
      BY <1>8 DEF AddSequence
    <2> SUFFICES ASSUME NEW l \in Lines, lines'[l].assigned > lines'[l].quantity
                 PROVE  Forwarded(l)
      BY <2>4 DEF PlannedWithinOrder
    <2>5. quantity[l] = 0
      BY <1>1, <2>1, <2>2, <2>3
    <2> QED
      BY <1>1, <2>2, <2>5 DEF PlannedWithinOrder
  <1>9. ASSUME NEW s \in Sequences, DeleteSequence(s) PROVE PlannedWithinOrder'
    <2>1. /\ lines' = [l \in Lines |-> [lines[l] EXCEPT !.assigned = @ - plans[s][l]]]
          /\ orders' = orders
      BY <1>9 DEF DeleteSequence
    <2>2. \A l \in Lines : plans[s][l] \in Int /\ plans[s][l] >= 0
      BY <1>1, QuantityBound DEF Rows, Quantities
    <2>3. \A l \in Lines : /\ lines'[l].quantity = lines[l].quantity
                           /\ lines'[l].assigned = lines[l].assigned - plans[s][l]
      BY <2>1 DEF TypeOK, Line
    <2> QED
      BY <1>1, <1>2, <2>1, <2>2, <2>3
  <1>10. ASSUME NEW d \in Deliveries, AddDelivery(d) PROVE PlannedWithinOrder'
    <2>1. \A l \in Lines : /\ lines'[l].quantity = lines[l].quantity
                           /\ lines'[l].assigned = lines[l].assigned
      BY <1>10 DEF AddDelivery, TypeOK, Line
    <2>2. \A x \in Orders : orders'[x].histories = orders[x].histories
      BY <1>1, <1>10 DEF AddDelivery, Rows, Order
    <2> QED
      BY <1>1, <1>2, <2>1, <2>2
  <1>11. ASSUME NEW d \in Deliveries, Cancel(d) PROVE PlannedWithinOrder'
    <2>1. /\ lines' = [l \in Lines |-> LET n == Amount(deliveries[d].items, l) IN
                 [lines[l] EXCEPT !.delivered = @ - n, !.assigned = @ - n]]
          /\ orders' = orders
      BY <1>11 DEF Cancel
    <2>2. \A l \in Lines : /\ lines'[l].quantity = lines[l].quantity
                           /\ lines'[l].assigned = lines[l].assigned - Amount(deliveries[d].items, l)
      BY <2>1 DEF TypeOK, Line
    <2>3. \A l \in Lines : /\ Amount(deliveries[d].items, l) \in Int
                           /\ Amount(deliveries[d].items, l) >= 0
      BY <1>1, AmountsAreNaturals
    <2>4. \A l \in Lines : lines'[l].assigned <= lines[l].assigned
      BY <1>1, <2>2, <2>3
    <2> QED
      BY <1>1, <1>2, <2>1, <2>2, <2>4
  <1>12. CASE UNCHANGED <<orders, lines>>
    BY <1>1, <1>2, <1>12
  <1> QED
    BY <1>4, <1>5, <1>6, <1>7, <1>8, <1>9, <1>10, <1>11, <1>12
    DEF Next, vars, SaveDelivery, Send, Realize

\* While pages are up to date, more is assigned of a line than was ordered
\* only after an approver forwarded the order, so that it was planned before
\* a later one lowered the quantity.
THEOREM NeverOverplanned ==
    ASSUME ~StalePages
    PROVE  Spec => []PlannedWithinOrder
  <1>1. Init => PlannedIsApproved /\ PendingForwarded /\ PlannedWithinOrder
    BY OrderAssumption, QuantitiesAreNumbers
    DEF Init, PlannedIsApproved, PendingForwarded, PlannedWithinOrder, Nothing, Pending
  <1>2. TypeOK /\ TypeOK' /\ PlannedIsApproved /\ [Next]_vars => PlannedIsApproved'
    BY NextPlannedIsApproved DEF TypeOK, Rows
  <1>3. TypeOK /\ PendingForwarded /\ [Next]_vars => PendingForwarded'
    BY NextPendingForwarded DEF TypeOK, Rows
  <1>4. TypeOK /\ TypeOK' /\ CountersFollowDocuments /\ PlannedIsApproved /\ PendingForwarded
           /\ PlannedWithinOrder /\ [Next]_vars => PlannedWithinOrder'
    <2> SUFFICES ASSUME TypeOK, TypeOK', CountersFollowDocuments, PlannedIsApproved,
                        PendingForwarded, PlannedWithinOrder, [Next]_vars
                 PROVE  PlannedWithinOrder'
      OBVIOUS
    <2> QED
      BY NextPlannedWithinOrder
  <1> QED
    BY <1>1, <1>2, <1>3, <1>4, TypeCorrect, CountersCorrect, PTL DEF Spec
=============================================================================
