--------------------------- MODULE SalesFulfilment ---------------------------
(***************************************************************************)
(* From the sales order to the realization of its deliveries:              *)
(* SalesOrderService, the approval of orders, DeliveryPlanning(Sequence)-  *)
(* Service, DeliveryOrderService and DeliveryOrderRealizationService.      *)
(*                                                                         *)
(* A sequence of a planning has at most one item per order line, and each  *)
(* item its DeliveryOrderReferenceItem, so a reference is named by the     *)
(* sequence and the line.  Orders are of one customer: one delivery may    *)
(* take references of several.                                             *)
(*                                                                         *)
(* The services check next to nothing: what may be requested is decided by *)
(* the pages.  With StalePages a request may come from a page that was     *)
(* opened earlier.                                                         *)
(***************************************************************************)
EXTENDS Integers, FiniteSets, Functions

CONSTANTS
    Lines,          \* SalesOrderItem
    Orders, OrderOf,
    Sequences,      \* bound: DeliveryPlanningSequence
    Deliveries,     \* bound: DeliveryOrder
    MaxQuantity,    \* bound: quantity of a line
    StalePages

ASSUME OrderAssumption == OrderOf \in [Lines -> Orders]
ASSUME QuantityBound == MaxQuantity \in Nat \ {0}
ASSUME FiniteBounds == IsFiniteSet(Sequences) /\ IsFiniteSet(Deliveries)
ASSUME PagesAssumption == StalePages \in BOOLEAN

References == Sequences \X Lines
Quantities == 0..MaxQuantity
SOStatus == {"NEW", "OPEN", "PLANNING", "DELIVERED", "CLOSE", "CANCELED"}
DeliveryStatus == {"NEW", "OPEN", "SENT", "DELIVERED", "CANCELED"}
ApprovalDecisionStatus ==
    {"REQUESTED", "FORWARD", "APPROVE_AND_FORWARD", "REJECTED", "APPROVE_AND_FINISH"}
Approving == {"APPROVE_AND_FORWARD", "APPROVE_AND_FINISH"}
Pending == {"REQUESTED", "FORWARD", "APPROVE_AND_FORWARD"}

VARIABLES orders, lines, plans, deliverable, deliveries
vars == <<orders, lines, plans, deliverable, deliveries>>

\* "NEW" stands for a row not inserted yet, "NONE" for an order that no
\* approver was chosen for.  planned: the order has a DeliveryPlanning;
\* histories: the approvals among its ApprovalHistory rows.
Order == [soStatus : SOStatus, decision : ApprovalDecisionStatus \cup {"NONE"},
          histories : SUBSET Approving, planned : BOOLEAN]
Line == [quantity : Quantities, assigned : Int, delivered : Int]
Delivery == [status : DeliveryStatus, items : [References -> Quantities],
             accepted : SUBSET References]

TypeOK ==
    /\ orders \in [Orders -> Order]
    /\ lines \in [Lines -> Line]
    /\ plans \in [Sequences -> [Lines -> Quantities]]
    /\ deliverable \in SUBSET References
    /\ deliveries \in [Deliveries -> Delivery]

LinesOf(o) == {l \in Lines : OrderOf[l] = o}
Nothing == [l \in Lines |-> 0]
Exists(d) == deliveries[d].status # "NEW"
ItemsOf(d) == {r \in References : deliveries[d].items[r] > 0}
\* DeliveryPlanningSequence.getDeliveryOrders; cancelled ones count.
DeliveryOrders(s) == {d \in Deliveries : \E l \in Lines : <<s, l>> \in ItemsOf(d)}
Realized(d) == deliveries[d].accepted # {}

\* What the items of a delivery amount to on a line.
Amount(items, l) == SumFunction([s \in Sequences |-> items[<<s, l>>]])

Init ==
    /\ orders = [o \in Orders |-> [soStatus |-> "NEW", decision |-> "NONE",
                                   histories |-> {}, planned |-> FALSE]]
    /\ lines = [l \in Lines |-> [quantity |-> 0, assigned |-> 0, delivered |-> 0]]
    /\ plans = [s \in Sequences |-> Nothing]
    /\ deliverable = {}
    /\ deliveries = [d \in Deliveries |->
           [status |-> "NEW", items |-> [r \in References |-> 0], accepted |-> {}]]

\* DeliveryPlanningService.add.
Planned(order) == [order EXCEPT !.planned = TRUE, !.soStatus = "PLANNING"]

\* The lines of an order with the quantities a form may hold.
Entered(o) ==
    {[l \in Lines |-> IF l \in LinesOf(o)
        THEN [lines[l] EXCEPT !.quantity = quantity[l]] ELSE lines[l]] :
     quantity \in [LinesOf(o) -> Quantities \ {0}]}

\* SalesOrderService.add: without an approver the planning is added at once.
AddOrder(o) ==
    /\ orders[o].soStatus = "NEW"
    /\ lines' \in Entered(o)
    /\ \E decision \in {"NONE", "REQUESTED"} :
          LET added == [orders[o] EXCEPT !.soStatus = "OPEN", !.decision = decision] IN
          orders' = [orders EXCEPT ![o] = IF decision = "NONE" THEN Planned(added) ELSE added]
    /\ UNCHANGED <<plans, deliverable, deliveries>>

FaultRecorded(order, decision) ==
    LET taken == [order EXCEPT !.decision = decision, !.histories = @ \cup {decision}] IN
    IF decision \in Approving /\ ~order.planned THEN Planned(taken) ELSE taken
FaultPlanned(order, decision) ==
    LET taken == [order EXCEPT !.decision = decision,
                               !.histories = @ \cup ({decision} \cap Approving)] IN
    IF ~order.planned THEN Planned(taken) ELSE taken

\* ApprovableSiblingRole and SalesOrderApprovableInterceptor.
Decided(order, decision) ==
    LET taken == [order EXCEPT !.decision = decision,
                               !.histories = @ \cup ({decision} \cap Approving)] IN
    IF decision \in Approving /\ ~order.planned THEN Planned(taken) ELSE taken

\* SalesOrderService.edit with a decision.  As long as the approval is pending
\* the page of the approver takes a decision and changes of the quantities.
Decide(o) ==
    /\ orders[o].decision # "NONE"
    /\ orders[o].decision \in Pending \/ StalePages
    /\ \E decision \in ApprovalDecisionStatus :
          orders' = [orders EXCEPT ![o] = Decided(orders[o], decision)]
    /\ lines' \in Entered(o)
    /\ UNCHANGED <<plans, deliverable, deliveries>>

\* The order and its lines as they were when it was added.
FirstForm(o) ==
    [order |-> [orders[o] EXCEPT
                  !.decision = IF @ = "NONE" THEN "NONE" ELSE "REQUESTED",
                  !.soStatus = IF orders[o].decision = "NONE" THEN "PLANNING" ELSE "OPEN"],
     lines |-> [l \in Lines |-> [lines[l] EXCEPT !.assigned = 0, !.delivered = 0]]]
CurrentForm(o) == [order |-> orders[o], lines |-> lines]

\* SalesOrderService.edit without one: the order of the form, its lines and
\* decision are attached again and every column of them is written.
SaveOrder(o) ==
    /\ orders[o].soStatus # "NEW"
    /\ \/ /\ orders[o].decision \in Pending
          /\ lines' \in Entered(o)
          /\ UNCHANGED orders
       \/ \E form \in {CurrentForm(o)} \cup (IF StalePages THEN {FirstForm(o)} ELSE {}) :
             /\ orders' = [orders EXCEPT ![o] = form.order]
             /\ lines' = [l \in Lines |-> IF l \in LinesOf(o) THEN form.lines[l] ELSE lines[l]]
    /\ UNCHANGED <<plans, deliverable, deliveries>>

\* The buttons of the order's page.
Closing(o, status) ==
    \/ /\ status = "CLOSE"
       /\ orders[o].decision = "APPROVE_AND_FINISH"
       /\ orders[o].soStatus \notin {"CLOSE", "CANCELED"}
    \/ status = "CANCELED" /\ orders[o].soStatus \in {"OPEN", "PLANNING"}

\* SalesOrderService.close.
Close(o) ==
    /\ orders[o].soStatus # "NEW"
    /\ \E status \in {"CLOSE", "CANCELED"} :
          /\ Closing(o, status) \/ StalePages
          /\ orders' = [orders EXCEPT ![o].soStatus = status]
    /\ UNCHANGED <<lines, plans, deliverable, deliveries>>

\* The page offers what is not assigned yet of an order that is not closed;
\* an older page what was not assigned when it was opened.
FaultUnassigned(l) == lines[l].quantity
Unassigned(l) == IF StalePages THEN lines[l].quantity ELSE lines[l].quantity - lines[l].assigned
FaultPlanable(o) == orders[o].planned
Planable(o) ==
    /\ orders[o].planned
    /\ orders[o].soStatus \notin {"CLOSE", "CANCELED"} \/ StalePages

\* DeliveryPlanningSequenceService.add.
AddSequence(o, s) ==
    /\ Planable(o)
    /\ plans[s] = Nothing
    /\ \E quantity \in [Lines -> Quantities] :
          /\ quantity # Nothing
          /\ \A l \in Lines : quantity[l] > 0 => OrderOf[l] = o /\ quantity[l] <= Unassigned(l)
          /\ plans' = [plans EXCEPT ![s] = quantity]
          /\ lines' = [l \in Lines |-> [lines[l] EXCEPT !.assigned = @ + quantity[l]]]
          /\ deliverable' = deliverable \cup {<<s, l>> : l \in {k \in Lines : quantity[k] > 0}}
    /\ UNCHANGED <<orders, deliveries>>

FaultDeleteSequence(s) ==
    /\ plans[s] # Nothing
    /\ lines' = [l \in Lines |-> [lines[l] EXCEPT !.assigned = @ - plans[s][l]]]
    /\ plans' = [plans EXCEPT ![s] = Nothing]
    /\ deliverable' = {r \in deliverable : r[1] # s}
    /\ UNCHANGED <<orders, deliveries>>

\* DeliveryPlanningSequenceService.delete; the references go with the items.
DeleteSequence(s) ==
    /\ plans[s] # Nothing
    /\ DeliveryOrders(s) = {}
    /\ lines' = [l \in Lines |-> [lines[l] EXCEPT !.assigned = @ - plans[s][l]]]
    /\ plans' = [plans EXCEPT ![s] = Nothing]
    /\ deliverable' = {r \in deliverable : r[1] # s}
    /\ UNCHANGED <<orders, deliveries>>

\* What the list of references offers, now or earlier.
Offered == {r \in References : plans[r[1]][r[2]] > 0 /\ (r \in deliverable \/ StalePages)}

\* DeliveryOrderService.add: less than the reference may be delivered.
AddDelivery(d) ==
    /\ deliveries[d].status = "NEW"
    /\ \E items \in [References -> Quantities] :
          LET taken == {r \in References : items[r] > 0} IN
          /\ taken # {}
          /\ taken \subseteq Offered
          /\ \A r \in taken : items[r] <= plans[r[1]][r[2]]
          /\ deliveries' = [deliveries EXCEPT ![d].status = "OPEN", ![d].items = items]
          /\ deliverable' = deliverable \ taken
          /\ lines' = [l \in Lines |-> [lines[l] EXCEPT !.delivered = @ + Amount(items, l)]]
          /\ orders' = [o \in Orders |->
                 IF \E r \in taken : OrderOf[r[2]] = o
                 THEN [orders[o] EXCEPT !.soStatus = "DELIVERED"] ELSE orders[o]]
    /\ UNCHANGED plans

\* DeliveryOrderService.edit: the delivery of the form is written as it is.
SaveDelivery(d) ==
    /\ Exists(d)
    /\ \E status \in {deliveries[d].status} \cup (IF StalePages THEN {"OPEN"} ELSE {}) :
          deliveries' = [deliveries EXCEPT ![d].status = status]
    /\ UNCHANGED <<orders, lines, plans, deliverable>>

\* DeliveryOrderService.updateStatus.
Send(d) ==
    /\ Exists(d)
    /\ deliveries[d].status = "OPEN" \/ StalePages
    /\ deliveries' = [deliveries EXCEPT ![d].status = "SENT"]
    /\ UNCHANGED <<orders, lines, plans, deliverable>>

FaultCancel(d) ==
    /\ Exists(d)
    /\ ~Realized(d) /\ deliveries[d].status # "CANCELED"
    /\ deliveries' = [deliveries EXCEPT ![d].status = "CANCELED"]
    /\ lines' = [l \in Lines |->
           [lines[l] EXCEPT !.delivered = @ - Amount(deliveries[d].items, l)]]
    /\ UNCHANGED <<orders, plans, deliverable>>

\* The references stay undeliverable: what is still wanted is planned anew.
Cancel(d) ==
    /\ Exists(d)
    /\ (~Realized(d) /\ deliveries[d].status # "CANCELED") \/ StalePages
    /\ deliveries' = [deliveries EXCEPT ![d].status = "CANCELED"]
    /\ lines' = [l \in Lines |-> LET n == Amount(deliveries[d].items, l) IN
           [lines[l] EXCEPT !.delivered = @ - n, !.assigned = @ - n]]
    /\ UNCHANGED <<orders, plans, deliverable>>

\* DeliveryOrderRealizationService.add.  The page does not limit what is
\* accepted; without anything accepted the automatic billing fails and
\* nothing is committed.
Realize(d) ==
    /\ deliveries[d].status = "SENT" \/ (StalePages /\ deliveries[d].status = "DELIVERED")
    /\ \E accepted \in SUBSET ItemsOf(d) :
          /\ accepted # {}
          /\ deliveries' = [deliveries EXCEPT ![d].status = "DELIVERED",
                                              ![d].accepted = @ \cup accepted]
    /\ UNCHANGED <<orders, lines, plans, deliverable>>

Next ==
    \/ \E o \in Orders : AddOrder(o) \/ Decide(o) \/ SaveOrder(o) \/ Close(o)
    \/ \E o \in Orders, s \in Sequences : AddSequence(o, s)
    \/ \E s \in Sequences : DeleteSequence(s)
    \/ \E d \in Deliveries :
          AddDelivery(d) \/ SaveDelivery(d) \/ Send(d) \/ Cancel(d) \/ Realize(d)

Spec == Init /\ [][Next]_vars
-----------------------------------------------------------------------------
(* What must hold while pages are up to date. *)

\* The counters of a line are what the documents say: planned, less what
\* cancelled deliveries gave back, and on a delivery that is not cancelled.
Live == {d \in Deliveries : Exists(d) /\ deliveries[d].status # "CANCELED"}
Cancelled == {d \in Deliveries : deliveries[d].status = "CANCELED"}
OnDeliveries(D, l) == SumFunction([d \in D |-> Amount(deliveries[d].items, l)])
CountersFollowDocuments ==
    \A l \in Lines :
        /\ lines[l].delivered = OnDeliveries(Live, l)
        /\ lines[l].assigned =
              SumFunction([s \in Sequences |-> plans[s][l]]) - OnDeliveries(Cancelled, l)

\* No more is planned than was ordered.  The one way around it is an
\* approver who forwards the order, which plans it, and a later one who
\* lowers a quantity.
PlannedWithinOrder ==
    \A l \in Lines :
        lines[l].assigned > lines[l].quantity
            => "APPROVE_AND_FORWARD" \in orders[OrderOf[l]].histories

\* An order that needs approval is planned only after somebody approved it,
\* whatever became of the approval since.
PlanningNeedsApproval ==
    \A l \in Lines :
        /\ \E s \in Sequences : plans[s][l] > 0
        /\ orders[OrderOf[l]].decision # "NONE"
        => orders[OrderOf[l]].histories # {}

\* A closed or cancelled order that awaits no decision and has nothing left
\* to deliver stays closed, and nothing more is planned for it.  (A pending
\* approval or an open reference does bring it back.)
Settled(o) ==
    /\ orders[o].soStatus \in {"CLOSE", "CANCELED"}
    /\ orders[o].decision \notin Pending
    /\ \A r \in deliverable : OrderOf[r[2]] # o
SettledStays ==
    [][\A o \in Orders : Settled(o) =>
          /\ Settled(o)'
          /\ \A s \in Sequences : \A l \in LinesOf(o) : plans'[s][l] <= plans[s][l]]_vars

\* Every reference is a parcel of the abstract specification: it leaves at
\* most once, and never after its delivery was cancelled or realized.
ParcelState(r) ==
    IF plans[r[1]][r[2]] = 0 THEN "absent"
    ELSE IF r \in deliverable THEN "open"
    ELSE IF \E d \in Deliveries : r \in ItemsOf(d) /\ Realized(d) THEN "completed"
    ELSE IF \E d \in Deliveries : r \in ItemsOf(d) /\ deliveries[d].status = "CANCELED"
    THEN "withdrawn" ELSE "underway"

Parcel == INSTANCE Fulfilment WITH
    Parcels <- References, state <- [r \in References |-> ParcelState(r)]
ParcelSpec == Parcel!Spec
=============================================================================
