------------------------------ MODULE Settlement ------------------------------
(***************************************************************************)
(* Billings and payables until they are paid: ReceiptService, Prepayment-  *)
(* Service and PaymentService with the pages that feed them (receiptAdd,   *)
(* prepaymentApply and paymentAdd).                                        *)
(*                                                                         *)
(* A page asks for the open bills of a party and goes on; the answer fills *)
(* the lines of the page when it arrives.  What the server stores is what  *)
(* the lines hold when the page is saved: it checks neither whose the      *)
(* bills are nor whether they have been paid since they were shown.  A     *)
(* user is Patient who does not pick another party while an answer is      *)
(* awaited.                                                                *)
(*                                                                         *)
(* A form is kept in the session and used once, so each page stands for a  *)
(* session of its own.  Bills are numbered in the order of their ids.      *)
(***************************************************************************)
EXTENDS Integers, FiniteSets, Functions, Sequences

CONSTANTS
    Customers, Suppliers,
    Prepaying,          \* the customers that pay in advance
    PartyGroup,         \* Party.partyGroup of a customer, or NoParty
    NoParty,
    MaxBills,           \* bound: number of Billing and Payable rows
    Amounts,            \* of bills and prepayments
    Charges,            \* ReceiptInformation.bankCharges of prepayments
    Entries,            \* what may be typed into a line, minus signs included
    Methods,            \* PaymentMethodTypes in use
    Prepayments,        \* bound: Prepayment rows
    NoPrepayment,
    Pages,
    MaxReceipts,        \* bound: number of Receipt and Payment rows
    MaxRequests,        \* bound: requests of a page under way for one party
    Patient

Parties == Customers \cup Suppliers
ASSUME PartyAssumption ==
    /\ Customers \cap Suppliers = {}
    /\ Prepaying \subseteq Customers
    /\ NoParty \notin Parties
    /\ PartyGroup \in [Customers -> Customers \cup {NoParty}]
ASSUME PrepaymentAssumption == NoPrepayment \notin Prepayments
ASSUME BoundAssumption ==
    /\ MaxBills \in Nat
    /\ MaxReceipts \in Nat
    /\ MaxRequests \in Nat \ {0}
ASSUME AmountAssumption ==
    /\ Amounts \subseteq Nat \ {0}
    /\ Charges \subseteq Int
    /\ Entries \subseteq [paid : Int, writeOff : Int]
ASSUME MethodAssumption == Methods \subseteq {"CASH", "TRANSFER", "CLEARING"}
\* paymentAdd drops lines listed twice (checkDuplicate), which can only be
\* when answers overlap.
ASSUME PageAssumption ==
    Patient \in BOOLEAN /\ (Suppliers # {} => Patient)

Bills == 1..MaxBills
Blank == 0
FinancialStatus == {"PAID", "UNPAID"}

VARIABLES bills, prepayments, receipts, forms,
    outdated,           \* history: a page was saved that was not up to date
    discounted          \* history: a prepayment was applied with a line that the
                        \* page took off its total and the server left out
vars == <<bills, prepayments, receipts, forms, outdated, discounted>>

\* "NEW": not inserted yet.  settled: the BillingReferenceItems are paid.
Bill == [status : FinancialStatus \cup {"NEW"}, party : Parties \cup {NoParty},
         amount : Int, unpaid : Int, clearing : Int, settled : BOOLEAN]
Prepayment == [party : Customers \cup {NoParty}, type : Methods \cup {"NONE"},
               amount : Int, charges : Int]
Line == [bill : Bills, paid : Int, writeOff : Int]
Receipt == [party : Parties, type : Methods,
            prepayment : Prepayments \cup {NoPrepayment}, lines : SUBSET Line]
Row == [bill : Bills \cup {Blank}, unpaid : Int]
\* party: NoParty unless the page is open.
Form == [party : Parties \cup {NoParty},
         prepayment : Prepayments \cup {NoPrepayment}, amount : Int,
         requests : [Parties -> 0..MaxRequests], rows : Seq(Row)]

TypeOK ==
    /\ bills \in [Bills -> Bill]
    /\ prepayments \in [Prepayments -> Prepayment]
    /\ receipts \in Seq(Receipt)
    /\ forms \in [Pages -> Form]
    /\ outdated \in BOOLEAN
    /\ discounted \in BOOLEAN

NewBill == [status |-> "NEW", party |-> NoParty, amount |-> 0, unpaid |-> 0,
            clearing |-> 0, settled |-> FALSE]
NoRequests == [c \in Parties |-> 0]
Closed == [party |-> NoParty, prepayment |-> NoPrepayment, amount |-> 0,
           requests |-> NoRequests, rows |-> <<>>]

Init ==
    /\ bills = [b \in Bills |-> NewBill]
    /\ prepayments = [p \in Prepayments |->
           [party |-> NoParty, type |-> "NONE", amount |-> 0, charges |-> 0]]
    /\ receipts = <<>>
    /\ forms = [f \in Pages |-> Closed]
    /\ outdated = FALSE
    /\ discounted = FALSE

Billed(b) == bills[b].status # "NEW"
\* Bound: nothing is begun after the last receipt.
Busy == Len(receipts) < MaxReceipts

\* BillingManualService.add and AddBillingSiblingRole; payables come from
\* GoodsReceiptService and from orders that are invoiced before delivery.
AddBill(b, c, amount) ==
    /\ Busy
    /\ ~Billed(b)
    /\ \A other \in Bills : other < b => Billed(other)
    /\ bills' = [bills EXCEPT ![b] =
           [status |-> "UNPAID", party |-> c, amount |-> amount, unpaid |-> amount,
            clearing |-> 0, settled |-> FALSE]]
    /\ UNCHANGED <<prepayments, receipts, forms, outdated, discounted>>

\* The page takes no charges for cash.
AddPrepayment(p, c, type, amount, charges) ==
    /\ Busy
    /\ prepayments[p].party = NoParty
    /\ type = "CASH" => charges = 0
    /\ prepayments' = [prepayments EXCEPT ![p] =
           [party |-> c, type |-> type, amount |-> amount, charges |-> charges]]
    /\ UNCHANGED <<bills, receipts, forms, outdated, discounted>>

\* What applications amount to.
Applied(lines) == SumFunction([line \in lines |-> line.paid + line.writeOff])
ReceiptsOf(p) == {i \in DOMAIN receipts : receipts[i].prepayment = p}
TotalApplied(p) == SumFunction([i \in ReceiptsOf(p) |-> Applied(receipts[i].lines)])
\* Fault: what was applied before is forgotten.
FaultUnapplied(p) == prepayments[p].amount
Unapplied(p) ==
    prepayments[p].amount - TotalApplied(p)
        - (IF prepayments[p].type = "CLEARING" THEN prepayments[p].charges ELSE 0)
IsApplied(p) == TotalApplied(p) < prepayments[p].amount - prepayments[p].charges

(***************************************************************************)
(* The pages.                                                              *)
(***************************************************************************)
Idle(form) == \A c \in Parties : form.requests[c] = 0
\* Fault: the lines are not cleared.
FaultAsking(form, c) == [form EXCEPT !.party = c, !.requests[c] = @ + 1]
\* The page clears its lines and asks for the bills of c.
Asking(form, c) == [form EXCEPT !.party = c, !.rows = <<>>, !.requests[c] = @ + 1]

OpenApply(f, p) ==
    /\ forms[f] = Closed
    /\ Busy
    /\ prepayments[p].party # NoParty
    /\ IsApplied(p)
    /\ forms' = [forms EXCEPT ![f] = Asking(
           [Closed EXCEPT !.prepayment = p, !.amount = Unapplied(p)],
           prepayments[p].party)]
    /\ UNCHANGED <<bills, prepayments, receipts, outdated, discounted>>

\* Fault: the page does not look at what it is doing.
FaultChoosable(form, c) == form.prepayment = NoPrepayment /\ c # form.party
Choosable(form, c) ==
    /\ form.prepayment = NoPrepayment
    /\ c # form.party
    /\ Patient => Idle(form)
    /\ form.requests[c] < MaxRequests
\* receiptAdd and paymentAdd are pages of their own.
SamePage(form, c) == form.party = NoParty \/ (form.party \in Customers <=> c \in Customers)

Choose(f, c) ==
    /\ Busy
    /\ Choosable(forms[f], c)
    /\ SamePage(forms[f], c)
    /\ forms' = [forms EXCEPT ![f] = Asking(forms[f], c)]
    /\ UNCHANGED <<bills, prepayments, receipts, outdated, discounted>>

\* The bills a receipt of c, or a payment to c, is meant for.
BillsOf(c) ==
    {b \in Bills : Billed(b) /\ (bills[b].party = c
        \/ (bills[b].party \in Customers /\ PartyGroup[bills[b].party] = c))}
\* Billing4PaymentPopupViewQuery and InvoiceVerificationGridViewQuery.
Listed(c) ==
    {b \in BillsOf(c) : IF c \in Customers THEN bills[b].unpaid - bills[b].clearing > 0
                                           ELSE bills[b].status = "UNPAID"}
\* The listed bills, the newest first.
Listings(c) ==
    {list \in [1..Cardinality(Listed(c)) -> Listed(c)] :
        \A i, j \in DOMAIN list : i < j => list[i] > list[j]}

RowOf(b) == [bill |-> b, unpaid |-> bills[b].unpaid]
BlankRow == [bill |-> Blank, unpaid |-> 0]

\* Every answered bill appends a line, yet fills the line of its place in
\* the answer.
Fill(rows, list) ==
    [i \in 1..Len(rows) + Len(list) |->
        IF i <= Len(list) THEN RowOf(list[i])
        ELSE IF i <= Len(rows) THEN rows[i] ELSE BlankRow]
Received(form, c) == [form EXCEPT !.requests[c] = @ - 1]

Answer(f, c) ==
    /\ forms[f].requests[c] > 0
    /\ \E list \in Listings(c) :
           forms' = [forms EXCEPT ![f] =
               [Received(forms[f], c) EXCEPT !.rows = Fill(forms[f].rows, list)]]
    /\ UNCHANGED <<bills, prepayments, receipts, outdated, discounted>>

\* Nothing is done about a request that fails.
AnswerFails(f, c) ==
    /\ forms[f].requests[c] > 0
    /\ forms' = [forms EXCEPT ![f] = Received(forms[f], c)]
    /\ UNCHANGED <<bills, prepayments, receipts, outdated, discounted>>

Leave(f) ==
    /\ forms[f].party # NoParty
    /\ forms' = [forms EXCEPT ![f] = Closed]
    /\ UNCHANGED <<bills, prepayments, receipts, outdated, discounted>>

(***************************************************************************)
(* Saving.                                                                 *)
(***************************************************************************)
\* Fault: overpaying is let through.
FaultNormalised(typed, unpaid) == typed
\* What updateDisplay makes of a line: overpaying is a write-off, a
\* discount leaves no more to pay than the rest.
Normalised(typed, unpaid) ==
    IF typed.paid > unpaid
    THEN [paid |-> typed.paid, writeOff |-> typed.paid - unpaid]
    ELSE IF typed.writeOff < 0 /\ typed.writeOff + unpaid < typed.paid
    THEN [paid |-> typed.writeOff + unpaid, writeOff |-> typed.writeOff]
    ELSE typed
\* The lines of a page as they are submitted.
Submitted(form, typed) ==
    [i \in DOMAIN form.rows |-> Normalised(typed[i], form.rows[i].unpaid)]
TotalPaid(lines) == SumFunction([i \in DOMAIN lines |-> lines[i].paid])

\* The lines the server takes for applications.
Stored(rows, lines) ==
    {i \in DOMAIN rows :
        rows[i].bill # Blank /\ (lines[i].paid > 0 \/ lines[i].writeOff # 0)}
Applications(rows, lines) ==
    {[bill |-> rows[i].bill, paid |-> lines[i].paid, writeOff |-> lines[i].writeOff] :
        i \in Stored(rows, lines)}

\* Fault: twice as much is dropped.
FaultNegligible(left) == left \in -2..2
Negligible(left) == left \in -1..1
\* Fault: the rest is not dropped.
FaultPaidOff(bill) == [bill EXCEPT !.status = "PAID"]
PaidOff(bill) == [bill EXCEPT !.unpaid = 0, !.status = "PAID"]
\* Fault: what is being cleared counts as paid.
FaultCollected(bill, line, type) ==
    LET left == bill.unpaid + line.writeOff - line.paid IN
    IF Negligible(left) THEN PaidOff(bill) ELSE [bill EXCEPT !.unpaid = left]
Collected(bill, line, type) ==
    LET left == bill.unpaid + line.writeOff - line.paid IN
    IF type = "CLEARING"
    THEN [bill EXCEPT !.clearing = @ + line.paid - line.writeOff]
    ELSE IF Negligible(left) THEN PaidOff(bill) ELSE [bill EXCEPT !.unpaid = left]
\* Only receipts mark the reference items of a bill.
Marked(bill) ==
    [bill EXCEPT !.settled = @ \/ (bill.status = "PAID" /\ bill.party \in Customers)]

Credited(applications, type) ==
    [b \in Bills |->
        IF \E line \in applications : line.bill = b
        THEN Marked(Collected(bills[b], CHOOSE line \in applications : line.bill = b, type))
        ELSE bills[b]]

UpToDate(form) ==
    /\ \A i \in DOMAIN form.rows :
           form.rows[i].bill # Blank => form.rows[i] = RowOf(form.rows[i].bill)
    /\ form.prepayment # NoPrepayment => form.amount = Unapplied(form.prepayment)
\* A bill listed twice, which takes overlapping answers, is not followed
\* further.
Distinct(rows) ==
    \A i, j \in DOMAIN rows : rows[i].bill = rows[j].bill /\ i # j => rows[i].bill = Blank

\* validateForm of the three pages.  The amount of a receipt is what its
\* lines amount to; bank charges come off the amount of a prepayment.
Valid(form, lines) ==
    IF form.prepayment # NoPrepayment
    THEN /\ form.amount >= 0
         /\ form.amount - prepayments[form.prepayment].charges >= TotalPaid(lines)
    ELSE IF form.party \in Customers THEN TotalPaid(lines) > 0
    ELSE form.party \in Suppliers /\ form.rows # <<>>
\* What the pages let choose: prepaymentApply only the type of the prepayment.
TypesOf(form) ==
    IF form.prepayment # NoPrepayment THEN {prepayments[form.prepayment].type}
    ELSE IF form.party \in Customers THEN Methods
    ELSE Methods \ {"CLEARING"}

\* No sign is checked: a line of less than nothing lowers the total the page
\* compares, and is not stored.
Discounts(form, lines) ==
    /\ form.prepayment # NoPrepayment
    /\ \E i \in DOMAIN form.rows \ Stored(form.rows, lines) : lines[i].paid < 0

\* ReceiptService.add stores nothing without an application, PaymentService.add
\* stores the payment all the same.
Save(f, type, typed) ==
    LET form == forms[f]
        lines == Submitted(form, typed)
        applications == Applications(form.rows, lines) IN
    /\ form.party # NoParty
    /\ type \in TypesOf(form)
    /\ Distinct(form.rows)
    /\ Valid(form, lines)
    /\ Busy
    /\ bills' = Credited(applications, type)
    /\ receipts' = IF applications = {} /\ form.party \in Customers THEN receipts
                   ELSE Append(receipts, [party |-> form.party, type |-> type,
                            prepayment |-> form.prepayment, lines |-> applications])
    /\ forms' = [forms EXCEPT ![f] = Closed]
    /\ outdated' = (outdated \/ ~UpToDate(form))
    /\ discounted' = (discounted \/ Discounts(form, lines))
    /\ UNCHANGED prepayments

Next ==
    \/ \E b \in Bills, c \in Parties, amount \in Amounts : AddBill(b, c, amount)
    \/ \E p \in Prepayments, c \in Prepaying, type \in Methods,
          amount \in Amounts, charges \in Charges :
          AddPrepayment(p, c, type, amount, charges)
    \/ \E f \in Pages : Leave(f)
    \/ \E f \in Pages, p \in Prepayments : OpenApply(f, p)
    \/ \E f \in Pages, c \in Parties : Choose(f, c) \/ Answer(f, c) \/ AnswerFails(f, c)
    \/ \E f \in Pages, type \in Methods :
          \E typed \in [DOMAIN forms[f].rows -> Entries] : Save(f, type, typed)

Spec == Init /\ [][Next]_vars

(***************************************************************************)
(* Properties.                                                             *)
(***************************************************************************)
\* Whatever a receipt or payment is applied to is a bill of its own party,
\* although the server takes the lines as they come and the answers of the
\* bills may come when the page is at another party.
LinesAreTheParties ==
    \A i \in DOMAIN receipts :
        \A line \in receipts[i].lines : line.bill \in BillsOf(receipts[i].party)

LinesOf(b, clearing) ==
    {entry \in UNION {{i} \X receipts[i].lines : i \in DOMAIN receipts} :
        entry[2].bill = b /\ (receipts[entry[1]].type = "CLEARING") = clearing}
Collection(b, clearing) ==
    SumFunction([entry \in LinesOf(b, clearing) |-> entry[2].paid - entry[2].writeOff])

\* What a bill still owes, and what is being cleared, follows from its
\* receipts; only the rest of a paid bill, of less than a unit of money,
\* may be dropped.
UnpaidFollowsReceipts ==
    \A b \in Bills :
        /\ bills[b].clearing = Collection(b, TRUE)
        /\ bills[b].status = "UNPAID" =>
               bills[b].unpaid = bills[b].amount - Collection(b, FALSE)

\* A write-off may also add to a bill.
WrittenUp(b) ==
    \E i \in DOMAIN receipts : \E line \in receipts[i].lines :
        line.bill = b /\ line.writeOff > line.paid

\* With pages up to date no bill is overpaid, whatever is typed into a line.
NeverOverpaid == ~outdated => \A b \in Bills : bills[b].unpaid >= 0

\* With pages up to date a bill that was not written up is paid, and its
\* reference items are marked, exactly when nothing of it is owed.
SettledTogether ==
    ~outdated => \A b \in Bills : Billed(b) /\ ~WrittenUp(b) =>
        /\ bills[b].status = "PAID" <=> bills[b].unpaid = 0
        /\ bills[b].settled <=> bills[b].status = "PAID" /\ bills[b].party \in Customers

\* With pages up to date, what the receipts of a paid bill that was not
\* written up leave of its amount is at most a unit of money: rests are not
\* dropped one after the other.
RestIsNegligible ==
    ~outdated => \A b \in Bills : bills[b].status = "PAID" /\ ~WrittenUp(b) =>
        bills[b].amount - Collection(b, FALSE) \in -1..1

\* With pages up to date a prepayment is not applied beyond its amount less
\* the bank charges, whichever type it is of.  There are three ways round the
\* page that this leaves out: to write up a bill, to type a line of less than
\* nothing, and to enter the charges with a minus sign.
PrepaymentCovered ==
    ~outdated /\ ~discounted => \A p \in Prepayments :
        /\ prepayments[p].charges >= 0
        /\ \A i \in ReceiptsOf(p) : \A line \in receipts[i].lines : line.writeOff <= 0
        => \/ TotalApplied(p) <= prepayments[p].amount - prepayments[p].charges
           \/ TotalApplied(p) = 0
=============================================================================
