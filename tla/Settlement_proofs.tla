-------------------------- MODULE Settlement_proofs --------------------------
(***************************************************************************)
(* Proofs about Settlement for every number of parties, bills, pages and   *)
(* requests: whose bills a page pays, what a bill owes, and what is        *)
(* applied of a prepayment.                                                *)
(***************************************************************************)
EXTENDS Settlement, Sums, SequenceTheorems

(* Types, the amounts of the pages left out. *)

FormType(form) ==
    /\ form = [party |-> form.party, prepayment |-> form.prepayment,
               amount |-> form.amount, requests |-> form.requests, rows |-> form.rows]
    /\ form.party \in Parties \cup {NoParty}
    /\ form.prepayment \in Prepayments \cup {NoPrepayment}
    /\ form.requests \in [Parties -> Int]
    /\ form.rows \in Seq(Row)

Rows ==
    /\ bills \in [Bills -> Bill]
    /\ prepayments \in [Prepayments -> Prepayment]
    /\ receipts \in Seq(Receipt)
    /\ forms = [f \in Pages |-> forms[f]]
    /\ \A f \in Pages : FormType(forms[f])
    /\ outdated \in BOOLEAN /\ discounted \in BOOLEAN

LEMMA ClosedType == FormType(Closed)
  BY DEF FormType, Closed, NoRequests

LEMMA NewBillType == NewBill \in Bill
  BY DEF NewBill, Bill, FinancialStatus

LEMMA InitRows == Init => Rows
  <1> SUFFICES ASSUME Init PROVE Rows
    OBVIOUS
  <1>1. bills \in [Bills -> Bill]
    BY NewBillType DEF Init
  <1>4. receipts \in Seq(Receipt) /\ outdated \in BOOLEAN /\ discounted \in BOOLEAN
    <2>1. receipts = <<>> /\ outdated = FALSE /\ discounted = FALSE
      BY Zenon DEF Init
    <2> QED
      BY <2>1, EmptySeq
  <1>2. prepayments \in [Prepayments -> Prepayment]
    BY DEF Init, Prepayment
  <1>3. forms = [f \in Pages |-> forms[f]] /\ \A f \in Pages : forms[f] = Closed
    BY DEF Init
  <1> QED
    BY <1>1, <1>2, <1>3, <1>4, ClosedType DEF Rows

LEMMA AskingType ==
    ASSUME NEW form, FormType(form), NEW c \in Parties
    PROVE  FormType(Asking(form, c)) /\ Asking(form, c).party = c
               /\ Asking(form, c).rows = <<>>
               /\ Asking(form, c).requests = [form.requests EXCEPT ![c] = @ + 1]
               /\ Asking(form, c).prepayment = form.prepayment
               /\ Asking(form, c).amount = form.amount
  <1> DEFINE requests == [form.requests EXCEPT ![c] = @ + 1]
  <1>1. PICK p, q, a, r, l : form = [party |-> p, prepayment |-> q, amount |-> a,
                                     requests |-> r, rows |-> l]
    BY Zenon DEF FormType
  <1>2. Asking(form, c) = [party |-> c, prepayment |-> q, amount |-> a,
                           requests |-> requests, rows |-> <<>>]
    <2> DEFINE moved == [form EXCEPT !.party = c]
               emptied == [moved EXCEPT !.rows = <<>>]
    <2>1. moved = [party |-> c, prepayment |-> q, amount |-> a, requests |-> r, rows |-> l]
      BY <1>1
    <2>2. form.requests = r
      BY <1>1
    <2>3. Asking(form, c) = [emptied EXCEPT !.requests[c] = @ + 1]
      BY DEF Asking
    <2> HIDE DEF moved
    <2>4. emptied = [party |-> c, prepayment |-> q, amount |-> a, requests |-> r, rows |-> <<>>]
      BY <2>1
    <2> HIDE DEF emptied
    <2> QED
      BY <2>2, <2>3, <2>4
  <1>3. requests \in [Parties -> Int]
    BY DEF FormType
  <1>4. q \in Prepayments \cup {NoPrepayment}
    BY <1>1 DEF FormType
  <1> HIDE DEF requests
  <1>5. FormType([party |-> c, prepayment |-> q, amount |-> a,
                  requests |-> requests, rows |-> <<>>])
    BY <1>3, <1>4 DEF FormType
  <1>6. form.prepayment = q /\ form.amount = a
    BY <1>1
  <1> QED
    BY <1>2, <1>5, <1>6 DEF requests

LEMMA ReceivedType ==
    ASSUME NEW form, FormType(form), NEW c \in Parties
    PROVE  FormType(Received(form, c)) /\ Received(form, c).party = form.party
               /\ Received(form, c).rows = form.rows
               /\ Received(form, c).requests = [form.requests EXCEPT ![c] = @ - 1]
               /\ Received(form, c).prepayment = form.prepayment
               /\ Received(form, c).amount = form.amount
  <1> DEFINE requests == [form.requests EXCEPT ![c] = @ - 1]
  <1>1. PICK p, q, a, r, l : form = [party |-> p, prepayment |-> q, amount |-> a,
                                     requests |-> r, rows |-> l]
    BY Zenon DEF FormType
  <1>2. Received(form, c) = [party |-> p, prepayment |-> q, amount |-> a,
                             requests |-> requests, rows |-> l]
    BY <1>1 DEF Received
  <1>3. requests \in [Parties -> Int]
    BY DEF FormType
  <1>4. /\ p \in Parties \cup {NoParty}
        /\ q \in Prepayments \cup {NoPrepayment}
        /\ l \in Seq(Row)
    BY <1>1 DEF FormType
  <1>5. form.party = p /\ form.rows = l /\ form.prepayment = q /\ form.amount = a
    BY <1>1
  <1> HIDE DEF requests
  <1>6. FormType([party |-> p, prepayment |-> q, amount |-> a,
                  requests |-> requests, rows |-> l])
    BY <1>3, <1>4 DEF FormType
  <1> QED
    BY <1>2, <1>5, <1>6 DEF requests

LEMMA ListedAreFew ==
    ASSUME NEW c
    PROVE  Cardinality(Listed(c)) \in Nat /\ Listed(c) \subseteq BillsOf(c)
               /\ BillsOf(c) \subseteq Bills
  <1>1. IsFiniteSet(Bills)
    BY FS_Interval, BoundAssumption DEF Bills
  <1>2. Listed(c) \subseteq BillsOf(c) /\ BillsOf(c) \subseteq Bills
    BY DEF Listed, BillsOf
  <1> QED
    BY <1>1, <1>2, FS_Subset, FS_CardinalityType

\* What an answer leaves on the page.
LEMMA FillRows ==
    ASSUME Rows, NEW c, NEW list \in Listings(c), NEW rows \in Seq(Row)
    PROVE  /\ Fill(rows, list) \in Seq(Row)
           /\ rows = <<>> => \A i \in DOMAIN Fill(rows, list) :
                                 Fill(rows, list)[i].bill \in BillsOf(c)
           /\ \A i \in DOMAIN Fill(rows, list) :
                 \/ Fill(rows, list)[i].bill \in BillsOf(c) \cup {Blank}
                 \/ \E j \in DOMAIN rows : Fill(rows, list)[i] = rows[j]
  <1> DEFINE n == Cardinality(Listed(c))
  <1>1. n \in Nat /\ Listed(c) \subseteq BillsOf(c) /\ BillsOf(c) \subseteq Bills
    BY ListedAreFew
  <1>2. list \in [1..n -> Listed(c)]
    BY DEF Listings
  <1> HIDE DEF n
  <1>3. Len(list) = n
    BY <1>1, <1>2
  <1>4. Len(rows) \in Nat /\ \A i \in 1..Len(rows) : rows[i] \in Row
    OBVIOUS
  <1>5. \A b \in Bills : RowOf(b) \in Row /\ RowOf(b).bill = b
    BY DEF RowOf, Row, Rows, Bill
  <1>6. BlankRow \in Row
    BY DEF BlankRow, Row
  <1>7. \A i \in 1..Len(rows) + n :
           (IF i <= n THEN RowOf(list[i]) ELSE IF i <= Len(rows) THEN rows[i] ELSE BlankRow) \in Row
    BY <1>1, <1>2, <1>4, <1>5, <1>6
  <1>8. Fill(rows, list) = [i \in 1..Len(rows) + n |->
           IF i <= n THEN RowOf(list[i]) ELSE IF i <= Len(rows) THEN rows[i] ELSE BlankRow]
    BY <1>3 DEF Fill
  <1>9. Fill(rows, list) \in Seq(Row)
    BY <1>1, <1>4, <1>7, <1>8
  <1>10. ASSUME rows = <<>>, NEW i \in DOMAIN Fill(rows, list)
         PROVE  Fill(rows, list)[i].bill \in BillsOf(c)
    <2>1. Len(rows) = 0
      BY <1>10
    <2>2. i \in 1..n /\ Fill(rows, list)[i] = RowOf(list[i])
      BY <1>1, <1>8, <1>10, <2>1
    <2> QED
      BY <1>1, <1>2, <1>5, <2>2
  <1>11. ASSUME NEW i \in DOMAIN Fill(rows, list)
         PROVE  \/ Fill(rows, list)[i].bill \in BillsOf(c) \cup {Blank}
                \/ \E j \in DOMAIN rows : Fill(rows, list)[i] = rows[j]
    <2>1. i \in 1..Len(rows) + n /\ BlankRow.bill = Blank
      BY <1>8, <1>11 DEF BlankRow
    <2>2. CASE i <= n
      BY <1>1, <1>2, <1>5, <1>8, <2>1, <2>2
    <2>3. CASE i > n /\ i <= Len(rows)
      <3>1. i \in DOMAIN rows /\ Fill(rows, list)[i] = rows[i]
        BY <1>1, <1>4, <1>8, <2>1, <2>3
      <3> QED
        BY <3>1
    <2>4. CASE i > n /\ i > Len(rows)
      BY <1>1, <1>4, <1>8, <2>1, <2>4
    <2> QED
      BY <1>1, <1>4, <2>1, <2>2, <2>3, <2>4
  <1> QED
    BY <1>9, <1>10, <1>11

\* A page of one form changes.
LEMMA OneFormRows ==
    ASSUME Rows, NEW f \in Pages, NEW form, FormType(form),
           forms' = [forms EXCEPT ![f] = form],
           UNCHANGED <<bills, prepayments, receipts, outdated, discounted>>
    PROVE  Rows'
  <1>1. forms' = [g \in Pages |-> IF g = f THEN form ELSE forms[g]]
    BY DEF Rows
  <1>2. forms' = [g \in Pages |-> forms'[g]]
    BY <1>1
  <1>3. \A g \in Pages : FormType(forms'[g])
    BY <1>1 DEF Rows
  <1>4. \A g \in Pages : FormType(forms[g])'
    BY <1>3 DEF FormType
  <1> QED
    BY <1>2, <1>4 DEF Rows

(* Saving. *)

Taken(f, typed) == Applications(forms[f].rows, Submitted(forms[f], typed))

\* An application comes from a line of the page.
LEMMA TakenLines ==
    ASSUME Rows, NEW f \in Pages, NEW typed \in [DOMAIN forms[f].rows -> Entries],
           NEW line \in Taken(f, typed)
    PROVE  /\ line \in Line
           /\ \E i \in DOMAIN forms[f].rows, entry \in Entries :
                 LET row == forms[f].rows[i]
                     shown == Normalised(entry, row.unpaid) IN
                 /\ row \in Row /\ line.bill = row.bill /\ row.bill # Blank
                 /\ line.paid = shown.paid /\ line.writeOff = shown.writeOff
                 /\ line.paid > 0 \/ line.writeOff # 0
  <1> DEFINE rows == forms[f].rows
             shown(i) == Normalised(typed[i], rows[i].unpaid)
  <1>1. rows \in Seq(Row)
    BY DEF Rows, FormType
  <1>2. PICK i \in DOMAIN rows :
           /\ rows[i].bill # Blank
           /\ shown(i).paid > 0 \/ shown(i).writeOff # 0
           /\ line = [bill |-> rows[i].bill, paid |-> shown(i).paid,
                      writeOff |-> shown(i).writeOff]
    BY DEF Taken, Applications, Stored, Submitted
  <1>3. rows[i] \in Row /\ typed[i] \in Entries
    BY <1>1
  <1>4. rows[i].bill \in Bills /\ rows[i].unpaid \in Int
    BY <1>2, <1>3 DEF Row
  <1>5. typed[i] \in [paid : Int, writeOff : Int]
    BY <1>3, AmountAssumption
  <1>6. shown(i).paid \in Int /\ shown(i).writeOff \in Int
    BY <1>4, <1>5 DEF Normalised
  <1> HIDE DEF shown
  <1>7. line \in Line
    BY <1>2, <1>4, <1>6 DEF Line
  <1>8. line.bill = rows[i].bill /\ line.paid = shown(i).paid /\ line.writeOff = shown(i).writeOff
    BY <1>2
  <1> QED
    BY <1>2, <1>3, <1>7, <1>8 DEF shown

LEMMA PaidOffFields ==
    ASSUME NEW bill \in Bill
    PROVE  /\ PaidOff(bill) \in Bill /\ PaidOff(bill).party = bill.party
           /\ PaidOff(bill).settled = bill.settled
           /\ PaidOff(bill).unpaid = 0 /\ PaidOff(bill).status = "PAID"
           /\ PaidOff(bill).clearing = bill.clearing /\ PaidOff(bill).amount = bill.amount
  <1> DEFINE cleared == [bill EXCEPT !.unpaid = 0]
  <1>1. /\ cleared \in Bill /\ cleared.party = bill.party
        /\ cleared.settled = bill.settled /\ cleared.unpaid = 0
        /\ cleared.clearing = bill.clearing /\ cleared.amount = bill.amount
    BY DEF Bill
  <1>2. PaidOff(bill) = [cleared EXCEPT !.status = "PAID"]
    BY DEF PaidOff
  <1> HIDE DEF cleared
  <1>3. \A b \in Bill : LET paid == [b EXCEPT !.status = "PAID"] IN
           /\ paid \in Bill /\ paid.party = b.party
           /\ paid.settled = b.settled /\ paid.unpaid = b.unpaid
           /\ paid.status = "PAID"
           /\ paid.clearing = b.clearing /\ paid.amount = b.amount
    BY DEF Bill, FinancialStatus
  <1> QED
    BY <1>1, <1>2, <1>3

LEMMA CollectedType ==
    ASSUME NEW bill \in Bill, NEW line \in Line, NEW type
    PROVE  /\ Marked(Collected(bill, line, type)) \in Bill
           /\ Marked(Collected(bill, line, type)).party = bill.party
           /\ bill.status # "NEW" => Marked(Collected(bill, line, type)).status # "NEW"
  <1>1. \A b \in Bill : /\ Marked(b) \in Bill
                        /\ Marked(b).party = b.party /\ Marked(b).status = b.status
    BY DEF Marked, Bill
  <1>2. PaidOff(bill) \in Bill /\ PaidOff(bill).party = bill.party /\ PaidOff(bill).status = "PAID"
    BY PaidOffFields
  <1>3. bill.unpaid + line.writeOff - line.paid \in Int
    BY DEF Bill, Line
  <1>4. \A n \in Int : LET b == [bill EXCEPT !.unpaid = n] IN
           b \in Bill /\ b.party = bill.party /\ b.status = bill.status
    BY DEF Bill
  <1>5. LET b == [bill EXCEPT !.clearing = @ + line.paid - line.writeOff] IN
           b \in Bill /\ b.party = bill.party /\ b.status = bill.status
    BY DEF Bill, Line
  <1>6. /\ Collected(bill, line, type) \in Bill
        /\ Collected(bill, line, type).party = bill.party
        /\ Collected(bill, line, type).status \in {bill.status, "PAID"}
    BY <1>2, <1>3, <1>4, <1>5 DEF Collected
  <1> QED
    BY <1>1, <1>6

LEMMA CreditedType ==
    ASSUME Rows, NEW applications \in SUBSET Line, NEW type
    PROVE  /\ Credited(applications, type) \in [Bills -> Bill]
           /\ \A b \in Bills :
                 /\ Credited(applications, type)[b].party = bills[b].party
                 /\ bills[b].status # "NEW" =>
                        Credited(applications, type)[b].status # "NEW"
  <1>1. ASSUME NEW b \in Bills
        PROVE  LET bill == Credited(applications, type)[b] IN
               /\ bill \in Bill /\ bill.party = bills[b].party
               /\ bills[b].status # "NEW" => bill.status # "NEW"
    <2>1. bills[b] \in Bill
      BY DEF Rows
    <2>2. CASE ~ \E line \in applications : line.bill = b
      BY <2>1, <2>2 DEF Credited
    <2>3. CASE \E line \in applications : line.bill = b
      <3>1. PICK line \in applications : line = CHOOSE l \in applications : l.bill = b
        BY <2>3
      <3>2. Credited(applications, type)[b] = Marked(Collected(bills[b], line, type))
        BY <2>3, <3>1 DEF Credited
      <3> QED
        BY <2>1, <3>1, <3>2, CollectedType
    <2> QED
      BY <2>2, <2>3
  <1>2. Credited(applications, type) =
           [b \in Bills |-> Credited(applications, type)[b]]
    BY DEF Credited
  <1> QED
    BY <1>1, <1>2

LEMMA SaveEffect ==
    ASSUME Rows, NEW f \in Pages, NEW type \in Methods,
           NEW typed \in [DOMAIN forms[f].rows -> Entries], Save(f, type, typed)
    PROVE  /\ Taken(f, typed) \in SUBSET Line
           /\ bills' = Credited(Taken(f, typed), type)
           /\ forms' = [forms EXCEPT ![f] = Closed]
           /\ forms[f].party \in Parties
           /\ \/ Taken(f, typed) = {} /\ receipts' = receipts
              \/ \E receipt \in Receipt :
                    /\ receipts' = Append(receipts, receipt)
                    /\ receipt.party = forms[f].party
                    /\ receipt.type = type
                    /\ receipt.prepayment = forms[f].prepayment
                    /\ receipt.lines = Taken(f, typed)
           /\ outdated' = (outdated \/ ~UpToDate(forms[f]))
           /\ discounted' = (discounted \/ Discounts(forms[f], Submitted(forms[f], typed)))
           /\ prepayments' = prepayments
  <1> DEFINE receipt == [party |-> forms[f].party, type |-> type,
                         prepayment |-> forms[f].prepayment, lines |-> Taken(f, typed)]
  <1>1. Taken(f, typed) \in SUBSET Line
    BY TakenLines
  <1>2. /\ forms[f].party # NoParty
        /\ bills' = Credited(Taken(f, typed), type)
        /\ receipts' = IF Taken(f, typed) = {} /\ forms[f].party \in Customers THEN receipts
                       ELSE Append(receipts, receipt)
        /\ forms' = [forms EXCEPT ![f] = Closed]
        /\ prepayments' = prepayments
    BY DEF Save, Taken
  <1>3. /\ outdated' = (outdated \/ ~UpToDate(forms[f]))
        /\ discounted' = (discounted \/ Discounts(forms[f], Submitted(forms[f], typed)))
    BY Zenon DEF Save
  <1>4. /\ forms[f].party \in Parties \cup {NoParty}
        /\ forms[f].prepayment \in Prepayments \cup {NoPrepayment}
    BY DEF Rows, FormType
  <1>5. receipt \in Receipt
    BY <1>1, <1>2, <1>4 DEF Receipt
  <1>6. /\ receipt.party = forms[f].party /\ receipt.type = type
        /\ receipt.prepayment = forms[f].prepayment /\ receipt.lines = Taken(f, typed)
    OBVIOUS
  <1> HIDE DEF receipt
  <1>7. \/ Taken(f, typed) = {} /\ receipts' = receipts
        \/ receipts' = Append(receipts, receipt)
    BY <1>2
  <1> QED
    BY <1>1, <1>2, <1>3, <1>4, <1>5, <1>6, <1>7

\* A bill stays billed, and to the same party.
Kept == \A b \in Bills : Billed(b) => Billed(b)' /\ bills'[b].party = bills[b].party

LEMMA BillsUnchanged == UNCHANGED bills => Kept
  BY DEF Kept, Billed

LEMMA AddBillEffect ==
    ASSUME Rows, NEW b \in Bills, NEW c \in Parties, NEW amount \in Amounts,
           AddBill(b, c, amount)
    PROVE  /\ bills[b].status = "NEW"
           /\ bills' = [bills EXCEPT ![b] =
                 [status |-> "UNPAID", party |-> c, amount |-> amount,
                  unpaid |-> amount, clearing |-> 0, settled |-> FALSE]]
           /\ amount \in Nat \ {0}
           /\ bills' \in [Bills -> Bill]
           /\ Kept
  <1>1. bills[b].status = "NEW"
    BY DEF AddBill, Billed
  <1>2. bills' = [bills EXCEPT ![b] =
                 [status |-> "UNPAID", party |-> c, amount |-> amount,
                  unpaid |-> amount, clearing |-> 0, settled |-> FALSE]]
    BY DEF AddBill
  <1>3. amount \in Nat \ {0}
    BY AmountAssumption
  <1>4. bills' \in [Bills -> Bill]
    BY <1>2, <1>3 DEF Rows, Bill, FinancialStatus
  <1>5. Kept
    BY <1>1, <1>2 DEF Rows, Kept, Billed
  <1> QED
    BY <1>1, <1>2, <1>3, <1>4, <1>5

LEMMA SaveRows ==
    ASSUME Rows, NEW f \in Pages, NEW type \in Methods,
           NEW typed \in [DOMAIN forms[f].rows -> Entries], Save(f, type, typed)
    PROVE  Rows' /\ Kept
  <1>1. /\ Taken(f, typed) \in SUBSET Line
        /\ bills' = Credited(Taken(f, typed), type)
        /\ forms' = [forms EXCEPT ![f] = Closed]
        /\ receipts' = receipts \/ \E receipt \in Receipt : receipts' = Append(receipts, receipt)
        /\ prepayments' = prepayments
    BY SaveEffect
  <1>2. outdated' \in BOOLEAN /\ discounted' \in BOOLEAN
    BY SaveEffect
  <1>3. bills' \in [Bills -> Bill]
    BY <1>1, CreditedType
  <1>4. Kept
    BY <1>1, CreditedType DEF Kept, Billed
  <1>5. receipts' \in Seq(Receipt)
    BY <1>1 DEF Rows
  <1>6. forms' = [g \in Pages |-> IF g = f THEN Closed ELSE forms[g]]
    BY <1>1 DEF Rows
  <1>7. \A g \in Pages : FormType(forms'[g])
    BY <1>6, ClosedType DEF Rows
  <1>8. \A g \in Pages : FormType(forms[g])'
    BY <1>7 DEF FormType
  <1>9. forms' = [g \in Pages |-> forms'[g]]
    BY <1>6
  <1>10. prepayments' \in [Prepayments -> Prepayment]
    BY <1>1 DEF Rows
  <1> QED
    BY <1>2, <1>3, <1>4, <1>5, <1>8, <1>9, <1>10 DEF Rows

\* The steps that change one page and nothing else.
OneForm(f, form) ==
    /\ FormType(form)
    /\ forms' = [forms EXCEPT ![f] = form]
    /\ UNCHANGED <<bills, prepayments, receipts, outdated, discounted>>

LEMMA OpenApplyForm ==
    ASSUME Rows, NEW f \in Pages, NEW p \in Prepayments, OpenApply(f, p)
    PROVE  \E form :
              /\ OneForm(f, form)
              /\ form.party \in Parties /\ form.rows = <<>>
              /\ form.requests = [NoRequests EXCEPT ![form.party] = @ + 1]
              /\ form.prepayment = p /\ form.amount = Unapplied(p)
  <1> DEFINE base == [Closed EXCEPT !.prepayment = p, !.amount = Unapplied(p)]
             c == prepayments[p].party
             form == Asking(base, c)
  <1>1. c \in Parties
    BY DEF OpenApply, Rows, Prepayment, Parties
  <1>2. base = [party |-> NoParty, prepayment |-> p, amount |-> Unapplied(p),
                requests |-> NoRequests, rows |-> <<>>]
    <2> DEFINE named == [Closed EXCEPT !.prepayment = p]
    <2>1. Closed = [party |-> NoParty, prepayment |-> NoPrepayment, amount |-> 0,
                    requests |-> NoRequests, rows |-> <<>>]
      BY DEF Closed
    <2>2. named = [party |-> NoParty, prepayment |-> p, amount |-> 0,
                   requests |-> NoRequests, rows |-> <<>>]
      BY <2>1
    <2>3. base = [named EXCEPT !.amount = Unapplied(p)]
      OBVIOUS
    <2> HIDE DEF named, base
    <2> QED
      BY <2>2, <2>3
  <1>3. NoRequests \in [Parties -> Int]
    BY DEF NoRequests
  <1>4. forms' = [forms EXCEPT ![f] = form]
    BY DEF OpenApply
  <1> HIDE DEF base, c
  <1>5. /\ FormType(base) /\ base.requests = NoRequests
        /\ base.prepayment = p /\ base.amount = Unapplied(p)
    BY <1>2, <1>3, EmptySeq DEF FormType
  <1>6. /\ FormType(form) /\ form.party = c /\ form.rows = <<>>
        /\ form.requests = [NoRequests EXCEPT ![c] = @ + 1]
        /\ form.prepayment = p /\ form.amount = Unapplied(p)
    BY <1>1, <1>5, AskingType
  <1>7. UNCHANGED <<bills, prepayments, receipts, outdated, discounted>>
    BY DEF OpenApply
  <1> HIDE DEF form
  <1> QED
    BY <1>1, <1>4, <1>6, <1>7 DEF OneForm

LEMMA ChooseForm ==
    ASSUME Rows, NEW f \in Pages, NEW c \in Parties, Choose(f, c)
    PROVE  /\ OneForm(f, Asking(forms[f], c))
           /\ Patient => \A d \in Parties : forms[f].requests[d] = 0
  <1>1. FormType(forms[f])
    BY DEF Rows
  <1>2. FormType(Asking(forms[f], c))
    BY <1>1, AskingType
  <1>3. /\ forms' = [forms EXCEPT ![f] = Asking(forms[f], c)]
        /\ UNCHANGED <<bills, prepayments, receipts, outdated, discounted>>
    BY DEF Choose
  <1>4. Patient => \A d \in Parties : forms[f].requests[d] = 0
    BY DEF Choose, Choosable, Idle
  <1> QED
    BY <1>2, <1>3, <1>4 DEF OneForm

LEMMA AnswerForm ==
    ASSUME Rows, NEW f \in Pages, NEW c \in Parties, Answer(f, c)
    PROVE  \E form :
              /\ OneForm(f, form)
              /\ form.party = forms[f].party
              /\ form.requests = [forms[f].requests EXCEPT ![c] = @ - 1]
              /\ forms[f].rows = <<>> =>
                     \A i \in DOMAIN form.rows : form.rows[i].bill \in BillsOf(c)
              /\ form.prepayment = forms[f].prepayment /\ form.amount = forms[f].amount
              /\ \A i \in DOMAIN form.rows :
                    \/ form.rows[i].bill \in BillsOf(c) \cup {Blank}
                    \/ \E j \in DOMAIN forms[f].rows : form.rows[i] = forms[f].rows[j]
  <1>1. PICK list \in Listings(c) :
           forms' = [forms EXCEPT ![f] =
               [Received(forms[f], c) EXCEPT !.rows = Fill(forms[f].rows, list)]]
    BY DEF Answer
  <1> DEFINE old == Received(forms[f], c)
             rows == Fill(forms[f].rows, list)
             form == [old EXCEPT !.rows = rows]
  <1>2. FormType(forms[f]) /\ forms[f].rows \in Seq(Row)
    BY DEF Rows, FormType
  <1>3. /\ FormType(old) /\ old.party = forms[f].party
        /\ old.requests = [forms[f].requests EXCEPT ![c] = @ - 1]
        /\ old.prepayment = forms[f].prepayment /\ old.amount = forms[f].amount
    BY <1>2, ReceivedType
  <1>4. /\ rows \in Seq(Row)
        /\ forms[f].rows = <<>> => \A i \in DOMAIN rows : rows[i].bill \in BillsOf(c)
        /\ \A i \in DOMAIN rows : \/ rows[i].bill \in BillsOf(c) \cup {Blank}
                                 \/ \E j \in DOMAIN forms[f].rows : rows[i] = forms[f].rows[j]
    BY <1>2, FillRows
  <1>5. forms' = [forms EXCEPT ![f] = form]
    BY <1>1
  <1>6. UNCHANGED <<bills, prepayments, receipts, outdated, discounted>>
    BY DEF Answer
  <1> HIDE DEF old, rows
  <1>7. PICK q, p, a, r, l : old = [party |-> p, prepayment |-> q, amount |-> a,
                                    requests |-> r, rows |-> l]
    BY <1>3, Zenon DEF FormType
  <1>8. form = [party |-> p, prepayment |-> q, amount |-> a, requests |-> r, rows |-> rows]
    BY <1>7
  <1>9. /\ form.party = old.party /\ form.requests = old.requests /\ form.rows = rows
        /\ form.prepayment = old.prepayment /\ form.amount = old.amount
    BY <1>7, <1>8
  <1>10. p = old.party /\ q = old.prepayment /\ r = old.requests
    BY <1>7
  <1> HIDE DEF form
  <1>11. FormType(form)
    BY <1>3, <1>4, <1>8, <1>10 DEF FormType
  <1>12. OneForm(f, form)
    BY <1>5, <1>6, <1>11 DEF OneForm
  <1>13. /\ form.party = forms[f].party
         /\ form.requests = [forms[f].requests EXCEPT ![c] = @ - 1]
         /\ form.prepayment = forms[f].prepayment /\ form.amount = forms[f].amount
    BY <1>3, <1>9
  <1>14. /\ forms[f].rows = <<>> => \A i \in DOMAIN form.rows : form.rows[i].bill \in BillsOf(c)
         /\ \A i \in DOMAIN form.rows :
               \/ form.rows[i].bill \in BillsOf(c) \cup {Blank}
               \/ \E j \in DOMAIN forms[f].rows : form.rows[i] = forms[f].rows[j]
    BY <1>4, <1>9
  <1> QED
    BY <1>12, <1>13, <1>14

LEMMA AnswerFailsForm ==
    ASSUME Rows, NEW f \in Pages, NEW c \in Parties, AnswerFails(f, c)
    PROVE  OneForm(f, Received(forms[f], c))
  BY ReceivedType DEF AnswerFails, Rows, OneForm

LEMMA LeaveForm ==
    ASSUME Rows, NEW f \in Pages, Leave(f)
    PROVE  OneForm(f, Closed)
  BY ClosedType DEF Leave, OneForm

LEMMA NextRows == Rows /\ [Next]_vars => Rows' /\ Kept
  <1> SUFFICES ASSUME Rows, [Next]_vars PROVE Rows' /\ Kept
    OBVIOUS
  <1>1. ASSUME NEW f \in Pages, NEW form, OneForm(f, form) PROVE Rows' /\ Kept
    BY <1>1, OneFormRows, BillsUnchanged DEF OneForm
  <1>2. ASSUME NEW b \in Bills, NEW c \in Parties, NEW amount \in Amounts,
               AddBill(b, c, amount)
        PROVE  Rows' /\ Kept
    <2>1. bills' \in [Bills -> Bill] /\ Kept
      BY <1>2, AddBillEffect
    <2>2. UNCHANGED <<prepayments, receipts, forms, outdated, discounted>>
      BY <1>2 DEF AddBill
    <2> QED
      BY <2>1, <2>2 DEF Rows, FormType
  <1>3. ASSUME NEW p \in Prepayments, NEW c \in Prepaying, NEW type \in Methods,
               NEW amount \in Amounts, NEW charges \in Charges,
               AddPrepayment(p, c, type, amount, charges)
        PROVE  Rows' /\ Kept
    <2>1. prepayments' = [prepayments EXCEPT ![p] =
             [party |-> c, type |-> type, amount |-> amount, charges |-> charges]]
      BY <1>3 DEF AddPrepayment
    <2>2. amount \in Int /\ charges \in Int /\ c \in Customers
      BY AmountAssumption, PartyAssumption
    <2>3. prepayments' \in [Prepayments -> Prepayment]
      BY <2>1, <2>2 DEF Rows, Prepayment
    <2>4. UNCHANGED <<bills, receipts, forms, outdated, discounted>>
      BY <1>3 DEF AddPrepayment
    <2> QED
      BY <2>3, <2>4, BillsUnchanged DEF Rows, FormType
  <1>4. ASSUME NEW f \in Pages, Leave(f) PROVE Rows' /\ Kept
    BY <1>1, <1>4, LeaveForm
  <1>5. ASSUME NEW f \in Pages, NEW p \in Prepayments, OpenApply(f, p) PROVE Rows' /\ Kept
    BY <1>1, <1>5, OpenApplyForm
  <1>6. ASSUME NEW f \in Pages, NEW c \in Parties, Choose(f, c) PROVE Rows' /\ Kept
    BY <1>1, <1>6, ChooseForm
  <1>7. ASSUME NEW f \in Pages, NEW c \in Parties, Answer(f, c) PROVE Rows' /\ Kept
    BY <1>1, <1>7, AnswerForm
  <1>8. ASSUME NEW f \in Pages, NEW c \in Parties, AnswerFails(f, c) PROVE Rows' /\ Kept
    BY <1>1, <1>8, AnswerFailsForm
  <1>9. ASSUME NEW f \in Pages, NEW type \in Methods,
               NEW typed \in [DOMAIN forms[f].rows -> Entries], Save(f, type, typed)
        PROVE  Rows' /\ Kept
    BY <1>9, SaveRows
  <1>10. CASE UNCHANGED vars
    BY <1>10, BillsUnchanged DEF vars, Rows, FormType
  <1> QED
    BY <1>2, <1>3, <1>4, <1>5, <1>6, <1>7, <1>8, <1>9, <1>10 DEF Next

LEMMA AlwaysRows == Spec => []Rows
  BY InitRows, NextRows, PTL DEF Spec

(***************************************************************************)
(* Whose bills are paid.  A patient user's page awaits one answer at a     *)
(* time, with no line on it, for the party it shows.                       *)
(***************************************************************************)

PageOwn(form) ==
    /\ \A c \in Parties : form.requests[c] # 0 =>
           form.requests[c] = 1 /\ c = form.party /\ form.rows = <<>>
    /\ \A i \in DOMAIN form.rows : form.rows[i].bill \in BillsOf(form.party)

Belonging == LinesAreTheParties /\ \A f \in Pages : PageOwn(forms[f])

LEMMA ClosedOwn == PageOwn(Closed)
  <1>1. \A c \in Parties : Closed.requests[c] = 0
    BY DEF Closed, NoRequests
  <1>2. DOMAIN Closed.rows = {}
    BY DEF Closed
  <1> QED
    BY <1>1, <1>2 DEF PageOwn

LEMMA InitBelonging == Init => Belonging
  <1> SUFFICES ASSUME Init PROVE Belonging
    OBVIOUS
  <1>1. DOMAIN receipts = {}
    BY DEF Init
  <1>2. \A f \in Pages : forms[f] = Closed
    BY DEF Init
  <1> QED
    BY <1>1, <1>2, ClosedOwn DEF Belonging, LinesAreTheParties

LEMMA BillsOfGrows ==
    ASSUME Kept
    PROVE  \A c : BillsOf(c) \subseteq BillsOf(c)'
  BY DEF Kept, BillsOf, Billed

LEMMA OneFormBelonging ==
    ASSUME Rows, Belonging, NEW f \in Pages, NEW form, OneForm(f, form), PageOwn(form)
    PROVE  Belonging'
  <1>1. \A c : BillsOf(c)' = BillsOf(c)
    BY DEF OneForm, BillsOf, Billed
  <1>2. LinesAreTheParties'
    BY <1>1 DEF OneForm, Belonging, LinesAreTheParties
  <1>3. \A g \in Pages : PageOwn(forms'[g])
    BY DEF Rows, OneForm, Belonging
  <1>4. \A g \in Pages : PageOwn(forms[g])'
    BY <1>1, <1>3 DEF PageOwn
  <1> QED
    BY <1>2, <1>4 DEF Belonging

LEMMA OtherFormsBelonging ==
    ASSUME Rows, Belonging, Kept, UNCHANGED <<receipts, forms>>
    PROVE  Belonging'
  <1>1. \A c : BillsOf(c) \subseteq BillsOf(c)'
    BY BillsOfGrows
  <1>2. LinesAreTheParties'
    BY <1>1 DEF Belonging, LinesAreTheParties
  <1>3. \A g \in Pages : PageOwn(forms[g])'
    BY <1>1 DEF Belonging, PageOwn
  <1> QED
    BY <1>2, <1>3 DEF Belonging

\* A page that has just asked for the bills of its party.
LEMMA AskingOwn ==
    ASSUME NEW form, NEW requests \in [Parties -> Int], NEW c \in Parties,
           \A d \in Parties : requests[d] = 0,
           form.requests = [requests EXCEPT ![c] = @ + 1], form.party = c, form.rows = <<>>
    PROVE  PageOwn(form)
  <1>1. DOMAIN form.rows = {}
    OBVIOUS
  <1>2. \A d \in Parties : form.requests[d] = IF d = c THEN 1 ELSE 0
    OBVIOUS
  <1> QED
    BY <1>1, <1>2 DEF PageOwn

\* A page that has just got its answer, or lost it.
LEMMA ReceivedOwn ==
    ASSUME NEW old, FormType(old), PageOwn(old), NEW c \in Parties, old.requests[c] > 0,
           NEW form, form.requests = [old.requests EXCEPT ![c] = @ - 1],
           form.party = old.party,
           \A i \in DOMAIN form.rows : form.rows[i].bill \in BillsOf(c)
    PROVE  PageOwn(form)
  <1>1. old.requests \in [Parties -> Int]
    BY DEF FormType
  <1>2. old.requests[c] = 1 /\ c = old.party
    BY <1>1 DEF PageOwn
  <1>3. \A d \in Parties : form.requests[d] = 0
    BY <1>1, <1>2 DEF PageOwn
  <1> QED
    BY <1>2, <1>3 DEF PageOwn

LEMMA SaveBelonging ==
    ASSUME Rows, Belonging, NEW f \in Pages, NEW type \in Methods,
           NEW typed \in [DOMAIN forms[f].rows -> Entries], Save(f, type, typed)
    PROVE  Belonging'
  <1>1. \A c : BillsOf(c) \subseteq BillsOf(c)'
    BY SaveRows, BillsOfGrows
  <1>2. \A line \in Taken(f, typed) : line.bill \in BillsOf(forms[f].party)
    BY TakenLines DEF Belonging, PageOwn
  <1>3. forms' = [forms EXCEPT ![f] = Closed]
    BY SaveEffect
  <1>4. \A g \in Pages : PageOwn(forms'[g])
    BY <1>3, ClosedOwn DEF Rows, Belonging
  <1>5. \A g \in Pages : PageOwn(forms[g])'
    BY <1>1, <1>4 DEF PageOwn
  <1>6. CASE receipts' = receipts
    BY <1>1, <1>5, <1>6 DEF Belonging, LinesAreTheParties
  <1>7. ASSUME NEW receipt \in Receipt, receipts' = Append(receipts, receipt),
               receipt.party = forms[f].party, receipt.lines = Taken(f, typed)
        PROVE  Belonging'
    <2>1. receipts \in Seq(Receipt)
      BY DEF Rows
    <2>2. \A i \in DOMAIN receipts' : \/ i \in DOMAIN receipts /\ receipts'[i] = receipts[i]
                                      \/ receipts'[i] = receipt
      BY <1>7, <2>1
    <2>3. \A i \in DOMAIN receipts' : \A line \in receipts'[i].lines :
             line.bill \in BillsOf(receipts'[i].party)
      BY <1>2, <1>7, <2>2 DEF Belonging, LinesAreTheParties
    <2>4. LinesAreTheParties'
      BY <1>1, <2>3 DEF LinesAreTheParties
    <2> QED
      BY <1>5, <2>4 DEF Belonging
  <1> QED
    BY <1>6, <1>7, SaveEffect

LEMMA NextBelonging ==
    ASSUME Patient, Rows, Belonging, [Next]_vars
    PROVE  Belonging'
  <1>1. ASSUME NEW f \in Pages, Leave(f) PROVE Belonging'
    BY <1>1, LeaveForm, ClosedOwn, OneFormBelonging
  <1>2. ASSUME NEW f \in Pages, NEW p \in Prepayments, OpenApply(f, p) PROVE Belonging'
    <2>1. PICK form :
             /\ OneForm(f, form)
             /\ form.party \in Parties /\ form.rows = <<>>
             /\ form.requests = [NoRequests EXCEPT ![form.party] = @ + 1]
      BY <1>2, OpenApplyForm
    <2>2. NoRequests \in [Parties -> Int] /\ \A d \in Parties : NoRequests[d] = 0
      BY DEF NoRequests
    <2>3. PageOwn(form)
      BY <2>1, <2>2, AskingOwn
    <2> QED
      BY <2>1, <2>3, OneFormBelonging
  <1>3. ASSUME NEW f \in Pages, NEW c \in Parties, Choose(f, c) PROVE Belonging'
    <2>1. OneForm(f, Asking(forms[f], c)) /\ \A d \in Parties : forms[f].requests[d] = 0
      BY <1>3, ChooseForm
    <2>2. FormType(forms[f]) /\ forms[f].requests \in [Parties -> Int]
      BY DEF Rows, FormType
    <2>3. PageOwn(Asking(forms[f], c))
      BY <2>1, <2>2, AskingType, AskingOwn
    <2> QED
      BY <2>1, <2>3, OneFormBelonging
  <1>4. ASSUME NEW f \in Pages, NEW c \in Parties, Answer(f, c) PROVE Belonging'
    <2>1. forms[f].requests[c] > 0 /\ FormType(forms[f]) /\ PageOwn(forms[f])
      BY <1>4 DEF Answer, Rows, Belonging
    <2>2. forms[f].rows = <<>>
      BY <2>1 DEF PageOwn, FormType
    <2>3. PICK form :
             /\ OneForm(f, form)
             /\ form.party = forms[f].party
             /\ form.requests = [forms[f].requests EXCEPT ![c] = @ - 1]
             /\ \A i \in DOMAIN form.rows : form.rows[i].bill \in BillsOf(c)
      BY <1>4, <2>2, AnswerForm
    <2>4. PageOwn(form)
      BY <2>1, <2>3, ReceivedOwn
    <2> QED
      BY <2>3, <2>4, OneFormBelonging
  <1>5. ASSUME NEW f \in Pages, NEW c \in Parties, AnswerFails(f, c) PROVE Belonging'
    <2>1. forms[f].requests[c] > 0 /\ FormType(forms[f]) /\ PageOwn(forms[f])
      BY <1>5 DEF AnswerFails, Rows, Belonging
    <2>2. forms[f].rows = <<>>
      BY <2>1 DEF PageOwn, FormType
    <2>3. \A i \in DOMAIN Received(forms[f], c).rows :
             Received(forms[f], c).rows[i].bill \in BillsOf(c)
      <3> DEFINE rows == Received(forms[f], c).rows
      <3>1. rows = <<>>
        BY <2>1, <2>2, ReceivedType
      <3> HIDE DEF rows
      <3>2. DOMAIN rows = {}
        BY <3>1
      <3> QED
        BY <3>2 DEF rows
    <2>5. /\ Received(forms[f], c).party = forms[f].party
          /\ Received(forms[f], c).requests = [forms[f].requests EXCEPT ![c] = @ - 1]
      BY <2>1, ReceivedType
    <2>4. PageOwn(Received(forms[f], c))
      BY <2>1, <2>3, <2>5, ReceivedOwn
    <2> QED
      BY <1>5, <2>4, AnswerFailsForm, OneFormBelonging
  <1>6. ASSUME NEW f \in Pages, NEW type \in Methods,
               NEW typed \in [DOMAIN forms[f].rows -> Entries], Save(f, type, typed)
        PROVE  Belonging'
    BY <1>6, SaveBelonging
  <1>7. ASSUME NEW b \in Bills, NEW c \in Parties, NEW amount \in Amounts, AddBill(b, c, amount)
        PROVE  Belonging'
    BY <1>7, AddBillEffect, OtherFormsBelonging DEF AddBill
  <1>8. ASSUME NEW p \in Prepayments, NEW c \in Prepaying, NEW type \in Methods,
               NEW amount \in Amounts, NEW charges \in Charges,
               AddPrepayment(p, c, type, amount, charges)
        PROVE  Belonging'
    BY <1>8, BillsUnchanged, OtherFormsBelonging DEF AddPrepayment
  <1>9. CASE UNCHANGED vars
    BY <1>9, BillsUnchanged, OtherFormsBelonging DEF vars
  <1> QED
    BY <1>1, <1>2, <1>3, <1>4, <1>5, <1>6, <1>7, <1>8, <1>9 DEF Next

\* If users wait for the bills of one party before they pick another, every
\* receipt and payment is applied to bills of its own party.
THEOREM PatientUsersPayTheirOwn ==
    ASSUME Patient
    PROVE  Spec => []LinesAreTheParties
  <1>1. Rows /\ Belonging /\ [Next]_vars => Belonging'
    BY NextBelonging
  <1>2. Belonging => LinesAreTheParties
    BY DEF Belonging
  <1> QED
    BY <1>1, <1>2, InitBelonging, AlwaysRows, PTL DEF Spec

(***************************************************************************)
(* What is owed, while pages are up to date.                               *)
(***************************************************************************)

\* A line of a page that is up to date never takes more than is owed.
LEMMA NormalisedLeaves ==
    ASSUME NEW unpaid \in Int, unpaid >= 0, NEW entry \in Entries
    PROVE  LET line == Normalised(entry, unpaid) IN
           /\ line.paid \in Int /\ line.writeOff \in Int
           /\ unpaid + line.writeOff - line.paid >= 0
           /\ unpaid = 0 /\ line.writeOff <= line.paid => unpaid + line.writeOff - line.paid = 0
  <1> DEFINE line == Normalised(entry, unpaid)
             kept == unpaid + line.writeOff - line.paid
             Leaves == /\ line.paid \in Int /\ line.writeOff \in Int
                       /\ kept >= 0
                       /\ unpaid = 0 /\ line.writeOff <= line.paid => kept = 0
  <1>1. entry.paid \in Int /\ entry.writeOff \in Int
    BY AmountAssumption
  <1>2. ASSUME entry.paid > unpaid PROVE Leaves
    <2>1. line.paid = entry.paid /\ line.writeOff = entry.paid - unpaid
      BY <1>2 DEF Normalised
    <2> HIDE DEF line
    <2> QED BY <1>1, <1>2, <2>1
  <1>3. ASSUME ~(entry.paid > unpaid), entry.writeOff < 0, entry.writeOff + unpaid < entry.paid
        PROVE  Leaves
    <2>1. line.paid = entry.writeOff + unpaid /\ line.writeOff = entry.writeOff
      BY <1>3 DEF Normalised
    <2> HIDE DEF line
    <2> QED BY <1>1, <1>3, <2>1
  <1>4. ASSUME ~(entry.paid > unpaid), ~(entry.writeOff < 0 /\ entry.writeOff + unpaid < entry.paid)
        PROVE  Leaves
    <2>1. line = entry
      BY <1>4 DEF Normalised
    <2> HIDE DEF line
    <2> QED BY <1>1, <1>4, <2>1
  <1>5. Leaves
    <2> HIDE DEF Leaves
    <2> QED BY <1>2, <1>3, <1>4
  <1> QED
    BY <1>5 DEF Leaves

\* What an application makes of its bill.
LEMMA FreshlyCollected ==
    ASSUME Rows, NEW f \in Pages, NEW typed \in [DOMAIN forms[f].rows -> Entries],
           NEW line \in Taken(f, typed), UpToDate(forms[f]),
           bills[line.bill].unpaid >= 0
    PROVE  LET unpaid == bills[line.bill].unpaid
               left == unpaid + line.writeOff - line.paid IN
           /\ line.bill \in Bills /\ line.paid \in Int /\ line.writeOff \in Int
           /\ unpaid \in Int /\ left \in Int /\ left >= 0
           /\ unpaid = 0 /\ line.writeOff <= line.paid => left = 0
  <1>1. PICK i \in DOMAIN forms[f].rows, entry \in Entries :
           /\ line.bill = forms[f].rows[i].bill /\ forms[f].rows[i].bill # Blank
           /\ line.paid = Normalised(entry, forms[f].rows[i].unpaid).paid
           /\ line.writeOff = Normalised(entry, forms[f].rows[i].unpaid).writeOff
    BY TakenLines
  <1>2. line.bill \in Bills /\ line.paid \in Int /\ line.writeOff \in Int
    BY TakenLines DEF Line
  <1>3. forms[f].rows[i] = RowOf(line.bill)
    BY <1>1 DEF UpToDate
  <1>4. forms[f].rows[i].unpaid = bills[line.bill].unpaid
    BY <1>3 DEF RowOf
  <1>5. bills[line.bill].unpaid \in Int
    BY <1>2 DEF Rows, Bill
  <1> DEFINE kept == Normalised(entry, bills[line.bill].unpaid)
  <1>6. LET left == bills[line.bill].unpaid + kept.writeOff - kept.paid IN
        /\ left >= 0
        /\ bills[line.bill].unpaid = 0 /\ kept.writeOff <= kept.paid => left = 0
    BY <1>5, NormalisedLeaves
  <1>7. line.paid = kept.paid /\ line.writeOff = kept.writeOff
    BY <1>1, <1>4
  <1> HIDE DEF kept
  <1> QED
    BY <1>2, <1>5, <1>6, <1>7

\* What a line does to its bill.
Credits(line, type, old, new) ==
    /\ new.settled = (old.settled \/ (new.status = "PAID" /\ old.party \in Customers))
    /\ new.party = old.party /\ new.amount = old.amount
    /\ new.clearing = old.clearing
          + (IF type = "CLEARING" THEN line.paid - line.writeOff ELSE 0)
    /\ LET left == old.unpaid + line.writeOff - line.paid IN
       \/ /\ type = "CLEARING"
          /\ new.unpaid = old.unpaid /\ new.status = old.status
       \/ /\ type # "CLEARING" /\ left \in -1..1
          /\ new.unpaid = 0 /\ new.status = "PAID"
       \/ /\ type # "CLEARING" /\ left \notin -1..1
          /\ new.unpaid = left /\ new.status = old.status

\* A credited bill, seen from its application.
LEMMA CreditedBill ==
    ASSUME Rows, NEW applications \in SUBSET Line, NEW type, NEW b \in Bills
    PROVE  \/ /\ ~ \E line \in applications : line.bill = b
              /\ Credited(applications, type)[b] = bills[b]
           \/ \E line \in applications :
                 /\ line.bill = b /\ line \in Line
                 /\ Credits(line, type, bills[b], Credited(applications, type)[b])
  <1>1. CASE ~ \E line \in applications : line.bill = b
    BY <1>1 DEF Credited
  <1>2. CASE \E line \in applications : line.bill = b
    <2>1. PICK line \in applications :
             line.bill = b /\ line = CHOOSE l \in applications : l.bill = b
      BY <1>2
    <2> DEFINE old == bills[b]
               left == old.unpaid + line.writeOff - line.paid
               got == Collected(old, line, type)
    <2>2. Credited(applications, type)[b] = Marked(got)
      BY <1>2, <2>1 DEF Credited
    <2>3. old \in Bill /\ line \in Line
      BY DEF Rows
    <2>4. left \in Int
      BY <2>3 DEF Bill, Line
    <2> HIDE DEF left
    <2>5. \A bill \in Bill : /\ Marked(bill).unpaid = bill.unpaid
                             /\ Marked(bill).status = bill.status
                             /\ Marked(bill).party = bill.party
                             /\ Marked(bill).clearing = bill.clearing
                             /\ Marked(bill).amount = bill.amount
      BY DEF Marked, Bill
    <2>6. \A bill \in Bill : Marked(bill).settled =
             (bill.settled \/ (bill.status = "PAID" /\ bill.party \in Customers))
      BY Zenon DEF Marked, Bill
    <2>7. /\ PaidOff(old) \in Bill /\ PaidOff(old).party = old.party
          /\ PaidOff(old).settled = old.settled
          /\ PaidOff(old).unpaid = 0 /\ PaidOff(old).status = "PAID"
          /\ PaidOff(old).clearing = old.clearing /\ PaidOff(old).amount = old.amount
      BY <2>3, PaidOffFields
    <2>8. LET bill == [old EXCEPT !.unpaid = left] IN
             /\ bill \in Bill /\ bill.party = old.party /\ bill.settled = old.settled
             /\ bill.unpaid = left /\ bill.status = old.status
             /\ bill.clearing = old.clearing /\ bill.amount = old.amount
      BY <2>3, <2>4 DEF Bill
    <2>9. LET bill == [old EXCEPT !.clearing = @ + line.paid - line.writeOff] IN
             /\ bill \in Bill /\ bill.party = old.party /\ bill.settled = old.settled
             /\ bill.unpaid = old.unpaid /\ bill.status = old.status
             /\ bill.clearing = old.clearing + line.paid - line.writeOff
             /\ bill.amount = old.amount
      BY <2>3 DEF Bill, Line
    <2>10. got = IF type = "CLEARING"
                 THEN [old EXCEPT !.clearing = @ + line.paid - line.writeOff]
                 ELSE IF left \in -1..1 THEN PaidOff(old) ELSE [old EXCEPT !.unpaid = left]
      BY DEF Collected, Negligible, left
    <2>11. /\ got \in Bill /\ got.party = old.party /\ got.settled = old.settled
           /\ got.amount = old.amount
      BY <2>7, <2>8, <2>9, <2>10
    <2>12. \/ /\ type = "CLEARING"
              /\ got.unpaid = old.unpaid /\ got.status = old.status
           \/ /\ type # "CLEARING" /\ left \in -1..1
              /\ got.unpaid = 0 /\ got.status = "PAID"
           \/ /\ type # "CLEARING" /\ left \notin -1..1
              /\ got.unpaid = left /\ got.status = old.status
      BY <2>7, <2>8, <2>9, <2>10
    <2>15. old.clearing \in Int /\ line.paid \in Int /\ line.writeOff \in Int
      BY <2>3 DEF Bill, Line
    <2>16. got.clearing = old.clearing
              + (IF type = "CLEARING" THEN line.paid - line.writeOff ELSE 0)
      BY <2>7, <2>8, <2>9, <2>10, <2>15
    <2> HIDE DEF got, old
    <2>13. LET bill == Credited(applications, type)[b] IN
             /\ bill.unpaid = got.unpaid /\ bill.status = got.status /\ bill.party = old.party
             /\ bill.clearing = got.clearing /\ bill.amount = old.amount
      BY <2>2, <2>5, <2>11
    <2>14. Credited(applications, type)[b].settled =
             (old.settled \/ (got.status = "PAID" /\ old.party \in Customers))
      BY <2>2, <2>6, <2>11, Zenon
    <2>17. Credits(line, type, bills[b], Credited(applications, type)[b])
      BY <2>12, <2>13, <2>14, <2>16 DEF left, old, Credits
    <2> QED
      BY <2>1, <2>3, <2>17
  <1> QED
    BY <1>1, <1>2

Balanced(b) ==
    /\ ~Billed(b) => ~bills[b].settled
    /\ Billed(b) /\ ~WrittenUp(b) =>
           /\ bills[b].status = "PAID" <=> bills[b].unpaid = 0
           /\ bills[b].settled <=> bills[b].status = "PAID" /\ bills[b].party \in Customers
Debts == ~outdated => \A b \in Bills : bills[b].unpaid >= 0 /\ Balanced(b)

LEMMA InitDebts == Init => Debts
  <1> SUFFICES ASSUME Init PROVE Debts
    OBVIOUS
  <1>1. \A b \in Bills : /\ bills[b].unpaid = 0 /\ bills[b].status = "NEW"
                         /\ ~bills[b].settled
    BY DEF Init, NewBill
  <1> QED
    BY <1>1 DEF Debts, Balanced, Billed

LEMMA SameDebts ==
    ASSUME Debts, UNCHANGED <<bills, receipts, outdated>>
    PROVE  Debts'
  BY DEF Debts, Balanced, Billed, WrittenUp

LEMMA AddBillDebts ==
    ASSUME Rows, Debts, NEW b \in Bills, NEW c \in Parties, NEW amount \in Amounts,
           AddBill(b, c, amount)
    PROVE  Debts'
  <1>1. /\ bills' = [bills EXCEPT ![b] =
               [status |-> "UNPAID", party |-> c, amount |-> amount,
                unpaid |-> amount, clearing |-> 0, settled |-> FALSE]]
        /\ amount \in Nat \ {0}
    BY AddBillEffect
  <1>2. UNCHANGED <<receipts, outdated>>
    BY DEF AddBill
  <1>3. \A o \in Bills : WrittenUp(o)' = WrittenUp(o)
    BY <1>2 DEF WrittenUp
  <1>4. bills'[b].unpaid = amount /\ bills'[b].status = "UNPAID" /\ ~ bills'[b].settled
    BY <1>1 DEF Rows
  <1>5. \A o \in Bills \ {b} : bills'[o] = bills[o]
    BY <1>1 DEF Rows
  <1>6. \A o \in Bills \ {b} : (bills[o].unpaid >= 0 /\ Balanced(o)) =>
                                  (bills'[o].unpaid >= 0 /\ Balanced(o)')
    BY <1>3, <1>5 DEF Balanced, Billed
  <1>7. amount >= 0 /\ amount # 0
    BY <1>1
  <1>8. bills'[b].unpaid >= 0 /\ Balanced(b)'
    BY <1>4, <1>7 DEF Balanced
  <1> QED
    BY <1>2, <1>6, <1>8 DEF Debts

\* A bill that was written up stays so, and a line makes it so.
LEMMA WrittenUpStays ==
    ASSUME Rows, NEW f \in Pages, NEW type \in Methods,
           NEW typed \in [DOMAIN forms[f].rows -> Entries], Save(f, type, typed), NEW b
    PROVE  /\ WrittenUp(b) => WrittenUp(b)'
           /\ \A line \in Taken(f, typed) :
                 line.bill = b /\ line.writeOff > line.paid => WrittenUp(b)'
  <1>1. receipts \in Seq(Receipt)
    BY DEF Rows
  <1>2. WrittenUp(b) => WrittenUp(b)'
    <2>1. CASE receipts' = receipts
      BY <2>1 DEF WrittenUp
    <2>2. ASSUME NEW receipt \in Receipt, receipts' = Append(receipts, receipt)
          PROVE  \A i \in DOMAIN receipts : i \in DOMAIN receipts' /\ receipts'[i] = receipts[i]
      BY <1>1, <2>2
    <2> QED
      BY <2>1, <2>2, SaveEffect DEF WrittenUp
  <1>3. \A line \in Taken(f, typed) : line.bill = b /\ line.writeOff > line.paid => WrittenUp(b)'
    <2>1. CASE Taken(f, typed) = {}
      BY <2>1
    <2>2. ASSUME NEW receipt \in Receipt, receipts' = Append(receipts, receipt),
                 receipt.lines = Taken(f, typed)
          PROVE  \E i \in DOMAIN receipts' : receipts'[i].lines = Taken(f, typed)
      <3>1. Len(receipts) + 1 \in DOMAIN receipts' /\ receipts'[Len(receipts) + 1] = receipt
        BY <1>1, <2>2
      <3> QED
        BY <2>2, <3>1
    <2>3. CASE \E i \in DOMAIN receipts' : receipts'[i].lines = Taken(f, typed)
      BY <2>3 DEF WrittenUp
    <2> QED
      BY <2>1, <2>2, <2>3, SaveEffect
  <1> QED
    BY <1>2, <1>3

LEMMA SaveDebts ==
    ASSUME Rows, Debts, NEW f \in Pages, NEW type \in Methods,
           NEW typed \in [DOMAIN forms[f].rows -> Entries], Save(f, type, typed)
    PROVE  Debts'
  <1> SUFFICES ASSUME ~outdated', NEW b \in Bills
               PROVE  bills'[b].unpaid >= 0 /\ Balanced(b)'
    BY DEF Debts
  <1>1. ~outdated /\ UpToDate(forms[f])
    BY SaveEffect
  <1>2. /\ Taken(f, typed) \in SUBSET Line
        /\ bills' = Credited(Taken(f, typed), type)
    BY SaveEffect
  <1>3. bills[b].unpaid >= 0 /\ Balanced(b)
    BY <1>1 DEF Debts
  <1>5. WrittenUp(b) => WrittenUp(b)'
    BY WrittenUpStays
  <1>6. \A line \in Taken(f, typed) : line.bill = b /\ line.writeOff > line.paid => WrittenUp(b)'
    BY WrittenUpStays
  <1>8. CASE bills'[b] = bills[b]
    BY <1>3, <1>5, <1>8 DEF Balanced, Billed
  <1>9. ASSUME NEW line \in Taken(f, typed), line.bill = b,
               Credits(line, type, bills[b], bills'[b])
        PROVE  bills'[b].unpaid >= 0 /\ Balanced(b)'
    <2> DEFINE left == bills[b].unpaid + line.writeOff - line.paid
    <2>1. /\ line.paid \in Int /\ line.writeOff \in Int
          /\ left \in Int /\ left >= 0
          /\ bills[b].unpaid = 0 /\ line.writeOff <= line.paid => left = 0
      BY <1>1, <1>3, <1>9, FreshlyCollected
    <2>2. \/ /\ bills'[b].unpaid = bills[b].unpaid /\ bills'[b].status = bills[b].status
          \/ /\ bills'[b].unpaid = 0 /\ bills'[b].status = "PAID"
          \/ /\ left # 0
             /\ bills'[b].unpaid = left /\ bills'[b].status = bills[b].status
      BY <1>9 DEF Credits
    <2> HIDE DEF left
    <2>3. bills'[b].unpaid >= 0
      BY <1>3, <2>1, <2>2
    <2>4. bills'[b].settled = (bills[b].settled \/ (bills'[b].status = "PAID" /\ bills[b].party \in Customers))
      BY <1>9, Zenon DEF Credits
    <2>5. bills[b].settled \in BOOLEAN
      BY DEF Rows, Bill
    <2>6. ~Billed(b)' => ~bills'[b].settled
      <3>1. ~Billed(b)' => bills'[b].status = "NEW" /\ bills[b].status = "NEW"
        BY <2>2 DEF Billed
      <3>2. ~Billed(b)' => bills'[b].status # "PAID" /\ ~Billed(b)
        BY <3>1 DEF Billed
      <3>3. ~Billed(b) => ~bills[b].settled
        BY <1>3, Zenon DEF Balanced
      <3> QED
        BY <2>4, <3>2, <3>3, Zenon
    <2>7. ASSUME Billed(b)', ~WrittenUp(b)'
          PROVE  bills'[b].status = "PAID" <=> bills'[b].unpaid = 0
      <3>1. line.writeOff <= line.paid
        BY <1>6, <1>9, <2>1, <2>7
      <3>2. Billed(b) => (bills[b].status = "PAID" <=> bills[b].unpaid = 0)
        BY <1>3, <1>5, <2>7, Zenon DEF Balanced
      <3>3. Billed(b) \/ (bills'[b].status = "PAID" /\ bills'[b].unpaid = 0)
        BY <2>2, <2>7 DEF Billed
      <3> QED
        BY <2>1, <2>2, <3>1, <3>2, <3>3
    <2>8. ASSUME Billed(b)', ~WrittenUp(b)'
          PROVE  bills'[b].settled <=> bills'[b].status = "PAID" /\ bills'[b].party \in Customers
      <3>1. bills[b].settled => bills[b].status = "PAID" /\ bills[b].party \in Customers
        BY <1>3, <1>5, <2>8, Zenon DEF Balanced
      <3>2. bills[b].status = "PAID" => bills'[b].status = "PAID"
        BY <2>2
      <3>3. bills'[b].party = bills[b].party
        BY <1>9 DEF Credits
      <3> QED
        BY <2>4, <3>1, <3>2, <3>3, Zenon
    <2> QED
      BY <2>3, <2>6, <2>7, <2>8, Zenon DEF Balanced
  <1> QED
    BY <1>2, <1>8, <1>9, CreditedBill

LEMMA NextDebts == Rows /\ Debts /\ [Next]_vars => Debts'
  <1> SUFFICES ASSUME Rows, Debts, [Next]_vars PROVE Debts'
    OBVIOUS
  <1>1. ASSUME NEW f \in Pages,
               \/ Leave(f)
               \/ \E p \in Prepayments : OpenApply(f, p)
               \/ \E c \in Parties : Choose(f, c) \/ Answer(f, c) \/ AnswerFails(f, c)
        PROVE  Debts'
    BY <1>1, SameDebts DEF Leave, OpenApply, Choose, Answer, AnswerFails
  <1>2. ASSUME NEW f \in Pages, NEW type \in Methods,
               NEW typed \in [DOMAIN forms[f].rows -> Entries], Save(f, type, typed)
        PROVE  Debts'
    BY <1>2, SaveDebts
  <1>3. ASSUME NEW b \in Bills, NEW c \in Parties, NEW amount \in Amounts, AddBill(b, c, amount)
        PROVE  Debts'
    BY <1>3, AddBillDebts
  <1>4. ASSUME NEW p \in Prepayments, NEW c \in Prepaying, NEW type \in Methods,
               NEW amount \in Amounts, NEW charges \in Charges,
               AddPrepayment(p, c, type, amount, charges)
        PROVE  Debts'
    BY <1>4, SameDebts DEF AddPrepayment
  <1>5. CASE UNCHANGED vars
    BY <1>5, SameDebts DEF vars
  <1> QED
    BY <1>1, <1>2, <1>3, <1>4, <1>5 DEF Next

\* As long as every page was saved up to date, no bill is owed less than
\* nothing.
THEOREM NothingOverpaid == Spec => []NeverOverpaid
  <1>1. Debts => NeverOverpaid
    BY DEF Debts, NeverOverpaid
  <1> QED
    BY <1>1, InitDebts, NextDebts, AlwaysRows, PTL DEF Spec

\* As long as every page was saved up to date, a bill that was not written
\* up is paid, and its reference items are marked, exactly when nothing is
\* owed.
THEOREM PaidWhenNothingIsOwed == Spec => []SettledTogether
  <1>1. Debts => SettledTogether
    BY DEF Debts, Balanced, SettledTogether
  <1> QED
    BY <1>1, InitDebts, NextDebts, AlwaysRows, PTL DEF Spec

(***************************************************************************)
(* What the sums are taken over: receipts of finitely many lines for bills *)
(* and prepayments there are, whoever the user is.  The page of a prepay-  *)
(* ment has one answer to await, so that its lines are of its party.       *)
(***************************************************************************)
FormSound(form) ==
    /\ \A i \in DOMAIN form.rows : form.rows[i].bill # Blank => Billed(form.rows[i].bill)
    /\ form.prepayment # NoPrepayment =>
           PageOwn(form) /\ prepayments[form.prepayment].party # NoParty
    /\ form.amount \in Int
    /\ \A c \in Parties : form.requests[c] \in 0..MaxRequests

ReceiptSound(receipt) ==
    /\ IsFiniteSet(receipt.lines)
    /\ \A line \in receipt.lines : Billed(line.bill)
    /\ receipt.prepayment # NoPrepayment => prepayments[receipt.prepayment].party # NoParty

Sourced ==
    /\ \A i \in DOMAIN receipts : ReceiptSound(receipts[i])
    /\ \A f \in Pages : FormSound(forms[f])

LEMMA ReceiptAppended ==
    ASSUME Rows, NEW receipt \in Receipt, receipts' = Append(receipts, receipt)
    PROVE  \E n \in Nat : /\ n \notin DOMAIN receipts
                         /\ DOMAIN receipts' = DOMAIN receipts \cup {n}
                         /\ receipts'[n] = receipt
                         /\ \A i \in DOMAIN receipts : receipts'[i] = receipts[i]
  <1> DEFINE n == Len(receipts) + 1
  <1>1. n \in Nat /\ n \notin DOMAIN receipts
    BY DEF Rows
  <1>2. DOMAIN receipts' = DOMAIN receipts \cup {n}
    BY DEF Rows
  <1>3. receipts'[n] = receipt /\ \A i \in DOMAIN receipts : receipts'[i] = receipts[i]
    BY DEF Rows
  <1> QED
    BY <1>1, <1>2, <1>3

LEMMA TakenFinite ==
    ASSUME Rows, NEW f \in Pages, NEW typed \in [DOMAIN forms[f].rows -> Entries]
    PROVE  IsFiniteSet(Taken(f, typed))
  <1> DEFINE rows == forms[f].rows
             lines == Submitted(forms[f], typed)
             all == [i \in DOMAIN rows |-> [bill |-> rows[i].bill, paid |-> lines[i].paid,
                                            writeOff |-> lines[i].writeOff]]
             T == Stored(rows, lines)
  <1>1. DOMAIN rows = 1..Len(rows) /\ Len(rows) \in Nat
    BY DEF Rows, FormType
  <1>2. IsFiniteSet(DOMAIN rows)
    <2>1. IsFiniteSet(1..Len(rows))
      BY ONLY <1>1, FS_Interval
    <2> QED
      BY ONLY <1>1, <2>1
  <1>3. IsFiniteSet(T)
    BY <1>2, FS_Subset DEF Stored
  <1>4. Taken(f, typed) = {all[i] : i \in T}
    BY DEF Taken, Applications, Stored
  <1> HIDE DEF T, all
  <1> QED
    BY <1>3, <1>4, ImageFinite

LEMMA AppliedIsInt ==
    ASSUME NEW lines \in SUBSET Line, IsFiniteSet(lines)
    PROVE  Applied(lines) \in Int
  <1>1. [line \in lines |-> line.paid + line.writeOff] \in [lines -> Int]
    BY DEF Line
  <1> QED
    BY <1>1, SumFunctionInt DEF Applied

LEMMA TotalIsInt ==
    ASSUME Rows, Sourced, NEW p
    PROVE  /\ IsFiniteSet(ReceiptsOf(p))
           /\ [i \in ReceiptsOf(p) |-> Applied(receipts[i].lines)] \in [ReceiptsOf(p) -> Int]
           /\ TotalApplied(p) \in Int
  <1>1. DOMAIN receipts = 1..Len(receipts) /\ Len(receipts) \in Nat
    BY DEF Rows
  <1>2. IsFiniteSet(DOMAIN receipts)
    BY <1>1, FS_Interval
  <1>3. IsFiniteSet(ReceiptsOf(p)) /\ ReceiptsOf(p) \subseteq DOMAIN receipts
    BY <1>2, FS_Subset DEF ReceiptsOf
  <1>4. \A i \in DOMAIN receipts : receipts[i].lines \in SUBSET Line
    <2>1. \A i \in DOMAIN receipts : receipts[i] \in Receipt
      BY DEF Rows
    <2> QED
      BY <2>1 DEF Receipt
  <1>5. \A i \in DOMAIN receipts : Applied(receipts[i].lines) \in Int
    BY <1>4, AppliedIsInt DEF Sourced, ReceiptSound
  <1>6. [i \in ReceiptsOf(p) |-> Applied(receipts[i].lines)] \in [ReceiptsOf(p) -> Int]
    BY <1>3, <1>5
  <1> QED
    BY <1>3, <1>6, SumFunctionInt DEF TotalApplied

LEMMA OneFormSourced ==
    ASSUME Rows, Sourced, NEW f \in Pages, NEW form, OneForm(f, form), FormSound(form)
    PROVE  Sourced'
  <1>1. \A b : Billed(b)' = Billed(b)
    BY DEF OneForm, Billed
  <1>2. \A c : BillsOf(c)' = BillsOf(c)
    BY DEF OneForm, BillsOf, Billed
  <1>3. \A g \in Pages : FormSound(forms'[g])
    BY DEF Rows, OneForm, Sourced
  <1>4. \A g \in Pages : PageOwn(forms'[g]) => PageOwn(forms[g])'
    BY <1>2 DEF PageOwn
  <1>5. \A g \in Pages : FormSound(forms[g])'
    BY <1>1, <1>3, <1>4 DEF FormSound, OneForm
  <1>6. \A i \in DOMAIN receipts' : ReceiptSound(receipts[i])'
    BY <1>1 DEF ReceiptSound, Sourced, OneForm
  <1> QED
    BY <1>5, <1>6 DEF Sourced

\* Neither bills nor prepayments get lost.
LEMMA SoundStays ==
    ASSUME Rows, Sourced, Kept,
           \A p \in Prepayments : prepayments[p].party # NoParty => prepayments'[p].party # NoParty
    PROVE  /\ \A i \in DOMAIN receipts : /\ \A line \in receipts[i].lines : Billed(line.bill)'
                                         /\ receipts[i].prepayment # NoPrepayment =>
                                               prepayments'[receipts[i].prepayment].party # NoParty
           /\ \A f \in Pages : forms'[f] = forms[f] => FormSound(forms[f])'
  <1>1. \A b \in Bills : Billed(b) => Billed(b)'
    BY DEF Kept
  <1>2. \A c : BillsOf(c) \subseteq BillsOf(c)'
    BY BillsOfGrows
  <1>3. \A i \in DOMAIN receipts : receipts[i] \in Receipt
    BY DEF Rows
  <1>4. ASSUME NEW i \in DOMAIN receipts
        PROVE  /\ \A line \in receipts[i].lines : Billed(line.bill)'
               /\ receipts[i].prepayment # NoPrepayment =>
                     prepayments'[receipts[i].prepayment].party # NoParty
    <2>1. receipts[i] \in Receipt /\ ReceiptSound(receipts[i])
      BY <1>3 DEF Sourced
    <2>2. \A line \in receipts[i].lines : line.bill \in Bills
      BY <2>1 DEF Receipt, Line
    <2> QED
      BY <1>1, <2>1, <2>2 DEF ReceiptSound, Receipt
  <1>5. ASSUME NEW f \in Pages, forms'[f] = forms[f]
        PROVE  FormSound(forms[f])'
    <2>1. FormType(forms[f]) /\ FormSound(forms[f])
      BY DEF Rows, Sourced
    <2>2. \A j \in DOMAIN forms[f].rows : forms[f].rows[j].bill \in Bills \cup {Blank}
      <3>1. \A j \in DOMAIN forms[f].rows : forms[f].rows[j] \in Row
        BY <2>1 DEF FormType
      <3> QED
        BY <3>1 DEF Row
    <2>3. PageOwn(forms[f]) => PageOwn(forms[f])'
      BY <1>2, <1>5 DEF PageOwn
    <2> QED
      BY <1>1, <1>5, <2>1, <2>2, <2>3 DEF FormSound, FormType
  <1> QED
    BY <1>4, <1>5

LEMMA ClosedSound == FormSound(Closed)
  <1>1. /\ Closed.prepayment = NoPrepayment /\ Closed.amount = 0 /\ DOMAIN Closed.rows = {}
        /\ \A c \in Parties : Closed.requests[c] = 0
    BY DEF Closed, NoRequests
  <1>2. 0 \in 0..MaxRequests
    BY BoundAssumption
  <1> QED
    BY <1>1, <1>2 DEF FormSound

LEMMA SaveSourced ==
    ASSUME Rows, Sourced, NEW f \in Pages, NEW type \in Methods,
           NEW typed \in [DOMAIN forms[f].rows -> Entries], Save(f, type, typed)
    PROVE  Sourced'
  <1>1. Rows' /\ Kept
    BY SaveRows
  <1>2. /\ forms' = [forms EXCEPT ![f] = Closed]
        /\ prepayments' = prepayments
    BY SaveEffect
  <1>3. /\ \A i \in DOMAIN receipts : /\ \A line \in receipts[i].lines : Billed(line.bill)'
                                      /\ receipts[i].prepayment # NoPrepayment =>
                                            prepayments'[receipts[i].prepayment].party # NoParty
        /\ \A g \in Pages : forms'[g] = forms[g] => FormSound(forms[g])'
    BY <1>1, <1>2, SoundStays
  <1>4. FormSound(forms[f])'
    <2>1. forms'[f] = Closed
      BY <1>2 DEF Rows
    <2>2. Closed' = Closed
      BY DEF Closed, NoRequests
    <2> QED
      BY <2>1, ClosedSound DEF FormSound, PageOwn, Closed, NoRequests
  <1>5. \A g \in Pages : FormSound(forms[g])'
    BY <1>2, <1>3, <1>4 DEF Rows
  <1>6. CASE receipts' = receipts
    <2>1. \A i \in DOMAIN receipts' : ReceiptSound(receipts[i])'
      BY <1>3, <1>6 DEF Sourced, ReceiptSound
    <2> QED
      BY <1>5, <2>1 DEF Sourced
  <1>7. ASSUME NEW receipt \in Receipt, receipts' = Append(receipts, receipt),
               receipt.prepayment = forms[f].prepayment, receipt.lines = Taken(f, typed)
        PROVE  Sourced'
    <2>1. PICK n \in Nat :
             /\ DOMAIN receipts' = DOMAIN receipts \cup {n}
             /\ receipts'[n] = receipt
             /\ \A i \in DOMAIN receipts : receipts'[i] = receipts[i]
      BY <1>7, ReceiptAppended
    <2>2. \A i \in DOMAIN receipts : ReceiptSound(receipts[i])'
      BY <1>3, <2>1 DEF Sourced, ReceiptSound
    <2>3. IsFiniteSet(receipt.lines)
      BY <1>7, TakenFinite
    <2>4. ASSUME NEW line \in receipt.lines PROVE Billed(line.bill)'
      <3>1. line.bill \in Bills /\ \E i \in DOMAIN forms[f].rows :
               line.bill = forms[f].rows[i].bill /\ line.bill # Blank
        BY <1>7, <2>4, TakenLines DEF Line
      <3>2. Billed(line.bill)
        BY <3>1 DEF Sourced, FormSound
      <3> QED
        BY <1>1, <3>1, <3>2 DEF Kept
    <2>5. receipt.prepayment # NoPrepayment => prepayments'[receipt.prepayment].party # NoParty
      BY <1>2, <1>7 DEF Sourced, FormSound
    <2>6. ReceiptSound(receipts[n])'
      BY <2>1, <2>3, <2>4, <2>5 DEF ReceiptSound
    <2> QED
      BY <1>5, <2>1, <2>2, <2>6 DEF Sourced
  <1> QED
    BY <1>6, <1>7, SaveEffect

LEMMA AnswerSound ==
    ASSUME Rows, Sourced, NEW f \in Pages, NEW c \in Parties, forms[f].requests[c] > 0,
           NEW form, OneForm(f, form),
           form.party = forms[f].party,
           form.prepayment = forms[f].prepayment, form.amount = forms[f].amount,
           form.requests = [forms[f].requests EXCEPT ![c] = @ - 1],
           forms[f].rows = <<>> =>
              \A i \in DOMAIN form.rows : form.rows[i].bill \in BillsOf(c),
           \A i \in DOMAIN form.rows :
              \/ form.rows[i].bill \in BillsOf(c) \cup {Blank}
              \/ \E j \in DOMAIN forms[f].rows : form.rows[i] = forms[f].rows[j]
    PROVE  Sourced'
  <1>1. FormType(forms[f]) /\ FormSound(forms[f])
    BY DEF Rows, Sourced
  <1>2. \A i \in DOMAIN form.rows : form.rows[i].bill # Blank => Billed(form.rows[i].bill)
    BY <1>1 DEF FormSound, BillsOf
  <1>3. form.prepayment # NoPrepayment =>
           PageOwn(form) /\ prepayments[form.prepayment].party # NoParty
    <2> SUFFICES ASSUME form.prepayment # NoPrepayment PROVE PageOwn(form)
      BY <1>1 DEF FormSound
    <2>1. PageOwn(forms[f])
      BY <1>1 DEF FormSound
    <2>2. forms[f].requests[c] # 0
      BY <1>1 DEF FormType
    <2>3. forms[f].rows = <<>>
      BY <2>1, <2>2 DEF PageOwn
    <2>4. \A i \in DOMAIN form.rows : form.rows[i].bill \in BillsOf(c)
      BY <2>3
    <2> QED
      BY <1>1, <2>1, <2>4, ReceivedOwn
  <1>4. \A d \in Parties : form.requests[d] \in 0..MaxRequests
    <2>1. forms[f].requests \in [Parties -> Int]
      BY <1>1 DEF FormType
    <2> QED
      BY <1>1, <2>1, BoundAssumption DEF FormSound
  <1>5. form.amount \in Int
    BY <1>1 DEF FormSound
  <1>6. FormSound(form)
    BY <1>2, <1>3, <1>4, <1>5 DEF FormSound
  <1> QED
    BY <1>6, OneFormSourced

LEMMA NextSourced ==
    ASSUME Rows, Sourced, [Next]_vars
    PROVE  Sourced'
  <1>1. ASSUME NEW f \in Pages, Leave(f) PROVE Sourced'
    BY <1>1, LeaveForm, ClosedSound, OneFormSourced
  <1>2. ASSUME NEW f \in Pages, NEW p \in Prepayments, OpenApply(f, p) PROVE Sourced'
    <2>1. PICK form :
             /\ OneForm(f, form)
             /\ form.party \in Parties /\ form.rows = <<>>
             /\ form.requests = [NoRequests EXCEPT ![form.party] = @ + 1]
             /\ form.prepayment = p /\ form.amount = Unapplied(p)
      BY <1>2, OpenApplyForm
    <2>2. NoRequests \in [Parties -> Int] /\ \A d \in Parties : NoRequests[d] = 0
      BY DEF NoRequests
    <2>3. PageOwn(form)
      BY <2>1, <2>2, AskingOwn
    <2>4. DOMAIN form.rows = {} /\ \A d \in Parties : form.requests[d] \in 0..MaxRequests
      BY <2>1, <2>2, BoundAssumption
    <2>5. form.amount \in Int
      <3>1. TotalApplied(p) \in Int
        BY TotalIsInt
      <3>2. prepayments[p].amount \in Int /\ prepayments[p].charges \in Int
        BY DEF Rows, Prepayment
      <3> QED
        BY <2>1, <3>1, <3>2 DEF Unapplied
    <2>6. prepayments[p].party # NoParty
      BY <1>2 DEF OpenApply
    <2>7. FormSound(form)
      BY <2>1, <2>3, <2>4, <2>5, <2>6 DEF FormSound
    <2> QED
      BY <2>1, <2>7, OneFormSourced
  <1>3. ASSUME NEW f \in Pages, NEW c \in Parties, Choose(f, c) PROVE Sourced'
    <2> DEFINE form == Asking(forms[f], c)
    <2>1. FormType(forms[f]) /\ FormSound(forms[f])
      BY DEF Rows, Sourced
    <2>2. /\ form.rows = <<>>
          /\ form.requests = [forms[f].requests EXCEPT ![c] = @ + 1]
          /\ form.prepayment = forms[f].prepayment /\ form.amount = forms[f].amount
      BY <2>1, AskingType
    <2>3. forms[f].prepayment = NoPrepayment /\ forms[f].requests[c] < MaxRequests
      BY <1>3 DEF Choose, Choosable
    <2>4. OneForm(f, form)
      BY <1>3, ChooseForm
    <2> HIDE DEF form
    <2>5. forms[f].requests \in [Parties -> Int]
      BY <2>1 DEF FormType
    <2>6. \A d \in Parties : form.requests[d] \in 0..MaxRequests
      BY <2>1, <2>2, <2>3, <2>5, BoundAssumption DEF FormSound
    <2>7. DOMAIN form.rows = {}
      BY <2>2
    <2>8. FormSound(form)
      BY <2>1, <2>2, <2>3, <2>6, <2>7 DEF FormSound
    <2> QED
      BY <2>4, <2>8, OneFormSourced
  <1>4. ASSUME NEW f \in Pages, NEW c \in Parties, Answer(f, c) PROVE Sourced'
    <2>1. forms[f].requests[c] > 0
      BY <1>4 DEF Answer
    <2> QED
      BY <1>4, <2>1, AnswerForm, AnswerSound
  <1>5. ASSUME NEW f \in Pages, NEW c \in Parties, AnswerFails(f, c) PROVE Sourced'
    <2> DEFINE form == Received(forms[f], c)
    <2>1. forms[f].requests[c] > 0
      BY <1>5 DEF AnswerFails
    <2>2. FormType(forms[f]) /\ OneForm(f, form)
      BY <1>5, AnswerFailsForm DEF Rows
    <2>3. /\ form.party = forms[f].party /\ form.rows = forms[f].rows
          /\ form.requests = [forms[f].requests EXCEPT ![c] = @ - 1]
          /\ form.prepayment = forms[f].prepayment /\ form.amount = forms[f].amount
      BY <2>2, ReceivedType
    <2> HIDE DEF form
    <2>4. \A i \in DOMAIN form.rows : \E j \in DOMAIN forms[f].rows : form.rows[i] = forms[f].rows[j]
      BY <2>3
    <2>5. forms[f].rows = <<>> => DOMAIN form.rows = {}
      BY <2>3
    <2> QED
      BY <2>1, <2>2, <2>3, <2>4, <2>5, AnswerSound
  <1>6. ASSUME NEW f \in Pages, NEW type \in Methods,
               NEW typed \in [DOMAIN forms[f].rows -> Entries], Save(f, type, typed)
        PROVE  Sourced'
    BY <1>6, SaveSourced
  <1>7. ASSUME Kept, UNCHANGED <<receipts, forms>>,
               \A p \in Prepayments :
                  prepayments[p].party # NoParty => prepayments'[p].party # NoParty
        PROVE  Sourced'
    <2>1. \A i \in DOMAIN receipts' : ReceiptSound(receipts[i])'
      BY <1>7, SoundStays DEF Sourced, ReceiptSound
    <2>2. \A f \in Pages : FormSound(forms[f])'
      BY <1>7, SoundStays
    <2> QED
      BY <2>1, <2>2 DEF Sourced
  <1>8. ASSUME NEW b \in Bills, NEW c \in Parties, NEW amount \in Amounts, AddBill(b, c, amount)
        PROVE  Sourced'
    BY <1>7, <1>8, AddBillEffect DEF AddBill
  <1>9. ASSUME NEW p \in Prepayments, NEW c \in Prepaying, NEW type \in Methods,
               NEW amount \in Amounts, NEW charges \in Charges,
               AddPrepayment(p, c, type, amount, charges)
        PROVE  Sourced'
    <2>1. /\ prepayments[p].party = NoParty
          /\ \A q \in Prepayments \ {p} : prepayments'[q] = prepayments[q]
          /\ UNCHANGED <<bills, receipts, forms>>
      BY <1>9 DEF AddPrepayment, Rows
    <2> QED
      BY <1>7, <2>1, BillsUnchanged
  <1>10. CASE UNCHANGED vars
    BY <1>7, <1>10, BillsUnchanged DEF vars
  <1> QED
    BY <1>1, <1>2, <1>3, <1>4, <1>5, <1>6, <1>8, <1>9, <1>10 DEF Next

LEMMA AlwaysSourced == Spec => [](Rows /\ Sourced)
  <1>1. Init => Sourced
    <2> SUFFICES ASSUME Init PROVE Sourced
      OBVIOUS
    <2>1. DOMAIN receipts = {} /\ \A f \in Pages : forms[f] = Closed
      BY DEF Init
    <2> QED
      BY <2>1, ClosedSound DEF Sourced
  <1>2. Rows /\ Sourced /\ [Next]_vars => Sourced'
    BY NextSourced
  <1> QED
    BY <1>1, <1>2, InitRows, NextRows, PTL DEF Spec

\* Bills, prepayments, receipts and pages keep their types: what a page of a
\* prepayment offers is a sum over its receipts, and no page has more requests
\* under way than the bound.
THEOREM TypeCorrect == Spec => []TypeOK
  <1>1. Rows /\ Sourced => TypeOK
    <2> SUFFICES ASSUME Rows, Sourced PROVE forms \in [Pages -> Form]
      BY DEF Rows, TypeOK
    <2>1. ASSUME NEW f \in Pages PROVE forms[f] \in Form
      <3>1. FormType(forms[f]) /\ FormSound(forms[f])
        BY DEF Rows, Sourced
      <3>2. PICK p, q, a, r, l : forms[f] = [party |-> p, prepayment |-> q, amount |-> a,
                                             requests |-> r, rows |-> l]
        BY <3>1, Zenon DEF FormType
      <3>3. /\ p \in Parties \cup {NoParty} /\ q \in Prepayments \cup {NoPrepayment}
            /\ r \in [Parties -> Int] /\ l \in Seq(Row) /\ a \in Int
            /\ \A c \in Parties : r[c] \in 0..MaxRequests
        BY <3>1, <3>2 DEF FormType, FormSound
      <3>4. r \in [Parties -> 0..MaxRequests]
        BY <3>3
      <3> QED
        BY <3>2, <3>3, <3>4 DEF Form
    <2> QED
      BY <2>1 DEF Rows
  <1> QED
    BY <1>1, AlwaysSourced, PTL

(***************************************************************************)
(* What a bill owes follows from its receipts.                             *)
(***************************************************************************)

\* A saved page has at most one line for a bill.
LEMMA TakenOnce ==
    ASSUME Rows, NEW f \in Pages, NEW typed \in [DOMAIN forms[f].rows -> Entries],
           Distinct(forms[f].rows),
           NEW line \in Taken(f, typed), NEW other \in Taken(f, typed), line.bill = other.bill
    PROVE  line = other
  <1> DEFINE rows == forms[f].rows
             shown == Submitted(forms[f], typed)
             made(i) == [bill |-> rows[i].bill, paid |-> shown[i].paid,
                         writeOff |-> shown[i].writeOff]
  <1>1. PICK i \in DOMAIN rows : rows[i].bill # Blank /\ line = made(i)
    BY DEF Taken, Applications, Stored
  <1>2. PICK j \in DOMAIN rows : rows[j].bill # Blank /\ other = made(j)
    BY DEF Taken, Applications, Stored
  <1>3. rows[i].bill = rows[j].bill
    BY <1>1, <1>2
  <1>4. i = j
    BY <1>1, <1>3 DEF Distinct
  <1> QED
    BY <1>1, <1>2, <1>4

LEMMA EntryOf ==
    ASSUME NEW b, NEW clearing, NEW entry
    PROVE  entry \in LinesOf(b, clearing) <=>
              \E i \in DOMAIN receipts : \E line \in receipts[i].lines :
                 /\ entry = <<i, line>> /\ line.bill = b
                 /\ (receipts[i].type = "CLEARING") = clearing
  BY DEF LinesOf

LEMMA LinesGrow ==
    ASSUME NEW n, n \notin DOMAIN receipts, NEW receipt,
           DOMAIN receipts' = DOMAIN receipts \cup {n}, receipts'[n] = receipt,
           \A i \in DOMAIN receipts : receipts'[i] = receipts[i],
           NEW b, NEW clearing
    PROVE  LinesOf(b, clearing)' = LinesOf(b, clearing) \cup
              {<<n, line>> : line \in {l \in receipt.lines :
                                 l.bill = b /\ (receipt.type = "CLEARING") = clearing}}
  <1> DEFINE New == {<<n, line>> : line \in {l \in receipt.lines :
                                 l.bill = b /\ (receipt.type = "CLEARING") = clearing}}
  <1>1. ASSUME NEW entry
        PROVE  entry \in LinesOf(b, clearing)' <=> entry \in LinesOf(b, clearing) \cup New
    <2>1. entry \in LinesOf(b, clearing)' <=>
             \E i \in DOMAIN receipts' : \E line \in receipts'[i].lines :
                /\ entry = <<i, line>> /\ line.bill = b
                /\ (receipts'[i].type = "CLEARING") = clearing
      BY DEF LinesOf
    <2>2. entry \in New <=> \E line \in receipt.lines :
                /\ entry = <<n, line>> /\ line.bill = b
                /\ (receipt.type = "CLEARING") = clearing
      OBVIOUS
    <2>3. (\E i \in DOMAIN receipts' : \E line \in receipts'[i].lines :
                /\ entry = <<i, line>> /\ line.bill = b
                /\ (receipts'[i].type = "CLEARING") = clearing)
          <=> \/ \E i \in DOMAIN receipts : \E line \in receipts[i].lines :
                    /\ entry = <<i, line>> /\ line.bill = b
                    /\ (receipts[i].type = "CLEARING") = clearing
              \/ \E line \in receipt.lines :
                    /\ entry = <<n, line>> /\ line.bill = b
                    /\ (receipt.type = "CLEARING") = clearing
      BY Zenon
    <2> HIDE DEF New
    <2> QED
      <3>1. entry \in LinesOf(b, clearing) <=>
               \E i \in DOMAIN receipts : \E line \in receipts[i].lines :
                  /\ entry = <<i, line>> /\ line.bill = b
                  /\ (receipts[i].type = "CLEARING") = clearing
        BY DEF LinesOf
      <3>2. entry \in LinesOf(b, clearing) \cup New <=>
               entry \in LinesOf(b, clearing) \/ entry \in New
        OBVIOUS
      <3> QED
        BY <2>1, <2>2, <2>3, <3>1, <3>2, Zenon
  <1> HIDE DEF New
  <1>2. LinesOf(b, clearing)' = LinesOf(b, clearing) \cup New
    BY <1>1, Zenon
  <1> QED
    BY <1>2 DEF New

LEMMA CollectionIsInt ==
    ASSUME Rows, NEW b, NEW clearing, IsFiniteSet(LinesOf(b, clearing))
    PROVE  Collection(b, clearing) \in Int
  <1>1. ASSUME NEW entry \in LinesOf(b, clearing)
        PROVE  entry[2].paid - entry[2].writeOff \in Int
    <2>1. PICK i \in DOMAIN receipts : \E line \in receipts[i].lines : entry = <<i, line>>
      BY EntryOf
    <2>2. receipts[i] \in Receipt
      BY DEF Rows
    <2> QED
      BY <2>1, <2>2 DEF Receipt, Line
  <1>2. [entry \in LinesOf(b, clearing) |-> entry[2].paid - entry[2].writeOff]
           \in [LinesOf(b, clearing) -> Int]
    BY <1>1
  <1> QED
    BY <1>2, SumFunctionInt DEF Collection

LEMMA CollectionGrows ==
    ASSUME Rows, NEW b, NEW clearing, IsFiniteSet(LinesOf(b, clearing)),
           NEW n, n \notin DOMAIN receipts, NEW line \in Line,
           LinesOf(b, clearing)' = LinesOf(b, clearing) \cup {<<n, line>>}
    PROVE  /\ IsFiniteSet(LinesOf(b, clearing)')
           /\ Collection(b, clearing)' = Collection(b, clearing) + (line.paid - line.writeOff)
  <1> DEFINE S == LinesOf(b, clearing)
             y == <<n, line>>
             f == [entry \in S |-> entry[2].paid - entry[2].writeOff]
             g == [entry \in S \cup {y} |-> entry[2].paid - entry[2].writeOff]
  <1>1. y \notin S
    BY EntryOf
  <1>2. IsFiniteSet(S \cup {y})
    BY FS_AddElement
  <1>3. \A entry \in S : entry[2].paid - entry[2].writeOff \in Int
    <2> TAKE entry \in S
    <2>1. PICK i \in DOMAIN receipts : \E l \in receipts[i].lines : entry = <<i, l>>
      BY EntryOf
    <2>2. receipts[i] \in Receipt
      BY DEF Rows
    <2> QED
      BY <2>1, <2>2 DEF Receipt, Line
  <1>4. y[2] = line /\ line.paid \in Int /\ line.writeOff \in Int
    BY DEF Line
  <1>5. Collection(b, clearing) = SumFunction(f) /\ Collection(b, clearing)' = SumFunction(g)
    BY DEF Collection
  <1>6. LinesOf(b, clearing)' = S \cup {y} /\ IsFiniteSet(S)
    OBVIOUS
  <1> HIDE DEF S, y
  <1>7. f \in [S -> Int] /\ g \in [S \cup {y} -> Int] /\ \A entry \in S : g[entry] = f[entry]
    BY <1>3, <1>4
  <1>8. g[y] = line.paid - line.writeOff
    BY <1>4
  <1> HIDE DEF f, g
  <1>9. SumFunction(g) = SumFunction(f) + g[y]
    BY ONLY <1>1, <1>6, <1>7, SumFunctionJoined
  <1> QED
    BY <1>2, <1>5, <1>6, <1>8, <1>9

LEMMA CollectionSame ==
    ASSUME NEW b, NEW clearing, LinesOf(b, clearing)' = LinesOf(b, clearing)
    PROVE  Collection(b, clearing)' = Collection(b, clearing)
  BY DEF Collection

\* What a bill owes, seen from its receipts.
Followed(b) ==
    /\ IsFiniteSet(LinesOf(b, TRUE)) /\ IsFiniteSet(LinesOf(b, FALSE))
    /\ bills[b].clearing = Collection(b, TRUE)
    /\ bills[b].status = "UNPAID" => bills[b].unpaid = bills[b].amount - Collection(b, FALSE)

LEMMA SameFollowed ==
    ASSUME UNCHANGED receipts, NEW b, bills'[b] = bills[b], Followed(b)
    PROVE  Followed(b)'
  <1>1. \A clearing \in BOOLEAN : LinesOf(b, clearing)' = LinesOf(b, clearing)
    BY DEF LinesOf
  <1>2. /\ LinesOf(b, TRUE)' = LinesOf(b, TRUE) /\ LinesOf(b, FALSE)' = LinesOf(b, FALSE)
        /\ Collection(b, TRUE)' = Collection(b, TRUE)
        /\ Collection(b, FALSE)' = Collection(b, FALSE)
    BY <1>1, CollectionSame
  <1> QED
    BY <1>2 DEF Followed

LEMMA AddBillFollowed ==
    ASSUME Rows, Sourced, NEW b \in Bills, NEW c \in Parties, NEW amount \in Amounts,
           AddBill(b, c, amount)
    PROVE  Followed(b)'
  <1>1. /\ ~Billed(b)
        /\ bills' = [bills EXCEPT ![b] =
              [status |-> "UNPAID", party |-> c, amount |-> amount,
               unpaid |-> amount, clearing |-> 0, settled |-> FALSE]]
        /\ amount \in Int
    BY AddBillEffect, AmountAssumption DEF Billed
  <1>2. /\ bills'[b].clearing = 0 /\ bills'[b].unpaid = amount /\ bills'[b].amount = amount
    BY <1>1 DEF Rows
  <1>3. receipts' = receipts
    BY DEF AddBill
  <1>4. ASSUME NEW clearing, NEW entry \in LinesOf(b, clearing) PROVE FALSE
    <2>1. \E i \in DOMAIN receipts : \E line \in receipts[i].lines : line.bill = b
      BY <1>4, EntryOf
    <2> QED
      BY <1>1, <2>1 DEF Sourced, ReceiptSound
  <1>5. LinesOf(b, TRUE)' = {} /\ LinesOf(b, FALSE)' = {}
    <2>1. LinesOf(b, TRUE)' = LinesOf(b, TRUE) /\ LinesOf(b, FALSE)' = LinesOf(b, FALSE)
      BY <1>3 DEF LinesOf
    <2> QED
      BY <1>4, <2>1
  <1>6. Collection(b, TRUE)' = 0 /\ Collection(b, FALSE)' = 0
    BY <1>5, FS_EmptySet, SumFunctionZero DEF Collection
  <1>7. IsFiniteSet(LinesOf(b, TRUE)') /\ IsFiniteSet(LinesOf(b, FALSE)')
    BY ONLY <1>5, FS_EmptySet
  <1>8. bills'[b].unpaid = bills'[b].amount - 0
    BY ONLY <1>1, <1>2
  <1> QED
    BY ONLY <1>2, <1>6, <1>7, <1>8 DEF Followed

LEMMA CreditedRest ==
    ASSUME NEW line \in Line, NEW type, NEW old \in Bill, NEW new \in Bill,
           Credits(line, type, old, new), type # "CLEARING", NEW sum \in Int,
           old.status = "UNPAID" => old.unpaid = old.amount - sum, new.status = "UNPAID"
    PROVE  new.unpaid = new.amount - (sum + (line.paid - line.writeOff))
  BY DEF Credits, Bill, Line

\* What a saved page adds to what was collected of a bill.
LEMMA SaveCollects ==
    ASSUME Rows, NEW f \in Pages, NEW type \in Methods,
           NEW typed \in [DOMAIN forms[f].rows -> Entries], Save(f, type, typed),
           NEW b \in Bills, IsFiniteSet(LinesOf(b, TRUE)), IsFiniteSet(LinesOf(b, FALSE))
    PROVE  /\ IsFiniteSet(LinesOf(b, TRUE)') /\ IsFiniteSet(LinesOf(b, FALSE)')
           /\ \/ /\ bills'[b] = bills[b]
                 /\ Collection(b, TRUE)' = Collection(b, TRUE)
                 /\ Collection(b, FALSE)' = Collection(b, FALSE)
              \/ \E line \in Taken(f, typed) :
                    /\ line \in Line /\ line.bill = b
                    /\ Credits(line, type, bills[b], bills'[b])
                    /\ Collection(b, type = "CLEARING")' =
                          Collection(b, type = "CLEARING") + (line.paid - line.writeOff)
                    /\ Collection(b, type # "CLEARING")' = Collection(b, type # "CLEARING")
  <1> DEFINE taken == Taken(f, typed)
             Saved == /\ IsFiniteSet(LinesOf(b, TRUE)') /\ IsFiniteSet(LinesOf(b, FALSE)')
                      /\ \/ /\ bills'[b] = bills[b]
                            /\ Collection(b, TRUE)' = Collection(b, TRUE)
                            /\ Collection(b, FALSE)' = Collection(b, FALSE)
                         \/ \E line \in taken :
                               /\ line \in Line /\ line.bill = b
                               /\ Credits(line, type, bills[b], bills'[b])
                               /\ Collection(b, type = "CLEARING")' =
                                     Collection(b, type = "CLEARING")
                                        + (line.paid - line.writeOff)
                               /\ Collection(b, type # "CLEARING")' =
                                     Collection(b, type # "CLEARING")
  <1>1. taken \in SUBSET Line /\ bills' = Credited(taken, type)
    BY SaveEffect
  <1>2. Distinct(forms[f].rows)
    BY DEF Save
  <1>3. ASSUME receipts' = receipts, taken = {} PROVE Saved
    <2>1. bills'[b] = bills[b]
      BY <1>1, <1>3 DEF Credited
    <2>2. LinesOf(b, TRUE)' = LinesOf(b, TRUE) /\ LinesOf(b, FALSE)' = LinesOf(b, FALSE)
      BY <1>3 DEF LinesOf
    <2> QED
      BY <2>1, <2>2, CollectionSame
  <1>4. ASSUME NEW receipt \in Receipt, receipts' = Append(receipts, receipt),
               receipt.type = type, receipt.lines = taken
        PROVE  Saved
    <2>1. PICK n \in Nat :
             /\ n \notin DOMAIN receipts
             /\ DOMAIN receipts' = DOMAIN receipts \cup {n}
             /\ receipts'[n] = receipt
             /\ \A i \in DOMAIN receipts : receipts'[i] = receipts[i]
      BY <1>4, ReceiptAppended
    <2> DEFINE Own(clearing) == {l \in taken : l.bill = b /\ (type = "CLEARING") = clearing}
    <2>2. \A clearing : LinesOf(b, clearing)' =
             LinesOf(b, clearing) \cup {<<n, line>> : line \in Own(clearing)}
      BY <1>4, <2>1, LinesGrow
    <2>3. ASSUME NEW clearing \in BOOLEAN, Own(clearing) = {}
          PROVE  /\ LinesOf(b, clearing)' = LinesOf(b, clearing)
                 /\ Collection(b, clearing)' = Collection(b, clearing)
      <3>1. {<<n, line>> : line \in Own(clearing)} = {}
        BY <2>3
      <3> HIDE DEF Own
      <3>2. LinesOf(b, clearing)' = LinesOf(b, clearing) \cup {<<n, line>> : line \in Own(clearing)}
        BY <2>2
      <3>3. LinesOf(b, clearing)' = LinesOf(b, clearing)
        BY ONLY <3>1, <3>2
      <3> QED
        BY <3>3, CollectionSame
    <2>4. CASE ~ \E line \in taken : line.bill = b
      <3>1. bills'[b] = bills[b]
        BY <1>1, <2>4 DEF Credited
      <3>2. Own(TRUE) = {} /\ Own(FALSE) = {}
        BY <2>4
      <3> HIDE DEF Own
      <3> QED
        BY <2>3, <3>1, <3>2
    <2>5. CASE \E line \in taken : line.bill = b
      <3>1. PICK line \in taken :
               line.bill = b /\ line \in Line /\ Credits(line, type, bills[b], bills'[b])
        BY <1>1, <2>5, CreditedBill
      <3>2. \A other \in taken : other.bill = b => other = line
        BY <1>2, <3>1, TakenOnce
      <3>3. ASSUME NEW clearing \in BOOLEAN, (type = "CLEARING") = clearing,
                   IsFiniteSet(LinesOf(b, clearing))
            PROVE  /\ IsFiniteSet(LinesOf(b, clearing)')
                   /\ Collection(b, clearing)' =
                         Collection(b, clearing) + (line.paid - line.writeOff)
        <4>1. Own(clearing) = {line}
          BY <3>1, <3>2, <3>3
        <4> HIDE DEF Own
        <4>2. LinesOf(b, clearing)' = LinesOf(b, clearing) \cup {<<n, line>>}
          BY <2>2, <4>1
        <4>3. IsFiniteSet(LinesOf(b, clearing)) /\ n \notin DOMAIN receipts /\ line \in Line
          BY <2>1, <3>1, <3>3
        <4> QED
          BY ONLY Rows, <4>2, <4>3, CollectionGrows
      <3>4. ASSUME NEW clearing \in BOOLEAN, (type = "CLEARING") # clearing
            PROVE  /\ LinesOf(b, clearing)' = LinesOf(b, clearing)
                   /\ Collection(b, clearing)' = Collection(b, clearing)
        <4>1. Own(clearing) = {}
          BY <3>4
        <4> HIDE DEF Own
        <4> QED
          BY <2>3, <4>1
      <3> HIDE DEF taken, Own
      <3>5. /\ IsFiniteSet(LinesOf(b, TRUE)') /\ IsFiniteSet(LinesOf(b, FALSE)')
            /\ Collection(b, type = "CLEARING")' =
                  Collection(b, type = "CLEARING") + (line.paid - line.writeOff)
            /\ Collection(b, type # "CLEARING")' = Collection(b, type # "CLEARING")
        <4>1. CASE type = "CLEARING"
          <5>1. (type = "CLEARING") = TRUE /\ (type # "CLEARING") = FALSE
            BY <4>1
          <5> QED
            BY <3>3, <3>4, <5>1
        <4>2. CASE type # "CLEARING"
          <5>1. (type = "CLEARING") = FALSE /\ (type # "CLEARING") = TRUE
            BY <4>2
          <5> QED
            BY <3>3, <3>4, <5>1
        <4> QED
          BY <4>1, <4>2
      <3> QED
        BY <3>1, <3>5
    <2> QED
      BY <2>4, <2>5
  <1>5. Saved
    <2> HIDE DEF Saved
    <2> QED
      BY <1>3, <1>4, SaveEffect
  <1> QED
    BY <1>5

LEMMA SaveFollowed ==
    ASSUME Rows, Rows', NEW f \in Pages, NEW type \in Methods,
           NEW typed \in [DOMAIN forms[f].rows -> Entries], Save(f, type, typed),
           NEW b \in Bills, Followed(b)
    PROVE  Followed(b)'
  <1>1. /\ IsFiniteSet(LinesOf(b, TRUE)') /\ IsFiniteSet(LinesOf(b, FALSE)')
        /\ \/ /\ bills'[b] = bills[b]
              /\ Collection(b, TRUE)' = Collection(b, TRUE)
              /\ Collection(b, FALSE)' = Collection(b, FALSE)
           \/ \E line \in Taken(f, typed) :
                 /\ line \in Line /\ line.bill = b
                 /\ Credits(line, type, bills[b], bills'[b])
                 /\ Collection(b, type = "CLEARING")' =
                       Collection(b, type = "CLEARING") + (line.paid - line.writeOff)
                 /\ Collection(b, type # "CLEARING")' = Collection(b, type # "CLEARING")
    <2>1. IsFiniteSet(LinesOf(b, TRUE)) /\ IsFiniteSet(LinesOf(b, FALSE))
      BY DEF Followed
    <2> QED
      BY <2>1, SaveCollects, Zenon
  <1>2. CASE /\ bills'[b] = bills[b]
             /\ Collection(b, TRUE)' = Collection(b, TRUE)
             /\ Collection(b, FALSE)' = Collection(b, FALSE)
    BY <1>1, <1>2 DEF Followed
  <1>3. ASSUME NEW line \in Line, Credits(line, type, bills[b], bills'[b]),
               Collection(b, type = "CLEARING")' =
                  Collection(b, type = "CLEARING") + (line.paid - line.writeOff),
               Collection(b, type # "CLEARING")' = Collection(b, type # "CLEARING")
        PROVE  Followed(b)'
    <2>1. bills[b] \in Bill /\ bills'[b] \in Bill
      BY DEF Rows
    <2>2. Collection(b, TRUE) \in Int /\ Collection(b, FALSE) \in Int
      BY CollectionIsInt DEF Followed
    <2>3. CASE type = "CLEARING"
      <3>1. /\ Collection(b, TRUE)' = Collection(b, TRUE) + (line.paid - line.writeOff)
            /\ Collection(b, FALSE)' = Collection(b, FALSE)
        <4>1. (type = "CLEARING") = TRUE /\ (type # "CLEARING") = FALSE
          BY <2>3
        <4> QED
          BY <1>3, <4>1
      <3>2. /\ bills'[b].clearing = bills[b].clearing + (line.paid - line.writeOff)
            /\ bills'[b].unpaid = bills[b].unpaid /\ bills'[b].status = bills[b].status
            /\ bills'[b].amount = bills[b].amount
        BY <1>3, <2>3 DEF Credits
      <3> QED
        BY <1>1, <3>1, <3>2 DEF Followed
    <2>4. CASE type # "CLEARING"
      <3>1. /\ Collection(b, FALSE)' = Collection(b, FALSE) + (line.paid - line.writeOff)
            /\ Collection(b, TRUE)' = Collection(b, TRUE)
        <4>1. (type = "CLEARING") = FALSE /\ (type # "CLEARING") = TRUE
          BY <2>4
        <4> QED
          BY <1>3, <4>1
      <3>2. bills'[b].clearing = bills[b].clearing
        BY <1>3, <2>1, <2>4 DEF Credits, Bill
      <3>3. ASSUME bills'[b].status = "UNPAID"
            PROVE  bills'[b].unpaid = bills'[b].amount - Collection(b, FALSE)'
        <4>1. bills[b].status = "UNPAID" =>
                 bills[b].unpaid = bills[b].amount - Collection(b, FALSE)
          BY DEF Followed
        <4>2. bills'[b].unpaid =
                 bills'[b].amount - (Collection(b, FALSE) + (line.paid - line.writeOff))
          BY ONLY <1>3, <2>1, <2>2, <2>4, <3>3, <4>1, CreditedRest
        <4> QED
          BY ONLY <3>1, <4>2
      <3> QED
        BY <1>1, <3>1, <3>2, <3>3 DEF Followed
    <2> QED
      BY <2>3, <2>4
  <1> QED
    BY <1>1, <1>2, <1>3

AllFollowed == \A b \in Bills : Followed(b)

LEMMA NextFollowed ==
    ASSUME Rows, Rows', Sourced, AllFollowed, [Next]_vars
    PROVE  AllFollowed'
  <1>1. ASSUME UNCHANGED <<bills, receipts>> PROVE AllFollowed'
    BY <1>1, SameFollowed DEF AllFollowed
  <1>2. ASSUME NEW f \in Pages,
               \/ Leave(f)
               \/ \E p \in Prepayments : OpenApply(f, p)
               \/ \E c \in Parties : Choose(f, c) \/ Answer(f, c) \/ AnswerFails(f, c)
        PROVE  AllFollowed'
    BY <1>1, <1>2 DEF Leave, OpenApply, Choose, Answer, AnswerFails
  <1>3. ASSUME NEW f \in Pages, NEW type \in Methods,
               NEW typed \in [DOMAIN forms[f].rows -> Entries], Save(f, type, typed)
        PROVE  AllFollowed'
    BY <1>3, SaveFollowed DEF AllFollowed
  <1>4. ASSUME NEW b \in Bills, NEW c \in Parties, NEW amount \in Amounts, AddBill(b, c, amount)
        PROVE  AllFollowed'
    <2>1. receipts' = receipts /\ \A o \in Bills \ {b} : bills'[o] = bills[o]
      BY <1>4 DEF AddBill, Rows
    <2>2. \A o \in Bills \ {b} : Followed(o)'
      BY <2>1, SameFollowed DEF AllFollowed
    <2>3. Followed(b)'
      BY <1>4, AddBillFollowed
    <2> QED
      BY <2>2, <2>3 DEF AllFollowed
  <1>5. ASSUME NEW p \in Prepayments, NEW c \in Prepaying, NEW type \in Methods,
               NEW amount \in Amounts, NEW charges \in Charges,
               AddPrepayment(p, c, type, amount, charges)
        PROVE  AllFollowed'
    BY <1>1, <1>5 DEF AddPrepayment
  <1>6. CASE UNCHANGED vars
    BY <1>1, <1>6 DEF vars
  <1> QED
    BY <1>2, <1>3, <1>4, <1>5, <1>6 DEF Next

LEMMA InitFollowed == Init => AllFollowed
  <1> SUFFICES ASSUME Init, NEW b \in Bills PROVE Followed(b)
    BY DEF AllFollowed
  <1>1. DOMAIN receipts = {} /\ bills[b].clearing = 0 /\ bills[b].status = "NEW"
    BY DEF Init, NewBill
  <1>2. LinesOf(b, TRUE) = {} /\ LinesOf(b, FALSE) = {}
    BY <1>1 DEF LinesOf
  <1>3. Collection(b, TRUE) = 0
    BY <1>2, FS_EmptySet, SumFunctionZero DEF Collection
  <1> QED
    BY <1>1, <1>2, <1>3, FS_EmptySet DEF Followed

\* What a bill owes, and what is being cleared of it, always follows from the
\* receipts and payments it is listed on, whatever the pages were saved with.
THEOREM OwedFollowsReceipts == Spec => []UnpaidFollowsReceipts
  <1>1. Rows /\ Sourced /\ Rows' /\ AllFollowed /\ [Next]_vars => AllFollowed'
    BY NextFollowed
  <1>2. AllFollowed => UnpaidFollowsReceipts
    BY DEF AllFollowed, Followed, UnpaidFollowsReceipts
  <1> QED
    BY <1>1, <1>2, InitFollowed, AlwaysSourced, PTL DEF Spec

(***************************************************************************)
(* What is dropped of a bill, while pages are up to date.                  *)
(***************************************************************************)
Cleared(b) ==
    bills[b].status = "PAID" /\ ~WrittenUp(b) =>
        bills[b].amount - Collection(b, FALSE) \in -1..1
AllCleared == ~outdated => \A b \in Bills : Cleared(b)

\* A rest is dropped when a bill becomes paid; a line of a paid bill that is
\* not written up takes what it writes off.
LEMMA CreditedClears ==
    ASSUME NEW line \in Line, NEW type, NEW old \in Bill, NEW new \in Bill,
           Credits(line, type, old, new), type # "CLEARING", NEW sum \in Int,
           old.status # "NEW",
           old.status = "UNPAID" => old.unpaid = old.amount - sum,
           old.status = "PAID" => old.amount - sum \in -1..1,
           old.status = "PAID" => old.unpaid = 0,
           old.unpaid = 0 => old.unpaid + line.writeOff - line.paid = 0,
           new.status = "PAID"
    PROVE  new.amount - (sum + (line.paid - line.writeOff)) \in -1..1
  <1>1. /\ line.paid \in Int /\ line.writeOff \in Int /\ old.unpaid \in Int
        /\ old.amount \in Int /\ new.amount = old.amount
        /\ old.status \in {"PAID", "UNPAID"}
    BY DEF Line, Bill, FinancialStatus, Credits
  <1>2. CASE old.status = "PAID"
    <2>1. old.unpaid = 0 /\ old.unpaid + line.writeOff - line.paid = 0
      BY <1>2
    <2>2. \A owed, off, paid \in Int : owed = 0 /\ owed + off - paid = 0 => off = paid
      OBVIOUS
    <2>3. line.writeOff = line.paid
      BY <1>1, <2>1, <2>2
    <2> QED
      BY <1>1, <1>2, <2>3
  <1>3. CASE old.status = "UNPAID"
    <2>1. old.unpaid + line.writeOff - line.paid \in -1..1
      BY <1>3 DEF Credits
    <2> QED
      BY <1>1, <1>3, <2>1
  <1> QED
    BY <1>1, <1>2, <1>3

LEMMA SaveCleared ==
    ASSUME Rows, Rows', Sourced, Debts, NEW f \in Pages, NEW type \in Methods,
           NEW typed \in [DOMAIN forms[f].rows -> Entries], Save(f, type, typed),
           NEW b \in Bills, Followed(b), Cleared(b), ~outdated'
    PROVE  Cleared(b)'
  <1> SUFFICES ASSUME bills'[b].status = "PAID", ~WrittenUp(b)'
               PROVE  bills'[b].amount - Collection(b, FALSE)' \in -1..1
    BY DEF Cleared
  <1>1. ~outdated /\ UpToDate(forms[f])
    BY SaveEffect
  <1>2. ~WrittenUp(b)
    BY WrittenUpStays
  <1>3. \/ /\ bills'[b] = bills[b]
           /\ Collection(b, FALSE)' = Collection(b, FALSE)
        \/ \E line \in Taken(f, typed) :
              /\ line \in Line /\ line.bill = b
              /\ Credits(line, type, bills[b], bills'[b])
              /\ Collection(b, type = "CLEARING")' =
                    Collection(b, type = "CLEARING") + (line.paid - line.writeOff)
              /\ Collection(b, type # "CLEARING")' = Collection(b, type # "CLEARING")
    <2>1. IsFiniteSet(LinesOf(b, TRUE)) /\ IsFiniteSet(LinesOf(b, FALSE))
      BY DEF Followed
    <2> QED
      BY <2>1, SaveCollects, Zenon
  <1>4. CASE bills'[b] = bills[b] /\ Collection(b, FALSE)' = Collection(b, FALSE)
    BY <1>2, <1>4 DEF Cleared
  <1>5. ASSUME NEW line \in Taken(f, typed), line \in Line, line.bill = b,
               Credits(line, type, bills[b], bills'[b]),
               Collection(b, type = "CLEARING")' =
                  Collection(b, type = "CLEARING") + (line.paid - line.writeOff),
               Collection(b, type # "CLEARING")' = Collection(b, type # "CLEARING")
        PROVE  bills'[b].amount - Collection(b, FALSE)' \in -1..1
    <2>1. bills[b] \in Bill /\ bills'[b] \in Bill
      BY DEF Rows
    <2>2. CASE type = "CLEARING"
      <3>1. (type # "CLEARING") = FALSE
        BY <2>2
      <3>2. Collection(b, FALSE)' = Collection(b, FALSE)
        BY <1>5, <3>1
      <3>3. bills'[b].status = bills[b].status /\ bills'[b].amount = bills[b].amount
        BY <1>5, <2>2 DEF Credits
      <3> QED
        BY <1>2, <3>2, <3>3 DEF Cleared
    <2>3. CASE type # "CLEARING"
      <3>1. (type = "CLEARING") = FALSE
        BY <2>3
      <3>2. Collection(b, FALSE)' = Collection(b, FALSE) + (line.paid - line.writeOff)
        BY <1>5, <3>1
      <3>3. Billed(b)
        <4>1. PICK i \in DOMAIN forms[f].rows :
                 line.bill = forms[f].rows[i].bill /\ forms[f].rows[i].bill # Blank
          BY TakenLines
        <4> QED
          BY <1>5, <4>1 DEF Sourced, FormSound
      <3>4. bills[b].unpaid >= 0 /\ (bills[b].status = "PAID" <=> bills[b].unpaid = 0)
        BY <1>1, <1>2, <3>3, Zenon DEF Debts, Balanced
      <3>5. line.writeOff <= line.paid
        <4>1. ~(line.writeOff > line.paid)
          BY <1>5, WrittenUpStays
        <4> QED
          BY <1>5, <4>1 DEF Line
      <3>6. bills[b].unpaid = 0 => bills[b].unpaid + line.writeOff - line.paid = 0
        BY <1>1, <1>5, <3>4, <3>5, FreshlyCollected
      <3>7. Collection(b, FALSE) \in Int
        BY CollectionIsInt DEF Followed
      <3>8. /\ bills[b].status # "NEW"
            /\ bills[b].status = "UNPAID" =>
                  bills[b].unpaid = bills[b].amount - Collection(b, FALSE)
            /\ bills[b].status = "PAID" =>
                  bills[b].amount - Collection(b, FALSE) \in -1..1
            /\ bills[b].status = "PAID" => bills[b].unpaid = 0
        BY <1>2, <3>3, <3>4 DEF Billed, Followed, Cleared
      <3>9. bills'[b].amount - (Collection(b, FALSE) + (line.paid - line.writeOff)) \in -1..1
        BY ONLY <1>5, <2>1, <2>3, <3>6, <3>7, <3>8, bills'[b].status = "PAID", CreditedClears
      <3> QED
        BY ONLY <3>2, <3>9
    <2> QED
      BY <2>2, <2>3
  <1> QED
    BY <1>3, <1>4, <1>5

LEMMA NextCleared ==
    ASSUME Rows, Rows', Sourced, Debts, AllFollowed, AllCleared, [Next]_vars
    PROVE  AllCleared'
  <1>1. ASSUME UNCHANGED <<receipts, outdated>>, NEW b, bills'[b] = bills[b],
               ~outdated => Cleared(b)
        PROVE  ~outdated' => Cleared(b)'
    <2>1. LinesOf(b, FALSE)' = LinesOf(b, FALSE) /\ WrittenUp(b)' = WrittenUp(b)
      BY <1>1 DEF LinesOf, WrittenUp
    <2>2. Collection(b, FALSE)' = Collection(b, FALSE)
      BY <2>1, CollectionSame
    <2> QED
      BY <1>1, <2>1, <2>2 DEF Cleared
  <1>2. ASSUME UNCHANGED <<bills, receipts, outdated>> PROVE AllCleared'
    BY <1>1, <1>2 DEF AllCleared
  <1>3. ASSUME NEW f \in Pages,
               \/ Leave(f)
               \/ \E p \in Prepayments : OpenApply(f, p)
               \/ \E c \in Parties : Choose(f, c) \/ Answer(f, c) \/ AnswerFails(f, c)
        PROVE  AllCleared'
    BY <1>2, <1>3 DEF Leave, OpenApply, Choose, Answer, AnswerFails
  <1>4. ASSUME NEW f \in Pages, NEW type \in Methods,
               NEW typed \in [DOMAIN forms[f].rows -> Entries], Save(f, type, typed)
        PROVE  AllCleared'
    <2>1. ~outdated' => ~outdated
      BY <1>4, SaveEffect
    <2> QED
      BY <1>4, <2>1, SaveCleared DEF AllCleared, AllFollowed
  <1>5. ASSUME NEW b \in Bills, NEW c \in Parties, NEW amount \in Amounts, AddBill(b, c, amount)
        PROVE  AllCleared'
    <2>1. /\ UNCHANGED <<receipts, outdated>>
          /\ \A o \in Bills \ {b} : bills'[o] = bills[o]
      BY <1>5 DEF AddBill, Rows
    <2>2. bills'[b].status = "UNPAID"
      BY <1>5, AddBillEffect DEF Rows
    <2>3. Cleared(b)'
      BY <2>2 DEF Cleared
    <2> QED
      BY <1>1, <2>1, <2>3 DEF AllCleared
  <1>6. ASSUME NEW p \in Prepayments, NEW c \in Prepaying, NEW type \in Methods,
               NEW amount \in Amounts, NEW charges \in Charges,
               AddPrepayment(p, c, type, amount, charges)
        PROVE  AllCleared'
    BY <1>2, <1>6 DEF AddPrepayment
  <1>7. CASE UNCHANGED vars
    BY <1>2, <1>7 DEF vars
  <1> QED
    BY <1>3, <1>4, <1>5, <1>6, <1>7 DEF Next

\* As long as every page was saved up to date, the receipts of a paid bill that
\* was not written up amount to the bill, but for at most one unit of money: the
\* rest that ReceiptService and PaymentService drop is dropped once, when the
\* bill becomes paid, because later lines of it cannot take more than they write
\* off.
THEOREM OneRestIsDropped == Spec => []RestIsNegligible
  <1>1. Init => AllCleared
    BY DEF Init, NewBill, AllCleared, Cleared
  <1>2. /\ Rows /\ Sourced /\ Rows' /\ Debts /\ AllFollowed /\ AllCleared /\ [Next]_vars
        => AllCleared'
    BY NextCleared
  <1>3. AllCleared => RestIsNegligible
    BY DEF AllCleared, Cleared, RestIsNegligible
  <1>4. Rows /\ Sourced /\ Rows' /\ AllFollowed /\ [Next]_vars => AllFollowed'
    BY NextFollowed
  <1> QED
    BY <1>1, <1>2, <1>3, <1>4, InitFollowed, InitDebts, NextDebts, AlwaysSourced, PTL DEF Spec

(***************************************************************************)
(* A prepayment covers what is applied of it.                              *)
(***************************************************************************)

\* What is applied is no more than what the page says is paid, unless lines
\* are written up.
LEMMA AppliedIsPaid ==
    ASSUME Rows, NEW f \in Pages, NEW typed \in [DOMAIN forms[f].rows -> Entries],
           Distinct(forms[f].rows), PageOwn(forms[f]),
           forms[f].prepayment # NoPrepayment,
           ~Discounts(forms[f], Submitted(forms[f], typed)),
           \A line \in Taken(f, typed) : line.writeOff <= 0
    PROVE  /\ Applied(Taken(f, typed)) \in Int
           /\ TotalPaid(Submitted(forms[f], typed)) \in Int
           /\ Applied(Taken(f, typed)) <= TotalPaid(Submitted(forms[f], typed))
  <1> DEFINE rows == forms[f].rows
             lines == Submitted(forms[f], typed)
             all == [i \in DOMAIN rows |-> [bill |-> rows[i].bill, paid |-> lines[i].paid,
                                            writeOff |-> lines[i].writeOff]]
             T == Stored(rows, lines)
             part == [i \in T |-> lines[i].paid + lines[i].writeOff]
             paid == [i \in DOMAIN rows |-> lines[i].paid]
             stored == [i \in DOMAIN rows |-> IF i \in T THEN part[i] ELSE 0]
             applied == [line \in Taken(f, typed) |-> line.paid + line.writeOff]
  <1>1. DOMAIN rows = 1..Len(rows) /\ Len(rows) \in Nat
    BY DEF Rows, FormType
  <1>2. IsFiniteSet(DOMAIN rows)
    BY <1>1, FS_Interval
  <1>3. T \subseteq DOMAIN rows /\ IsFiniteSet(T)
    BY <1>2, FS_Subset DEF Stored
  <1>4. Taken(f, typed) = {all[i] : i \in T}
    BY DEF Taken, Applications, Stored
  <1>5. ASSUME NEW i \in DOMAIN rows
        PROVE  /\ lines[i].paid \in Int /\ lines[i].writeOff \in Int
               /\ rows[i].bill # Blank
               /\ i \notin T => lines[i].paid >= 0
    <2>1. rows[i] \in Row /\ rows[i].bill \in Bills
      <3>1. rows[i] \in Row
        BY DEF Rows, FormType
      <3> QED
        BY <3>1 DEF PageOwn, BillsOf
    <2>2. rows[i].bill # Blank /\ rows[i].unpaid \in Int
      BY <2>1, BoundAssumption DEF Row, Bills, Blank
    <2>3. lines[i] = Normalised(typed[i], rows[i].unpaid)
      BY DEF Submitted
    <2>4. typed[i].paid \in Int /\ typed[i].writeOff \in Int
      BY AmountAssumption
    <2>5. lines[i].paid \in Int /\ lines[i].writeOff \in Int
      BY <2>2, <2>3, <2>4 DEF Normalised
    <2>6. i \notin T => ~(lines[i].paid < 0)
      BY DEF Discounts
    <2> HIDE DEF lines, T
    <2> QED
      BY <2>2, <2>5, <2>6
  <1>6. ASSUME NEW i \in T
        PROVE  /\ all[i] \in Taken(f, typed)
               /\ all[i].paid = lines[i].paid /\ all[i].writeOff = lines[i].writeOff
               /\ all[i].bill = rows[i].bill
    BY <1>3, <1>4, <1>6
  <1>7. \A i, j \in T : all[i] = all[j] => i = j
    BY <1>3, <1>5, <1>6 DEF Distinct
  <1>8. ASSUME NEW i \in T PROVE part[i] \in Int /\ applied[all[i]] = part[i]
    <2>1. applied[all[i]] = all[i].paid + all[i].writeOff
      BY <1>6
    <2>2. part[i] = lines[i].paid + lines[i].writeOff
      OBVIOUS
    <2> QED
      <3>1. lines[i].paid \in Int /\ lines[i].writeOff \in Int
        BY <1>3, <1>5
      <3>2. all[i].paid = lines[i].paid /\ all[i].writeOff = lines[i].writeOff
        BY <1>6
      <3> HIDE DEF all, lines, part, applied
      <3> QED
        BY ONLY <2>1, <2>2, <3>1, <3>2
  <1>9. ASSUME NEW i \in DOMAIN rows
        PROVE  stored[i] \in Int /\ paid[i] \in Int /\ stored[i] <= paid[i]
    <2>1. paid[i] = lines[i].paid /\ stored[i] = IF i \in T THEN part[i] ELSE 0
      OBVIOUS
    <2>2. CASE i \in T
      <3>1. lines[i].writeOff <= 0
        BY <1>6, <2>2
      <3>2. part[i] = lines[i].paid + lines[i].writeOff
        BY <2>2
      <3> HIDE DEF lines, T, part, paid, stored
      <3> QED
        BY <1>5, <2>1, <2>2, <3>1, <3>2
    <2>3. CASE i \notin T
      <3> HIDE DEF lines, T, part, paid, stored
      <3> QED
        BY <1>5, <2>1, <2>3
    <2> QED
      BY <2>2, <2>3
  <1>10. \A i \in T : stored[i] = part[i] /\ stored[i] \in Int
    BY <1>3, <1>8
  <1>11. \A i \in DOMAIN rows \ T : stored[i] = 0
    OBVIOUS
  <1>12. /\ Applied(Taken(f, typed)) = SumFunctionOnSet(applied, Taken(f, typed))
         /\ TotalPaid(lines) = SumFunctionOnSet(paid, DOMAIN rows)
    <2>1. DOMAIN lines = DOMAIN rows
      BY DEF Submitted
    <2> QED
      BY <2>1 DEF Applied, TotalPaid, SumFunction
  <1> HIDE DEF rows, lines, all, T, part, paid, stored, applied
  <1>13. Applied(Taken(f, typed)) = SumFunctionOnSet(part, T)
    <2>1. SumFunctionOnSet(applied, {all[i] : i \in T}) = SumFunctionOnSet(part, T)
      BY ONLY <1>3, <1>7, <1>8, SumImage
    <2> QED
      BY ONLY <1>4, <1>12, <2>1
  <1>14. SumFunctionOnSet(part, T) = SumFunctionOnSet(stored, DOMAIN rows)
    <2>1. SumFunctionOnSet(stored, T) = SumFunctionOnSet(part, T)
      BY ONLY <1>3, <1>10, SumEqual
    <2>2. SumFunctionOnSet(stored, DOMAIN rows) = SumFunctionOnSet(stored, T)
      BY ONLY <1>2, <1>3, <1>10, <1>11, SumPart
    <2> QED
      BY ONLY <2>1, <2>2
  <1>15. SumFunctionOnSet(stored, DOMAIN rows) <= SumFunctionOnSet(paid, DOMAIN rows)
    BY ONLY <1>2, <1>9, SumMonotone
  <1>16. /\ SumFunctionOnSet(stored, DOMAIN rows) \in Int
         /\ SumFunctionOnSet(paid, DOMAIN rows) \in Int
    BY ONLY <1>2, <1>9, SumInt
  <1>17. /\ Applied(Taken(f, typed)) \in Int /\ TotalPaid(lines) \in Int
         /\ Applied(Taken(f, typed)) <= TotalPaid(lines)
    BY ONLY <1>12, <1>13, <1>14, <1>15, <1>16
  <1> QED
    BY <1>17 DEF lines

\* One receipt more.
LEMMA TotalGrows ==
    ASSUME Rows, Sourced, NEW p, NEW n, n \notin DOMAIN receipts,
           DOMAIN receipts' = DOMAIN receipts \cup {n},
           \A i \in DOMAIN receipts : receipts'[i] = receipts[i],
           NEW receipt \in Receipt, receipts'[n] = receipt, IsFiniteSet(receipt.lines)
    PROVE  /\ receipt.prepayment # p => TotalApplied(p)' = TotalApplied(p)
           /\ receipt.prepayment = p =>
                 TotalApplied(p)' = TotalApplied(p) + Applied(receipt.lines)
           /\ \A i \in ReceiptsOf(p) : i \in ReceiptsOf(p)' /\ receipts'[i] = receipts[i]
  <1> DEFINE S == ReceiptsOf(p)
             old == [i \in S |-> Applied(receipts[i].lines)]
             new == [i \in S \cup {n} |-> Applied(receipts'[i].lines)]
  <1>1. IsFiniteSet(S) /\ old \in [S -> Int]
    BY TotalIsInt
  <1>2. n \notin S /\ \A i \in S : receipts'[i] = receipts[i]
    BY DEF ReceiptsOf
  <1>3. Applied(receipt.lines) \in Int
    BY AppliedIsInt DEF Receipt
  <1>4. ASSUME receipt.prepayment # p PROVE TotalApplied(p)' = TotalApplied(p)
    <2>1. ReceiptsOf(p)' = ReceiptsOf(p)
      BY <1>4 DEF ReceiptsOf
    <2> QED
      BY <1>2, <2>1 DEF TotalApplied, Applied
  <1>5. ASSUME receipt.prepayment = p
        PROVE  TotalApplied(p)' = TotalApplied(p) + Applied(receipt.lines)
    <2>1. ReceiptsOf(p)' = S \cup {n}
      BY <1>5 DEF ReceiptsOf
    <2>2. TotalApplied(p)' = SumFunction(new) /\ TotalApplied(p) = SumFunction(old)
      BY <2>1 DEF TotalApplied, Applied
    <2>3. \A i \in S : old[i] \in Int
      BY <1>1
    <2>4. /\ new \in [S \cup {n} -> Int] /\ \A i \in S : new[i] = old[i]
          /\ new[n] = Applied(receipt.lines)
      BY <1>2, <1>3, <2>3
    <2> HIDE DEF S, old, new
    <2>5. SumFunction(new) = SumFunction(old) + new[n]
      BY ONLY <1>1, <1>2, <2>4, SumFunctionJoined
    <2> QED
      BY <2>2, <2>4, <2>5
  <1>6. \A i \in S : i \in ReceiptsOf(p)' /\ receipts'[i] = receipts[i]
    BY DEF ReceiptsOf
  <1> QED
    BY <1>4, <1>5, <1>6

WrittenDown(p) == \A i \in ReceiptsOf(p) : \A line \in receipts[i].lines : line.writeOff <= 0
Covered(p) ==
    ~outdated /\ ~discounted /\ prepayments[p].charges >= 0 /\ WrittenDown(p) =>
        \/ TotalApplied(p) <= prepayments[p].amount - prepayments[p].charges
        \/ TotalApplied(p) = 0

LEMMA SameCovered ==
    ASSUME UNCHANGED receipts, NEW p, prepayments'[p] = prepayments[p],
           outdated => outdated', discounted => discounted', Covered(p)
    PROVE  Covered(p)'
  <1>1. ReceiptsOf(p)' = ReceiptsOf(p)
    BY DEF ReceiptsOf
  <1>2. TotalApplied(p)' = TotalApplied(p) /\ WrittenDown(p)' = WrittenDown(p)
    BY <1>1 DEF TotalApplied, Applied, WrittenDown
  <1> QED
    BY <1>2 DEF Covered

LEMMA SaveCovered ==
    ASSUME Rows, Sourced, NEW f \in Pages, NEW type \in Methods,
           NEW typed \in [DOMAIN forms[f].rows -> Entries], Save(f, type, typed),
           NEW p \in Prepayments, Covered(p)
    PROVE  Covered(p)'
  <1>1. /\ prepayments' = prepayments
        /\ outdated' = (outdated \/ ~UpToDate(forms[f]))
        /\ discounted' = (discounted \/ Discounts(forms[f], Submitted(forms[f], typed)))
    BY SaveEffect
  <1>2. outdated \in BOOLEAN /\ discounted \in BOOLEAN
    BY DEF Rows
  <1>3. CASE receipts' = receipts
    <2>1. (outdated => outdated') /\ (discounted => discounted')
      BY <1>1, <1>2, Zenon
    <2> QED
      BY <1>1, <1>3, <2>1, SameCovered
  <1>4. ASSUME NEW receipt \in Receipt, receipts' = Append(receipts, receipt),
               receipt.prepayment = forms[f].prepayment, receipt.lines = Taken(f, typed)
        PROVE  Covered(p)'
    <2>1. PICK n \in Nat :
             /\ n \notin DOMAIN receipts
             /\ DOMAIN receipts' = DOMAIN receipts \cup {n}
             /\ receipts'[n] = receipt
             /\ \A i \in DOMAIN receipts : receipts'[i] = receipts[i]
      BY <1>4, ReceiptAppended
    <2>2. IsFiniteSet(receipt.lines)
      BY <1>4, TakenFinite
    <2>3. /\ receipt.prepayment # p => TotalApplied(p)' = TotalApplied(p)
          /\ receipt.prepayment = p =>
                TotalApplied(p)' = TotalApplied(p) + Applied(receipt.lines)
          /\ \A i \in ReceiptsOf(p) : i \in ReceiptsOf(p)' /\ receipts'[i] = receipts[i]
      BY ONLY Rows, Sourced, <2>1, <2>2, TotalGrows
    <2>4. WrittenDown(p)' => WrittenDown(p)
      BY <2>3 DEF WrittenDown
    <2>5. /\ ~outdated' => ~outdated /\ UpToDate(forms[f])
          /\ ~discounted' => ~discounted /\ ~Discounts(forms[f], Submitted(forms[f], typed))
      BY <1>1, <1>2, Zenon
    <2>6. CASE receipt.prepayment # p
      BY <1>1, <2>3, <2>4, <2>5, <2>6 DEF Covered
    <2>7. CASE receipt.prepayment = p
      <3> SUFFICES ASSUME ~outdated', ~discounted', prepayments[p].charges >= 0,
                          WrittenDown(p)'
                   PROVE  TotalApplied(p)' <= prepayments[p].amount - prepayments[p].charges
        BY <1>1 DEF Covered
      <3>1. forms[f].prepayment = p /\ forms[f].prepayment # NoPrepayment
        BY <1>4, <2>7, PrepaymentAssumption
      <3>2. PageOwn(forms[f])
        BY <3>1 DEF Sourced, FormSound
      <3>3. \A line \in Taken(f, typed) : line.writeOff <= 0
        <4>1. n \in ReceiptsOf(p)'
          BY <2>1, <2>7 DEF ReceiptsOf
        <4> QED
          BY <1>4, <2>1, <4>1 DEF WrittenDown
      <3>4. Distinct(forms[f].rows) /\ Valid(forms[f], Submitted(forms[f], typed))
        BY DEF Save
      <3>5. /\ Applied(Taken(f, typed)) \in Int
            /\ TotalPaid(Submitted(forms[f], typed)) \in Int
            /\ Applied(Taken(f, typed)) <= TotalPaid(Submitted(forms[f], typed))
        BY <2>5, <3>1, <3>2, <3>3, <3>4, AppliedIsPaid
      <3>6. forms[f].amount - prepayments[p].charges >= TotalPaid(Submitted(forms[f], typed))
        BY <3>1, <3>4 DEF Valid
      <3>7. forms[f].amount = Unapplied(p)
        BY <2>5, <3>1 DEF UpToDate
      <3>8. TotalApplied(p) \in Int
        BY TotalIsInt
      <3>9. /\ prepayments[p].amount \in Int /\ prepayments[p].charges \in Int
            /\ prepayments[p].charges >= 0
        BY DEF Rows, Prepayment
      <3>10. Unapplied(p) <= prepayments[p].amount - TotalApplied(p) /\ Unapplied(p) \in Int
        BY <3>8, <3>9 DEF Unapplied
      <3>11. TotalApplied(p)' = TotalApplied(p) + Applied(Taken(f, typed))
        BY <1>4, <2>3, <2>7
      <3> QED
        BY ONLY <3>5, <3>6, <3>7, <3>8, <3>9, <3>10, <3>11
    <2> QED
      BY <2>6, <2>7
  <1> QED
    BY <1>3, <1>4, SaveEffect

\* A prepayment is entered before anything is applied of it.
LEMMA AddPrepaymentCovered ==
    ASSUME Rows, Sourced, NEW p \in Prepayments, NEW c \in Prepaying, NEW type \in Methods,
           NEW amount \in Amounts, NEW charges \in Charges,
           AddPrepayment(p, c, type, amount, charges)
    PROVE  Covered(p)'
  <1>1. prepayments[p].party = NoParty /\ receipts' = receipts
    BY DEF AddPrepayment
  <1>2. ReceiptsOf(p) = {}
    BY <1>1, PrepaymentAssumption DEF ReceiptsOf, Sourced, ReceiptSound
  <1>3. ReceiptsOf(p)' = {}
    BY <1>1, <1>2 DEF ReceiptsOf
  <1>4. TotalApplied(p)' = 0
    BY <1>3, FS_EmptySet, SumFunctionZero DEF TotalApplied
  <1> QED
    BY <1>4 DEF Covered

AllCovered == \A p \in Prepayments : Covered(p)

LEMMA NextCovered ==
    ASSUME Rows, Sourced, AllCovered, [Next]_vars
    PROVE  AllCovered'
  <1>1. ASSUME UNCHANGED <<prepayments, receipts, outdated, discounted>> PROVE AllCovered'
    BY <1>1, SameCovered DEF AllCovered
  <1>2. ASSUME NEW f \in Pages,
               \/ Leave(f)
               \/ \E p \in Prepayments : OpenApply(f, p)
               \/ \E c \in Parties : Choose(f, c) \/ Answer(f, c) \/ AnswerFails(f, c)
        PROVE  AllCovered'
    BY <1>1, <1>2 DEF Leave, OpenApply, Choose, Answer, AnswerFails
  <1>3. ASSUME NEW f \in Pages, NEW type \in Methods,
               NEW typed \in [DOMAIN forms[f].rows -> Entries], Save(f, type, typed)
        PROVE  AllCovered'
    BY <1>3, SaveCovered DEF AllCovered
  <1>4. ASSUME NEW b \in Bills, NEW c \in Parties, NEW amount \in Amounts, AddBill(b, c, amount)
        PROVE  AllCovered'
    BY <1>1, <1>4 DEF AddBill
  <1>5. ASSUME NEW p \in Prepayments, NEW c \in Prepaying, NEW type \in Methods,
               NEW amount \in Amounts, NEW charges \in Charges,
               AddPrepayment(p, c, type, amount, charges)
        PROVE  AllCovered'
    <2>1. /\ UNCHANGED <<receipts, outdated, discounted>>
          /\ \A o \in Prepayments \ {p} : prepayments'[o] = prepayments[o]
      BY <1>5 DEF AddPrepayment, Rows
    <2>2. \A o \in Prepayments \ {p} : Covered(o)'
      BY <2>1, SameCovered DEF AllCovered
    <2>3. Covered(p)'
      BY <1>5, AddPrepaymentCovered
    <2> QED
      BY <2>2, <2>3 DEF AllCovered
  <1>6. CASE UNCHANGED vars
    BY <1>1, <1>6 DEF vars
  <1> QED
    BY <1>2, <1>3, <1>4, <1>5, <1>6 DEF Next

\* A prepayment is not applied beyond its amount less the bank charges by pages
\* that are up to date: their lines are of distinct bills of its party, so that
\* what they apply is no more than what the page compares with the rest of the
\* prepayment.  It is without the three things the page does not look at: lines
\* written up, lines of less than nothing that the server leaves out, and bank
\* charges of less than nothing.
THEOREM PrepaymentsSuffice == Spec => []PrepaymentCovered
  <1>1. Init => AllCovered
    <2> SUFFICES ASSUME Init, NEW p \in Prepayments PROVE Covered(p)
      BY DEF AllCovered
    <2>1. ReceiptsOf(p) = {}
      BY DEF Init, ReceiptsOf
    <2>2. TotalApplied(p) = 0
      BY <2>1, FS_EmptySet, SumFunctionZero DEF TotalApplied
    <2> QED
      BY <2>1, <2>2 DEF Covered
  <1>2. Rows /\ Sourced /\ AllCovered /\ [Next]_vars => AllCovered'
    BY NextCovered
  <1>3. AllCovered => PrepaymentCovered
    BY DEF AllCovered, Covered, WrittenDown, PrepaymentCovered
  <1> QED
    BY <1>1, <1>2, <1>3, AlwaysSourced, PTL DEF Spec
=============================================================================
