# Verification of the trimas ERP (SiriusERP)

TLA+ modules that model the business core of this repository, TLC
configurations that check them on small instances, and TLAPS proofs that hold
for every value of the constants.

The program is a Spring and Hibernate web application over MySQL. A browser
page sends a request, a controller reads the form, and one method of a service
runs as one database transaction (`@Transactional(rollbackFor =
Exception.class)`): an exception rolls everything back. There are no row
versions and no explicit locks, nothing is validated twice, and much of what
keeps the data right is which buttons a page shows. The hard behaviours follow
from that: long sequences of documents that write the same fact to several
tables, documents entered in any order of dates, documents taken back after
other documents used them, and requests from pages that are no longer up to
date.

## 1. Inventory of the system

Paths are under `src/src/main/java`.

| component | state | operations | interacts with | what makes it correct |
|---|---|---|---|---|
| **inventory**: stock (`inventory/`) | `InventoryItem.onHand/onTransfer`, `ProductInOutTransaction` (batches), monthly `DWInventoryItemBalance` and `...Detail`, counters of `WarehouseTransactionItem` | goods receipt, manual goods receipt and its reversal, goods issue, transfer order, stock adjustment | receives from procurement, issues to sales and production, prices go to billing and the ledger | the four records of the same goods agree; batches are used in the configured order; no month's stock card goes below zero; counters add up |
| **inventory**: serial numbers | `Barcode`, `BarcodeGroup`, `BarcodeGroupItem` | generation for receipts and adjustments, use by issues | purchase orders carry serial numbers | a serial number is in one place and issued once |
| **accounting**: ledger (`accounting/`) | `JournalEntry`, `GLAccountBalance`, `IncomeSummaryBalance`, `AccountingPeriod.status`, `FixedAsset` | add, edit, delete, post, unpost; preclose, close, open a period | all other parts post journals through it | balances equal journals; debits equal credits; closed periods stay as they are; a period opens with what the one before closed with |
| **accounting**: master data | chart of accounts, posting schemas, asset register | add, edit, delete | read by the ledger | - |
| **document codes** (`core/.../GeneratorHelper`, `tools/.../CodeSequenceDaoImpl`) | `CodeSequence` counters | `generate`, `instance` | every document of every part | no two documents of one type carry one code |
| **sales** (`sales/`) | `SalesOrder`, `DeliveryPlanning`, `DeliveryPlanningSequence`, `DeliveryOrder`, `DeliveryOrderRealization` and their references | order, approve, plan, deliver, realize | issues stock, creates billable references | no more is planned and delivered than was ordered; a delivery is realized once |
| **receivable** (`receivable/`) | `Billing`, `BillingReferenceItem`, `Receipt`, `ReceiptApplication`, unpaid amounts, prepayments | bill, receive, clear, delete | reads deliveries, posts journals | unpaid equals billed less received; a paid billing has nothing unpaid |
| **payable** (`payable/`) | `InvoiceVerification`, `Payment`, `PaymentApplication`, `FundApplication` | verify, apply for funds, pay, delete | reads goods receipts | the same, on the other side; a receipt is verified once |
| **procurement** (`procurement/`, `tools/.../ApprovableService`) | `PurchaseRequisition`, `PurchaseOrder`, `ApprovableBridge` and its siblings | requisition, order, approve step by step, finish | creates the IN items goods receipts work on | an order becomes receivable once, and only after the last approval |
| **production** (`production/`) | `WorkOrder` | plan, consume, produce | issues and receives stock | what is consumed and produced matches the order |
| administration, security, tools | parties, customers, facilities, users, roles | master data | read everywhere | - |
| reporting, dashboard, core SDK, web pages | none of their own | queries, presentation | - | - |

The web pages under `src/src/main/webapp` keep no state, but they decide which
requests are made. Where a rule lives only in a page it is in the model as part
of that page's request.

`PROJECT.json` lists the hazards of the code at their lines. The most
important ones:

* the same goods, or the same money, are written to several tables by separate
  helpers, and every document and every reversal must write all of them;
* FIFO and LIFO depend on an `ORDER BY` and on dates the user chooses;
* the check before closing a period is a request of its own;
* a page kept open posts, closes, plans, orders or receives what has changed
  since;
* reopening a period must undo journals in two periods;
* an approval may forward, finish or reject an order after goods or plans
  already depend on it, and comes before or after the printing of barcodes;
* an answer to a page's request comes when the page has gone on to another
  customer;
* a bill is paid in parts, with discounts, surcharges, prepayments and receipts
  that are still being cleared, from several pages at once, and no amount typed
  into a line is checked for its sign.

A hazard without a property is one the code does not guard against at all: its
note says what happens, and the assumptions of the theorems (up-to-date pages,
no line of less than nothing) say what has to be ruled out for the rest to hold.

## 2. Plan

The most important behaviour came first, then the flow of documents from one
part to the next:

1. `StockBook` and `Warehouse`: goods in, out and moved - done, proved to
   implement the abstract book, to keep its four records equal and to draw in
   the configured order.
2. `GeneralLedger`: journals and periods - done, its order of periods, its frozen
   periods and the agreement of balances, register and journals proved.
3. `CodeSequence`: codes of documents in overlapping requests - done, proved.
4. `Fulfilment` and `SalesFulfilment`: from order to realization - done, proved to
   implement the abstract delivery and to count what the documents say.
5. `Settlement`: billings, receipts, prepayments, payables and payments, and the
   pages they come from - done, its safety proved.
6. `Procurement`: requisitions, orders, approvals, barcodes and receipts - done,
   proved.

Left out after looking at them closely: *two sessions on one container* (which
update is lost depends on the isolation level set in the database, which is not
in the repository), *serial numbers* beyond their printing (their pieces are
ordinary stock with a batch each) and *work orders* (approval and stock moves
that the modules above already have).

## 3. Modules

| module | what it is |
|---|---|
| `StockBook` | abstract specification: goods come in, go out and move, never below zero, none lost on the way |
| `Warehouse` | the inventory services for one product |
| `MCWarehouse` | two containers in one or two facilities, for TLC |
| `Warehouse_proofs` | proofs about `Warehouse`, refinement of `StockBook` included |
| `GeneralLedger` | journals, balances and periods of one organization in one currency |
| `MCGeneralLedger` | a sale, an expense and a one-sided entry, for TLC |
| `GeneralLedger_proofs` | proofs about `GeneralLedger` |
| `CodeSequence` | the counters and codes of documents, in overlapping requests |
| `MCCodeSequence` | the calls of some services, for TLC |
| `CodeSequence_proofs` | proofs about `CodeSequence` |
| `Fulfilment` | abstract specification: what is planned leaves at most once, and comes back or is handed over for good |
| `SalesFulfilment` | sales orders, their approval, planning, delivery and realization |
| `MCSalesFulfilment` | one order of two lines, for TLC |
| `SalesFulfilment_proofs` | proofs about `SalesFulfilment`, refinement of `Fulfilment` included |
| `Settlement` | bills until they are paid, with the pages that load and save them |
| `MCSettlement` | a branch, its head office and a supplier, for TLC |
| `Settlement_proofs` | proofs about `Settlement` |
| `Procurement` | requisitions and purchase orders until they are received |
| `MCProcurement` | symmetry for TLC |
| `Procurement_proofs` | proofs about `Procurement` |
| `Sums` | lemmas about sums over finite sets, for the proofs about `Warehouse`, `GeneralLedger`, `SalesFulfilment` and `Settlement` |

The modules meet in rows that one part writes and the next reads: `Procurement`
ends where `AddGoodsReceipt` of `Warehouse` begins (its stock items are the
purchase items there), a realization of `SalesFulfilment` is followed by a goods
issue of `Warehouse` and a billing of `Settlement`, and all of them post journals
in `GeneralLedger` with codes from `CodeSequence`. None of them reads back what a
later part did, so they are checked one by one; the two refinements state what a
module promises to its neighbours.

### Warehouse

State: `onHand` and `onTransfer` are the columns of `InventoryItem`; `layers`
the `ProductInOutTransaction` rows; `balance` the monthly
`DWInventoryItemBalance` rows and `ledger` the value of their detail rows;
`purchases` the counters of the IN `WarehouseTransactionItem`s of purchase
orders; `manuals` the manual receipts that still exist. A date is a month, the
grain of the balances.

Actions, one per document: `AddPurchaseItem`, `AddGoodsReceipt`,
`AddGoodsReceiptManual` (with the automatic goods receipts, one per facility),
`DeleteGoodsReceiptManual`, `AddGoodsIssue`, `AddTransferOrder` (with its
automatic issue and receipt), `AdjustIn`, `AdjustOut`. An exception of the code
is a guard, since its transaction rolls back. The loop of
`StockControlService.get` that draws from the batches is stated by what it
leaves (`Draws`): each batch gives what is left to draw when the loop reaches
it, and the total is the request, or the document fails.

The repository has no schema, so whether the mapped associations are enforced
as foreign keys is not known: it is the constant `ForeignKeys`. Without them a
manual receipt can be taken back around batches that are in use, and only the
weaker `OnHandCovered` holds.

### GeneralLedger

State: `status` is `AccountingPeriod.status`; `journals` the entries of users and
of the recurring journals; `balance` the `GLAccountBalance` rows as net debits;
`auto`, `closing` and `opening` the sums of the journals the program writes, by
period and `entrySourceType`; `unopened` the opening journals a user unposted;
`summaries` the `IncomeSummaryBalance` rows; `asset` one `FixedAsset`; and
`offered` the requests that some page has offered.

Actions: `AddJournal` (user page), `AddLateJournal` (administrator page and the
nightly recurring journals), `EditJournal`, `DeleteJournal`, `PostJournal`,
`UnpostJournal`, `UnpostOpening`, `PostOpening`, `Preclose`, `Close`, `Open`. The three
closing processes (income summary, capital, opening) are operators that
compute the lines each of them writes, composed in `Close` in the order
`PostingFacade.close` runs them.

The services accept any request: that only a PRECLOSE period is closed and
only a BATCHED journal is posted is decided by the pages. With
`StalePages = FALSE` a request comes from a page that shows the current state.
With `StalePages = TRUE` it may come from any page shown before: an old tab, a
second click, or a request already on its way when another one changed the
state - which covers the check of the period page, an ajax request of its own.

Seven accounts stand for the account types the closing distinguishes. The
`Entries` are nets per account; `Balanced` refuses the ones that do not balance.

### CodeSequence

State: `rows` is the table `code_generator_sequence`; `working` what each session
has read and not yet committed; `documents` the codes that were given out;
`overlapped` is a history: whether a request ever started during another.

Actions: `Load` (the first half of `GeneratorHelper.generate`, up to the row it
reads or creates), `Add` (the second half, with the commit of the service that
called it) and `Rollback` (the service fails). Between a session's `Load` and its
end the others run; rows have no version and no lock, so a commit writes all
columns of the row as it was read, one counter apart. That
`GeneratorHelper.instance` is synchronized changes nothing: it protects the
singleton and is left before `generate` starts.

`Calls` is the set of calls the services make: type, counter (month or year) and
company. `Loaded` is the query of `CodeSequenceDaoImpl`, which takes the first row
in no order and compares companies with LIKE, so `Like` says which company codes
contain which. `Printed` keeps from `format`, `codeDateCount` and `barcode` which
parts of the scope each puts into the code; the types the services use have
distinct prefixes. A request generates one code here; the ones that generate
several (the barcodes of a group) read their own writes.

### SalesFulfilment

State: `orders` (status, the decision of the approval, which approvals its
history has, whether its `DeliveryPlanning` exists), `lines` (ordered, assigned
and delivered quantities of a `SalesOrderItem`), `plans` (the items of each
`DeliveryPlanningSequence`), `deliverable` (the `DeliveryOrderReferenceItem`s that
may still be delivered) and `deliveries` (status, items, what was accepted).

Actions: `AddOrder`, `Decide` (the approver's page, with
`SalesOrderApprovableInterceptor`), `SaveOrder`, `Close`, `AddSequence`,
`DeleteSequence`, `AddDelivery`, `SaveDelivery`, `Send`, `Cancel` and `Realize`.
A reference is named by the sequence and the line it was planned for, so
`ParcelState` can follow it through the tables: this is the refinement mapping
to `Fulfilment`. As in the ledger, `StalePages` says whether a request may come from
a page that was opened earlier.

### Settlement

State: `bills` (`Billing` and `Payable` rows), `prepayments`, `receipts` (receipts and
payments, in the order they were saved), `forms` (the open pages: party, requests
under way, lines) and two histories: `outdated`, whether a page was saved that no
longer showed what is owed, and `discounted`, whether a prepayment was applied
with a line that the page took off its total and the server left out.

Actions: `AddBill` and `AddPrepayment`; `OpenApply`, `Choose`, `Answer`, `AnswerFails` and
`Leave` of the pages `receiptAdd`, `prepaymentApply` and `paymentAdd`; and `Save`, which
is the page's own corrections (`Normalised`, `Valid`) followed by
`ReceiptService.add` or `PaymentService.add`. Customers and suppliers go through
the same actions, because the pages and services do the same with them; where
they differ (clearing, the reference items, empty payments) the definitions say
so. `Fill` is the loop of `getBillings` that appends a line for every bill
answered but fills the line of its place in the answer. `Patient` users wait for
an answer before they pick another party.

Neither the pages nor the services check the sign of what is typed into a line,
so `Entries` and `Charges` are any integers. `Stored` are the lines
`ReceiptService.add` takes for applications; `Discounts` says when a page counts a
line that is not among them.

### Procurement

State: `requested` and `available` (the `PurchaseRequisitionItem`s, and those that may
be ordered), `orders` (status, type, approval, lines, quantities, printed
barcodes, invoices made from the order) and `stock`, the
`WarehouseTransactionItem`s an order has in the warehouse: one per plain line,
one per piece of a serial line.

Actions: `AddRequisition`, `SaveRequisition`, `LockItem`, `DeleteRequisition`; `AddOrder`,
`Decide` (with `PurchaseOrderApprovableInterceptor`), `SaveOrder`, `Close`,
`DeleteOrder`; `Barcode` (`BarcodeGroupService.add` and
`PurchaseOrderService.addItem`); `Receive` (`GoodsReceiptService.add` as far as the
items of orders go). `StalePages` as above.

## 4. Runs

An operator named `Fault...` is a plausible mistake in the code; `PROJECT.json`
pairs each property with the mistake it detects.

| run | checks | shows |
|---|---|---|
| `warehouse_fifo` | `TypeOK`, `RecordsAgree`, `StockCardNeverNegative`, `LedgerMatchesLayers`, `ConsumptionOrder`, `BookSpec` | FIFO with two prices: all records agree after every sequence of documents in any order of dates, the details are worth what the batches are until a receipt is reversed, and all together implement `StockBook` |
| `warehouse_lifo` | `OnHandCovered`, `DocCounters`, `ConsumptionOrder` | LIFO with a purchase order and no foreign keys: a receipt taken back around used batches leaves less on hand than the open batches hold, never more than they can give; stale receipt forms leave counters and locks consistent; the order of use |
| `ledger_fresh` | `BalancesMatchJournals`, `OpeningCarriesClosing`, `ResultCleared`, `PeriodOrder`, `NoBatchedInClosed`, `AssetMatchesJournals`, `ClosedFrozen` | three periods closed and reopened in every possible way while journals move |
| `ledger_stale` | `TypeOK`, `TrialBalance` | old pages and late entries: the ledger still balances |
| `ledger_yearend` | `ClosedOpensNext`, violated | finding 1 below |
| `codes_sessions` | `TypeOK`, `Gapless`, `UniqueInTurn` | two requests that overlap and fail: the numbers stay consecutive, and unique until the first overlap, one company's code part of the other's |
| `codes_race` | `UniqueCodes`, violated | finding 2 below |
| `sales_fresh` | `TypeOK`, `CountersFollowDocuments`, `PlannedWithinOrder`, `PlanningNeedsApproval`, `SettledStays`, `ParcelSpec` | counters follow the documents, nothing is planned twice or unapproved, settled orders stay settled, and the whole implements `Fulfilment` |
| `settlement` | `TypeOK`, `LinesAreTheParties`, `UnpaidFollowsReceipts`, `NeverOverpaid`, `SettledTogether`, `RestIsNegligible`, `PrepaymentCovered` | what is owed follows the receipts, nothing is overpaid or applied to a stranger, a paid bill lacks one rest at most, and a prepayment covers what is applied of it |
| `settlement_overlap` | `LinesAreTheParties`, violated | finding 3 below |
| `procurement` | `TypeOK`, `NothingBeforeApproval`, `OrderedOnce`, `InvoicedOnce`, `BarcodeStatus`, `LockedStays` | an item is ordered once, nothing moves before the approval, everything is invoiced once |
| `procurement_barcode` | `AllBarcoded`, violated | finding 4 below |

### Bounds

*Warehouse.* Two containers are what a transfer needs, and two facilities what a
manual receipt needs to be split; three batches and quantities up to two let a
draw take all of one batch and part of the next; two months let a document be
dated before one entered earlier. The third batch also lets a manual receipt be
taken back around a batch that was used, while other stock still covers what is
taken off: without foreign keys (`warehouse_lifo`) the stock on hand is then less
than the open batches hold. Two prices (`warehouse_fifo`) and a purchase order
(`warehouse_lifo`) are each in one run, to keep both small. The containers may
change places, and their facilities with them, so TLC takes them as symmetric.

*Ledger.* Three periods let a period have both a closed predecessor and an open
successor that closes in turn; three journals fill each of them; amounts up to
six are as much as any fresh run reaches, and in the stale run (up to four) let
every double posting and double closing happen at least once before the bound
`WithinBound` stops it. The asset lives longer than there are periods in
`ledger_fresh`, because an asset whose life runs out is not restored on reopening
(`FixedAssetDaoImpl.loadFixedAssetBefore`), and exactly one period in
`ledger_stale`, where that happens.

*Codes.* Three documents in two years of two months let a code run on, start
again, and start again in another year, and let one request commit between the
read and the commit of another.

*Sales.* One order of two lines of up to two pieces, two sequences and two
deliveries: a line is planned in two parts, a delivery takes parts of both
sequences, is short of what was planned, is cancelled, and is planned again. More
orders share only a delivery; the theorems are for any number of them.

*Settlement.* Two bills let one page hold two lines and two pages meet on one bill;
two receipts let a second one find what the first left; a bill of three with the
entries of `Typed` (nothing, a part, all, all but a discount, a surcharge, less
than nothing) is paid in full, in two parts, down to a rest that is dropped, and
written up; one prepayment with a charge of one is applied in two parts. The two
pages may change places. A page has at most two
requests for one party under way, enough for an answer to arrive after a later
request was sent. Nothing is begun after the last receipt (`Busy`), and a page
that lists one bill twice, which takes overlapping answers, is not saved
(`Distinct`).

*Procurement.* Two orders compete for two items, a plain and a serial one; the
quantity two lets a receipt and a printing be partial; one serial piece per
line is followed into the warehouse. `procurement_barcode` has two serial lines,
which the finding needs.

Every bound on what may be entered lets a run end, so deadlock is not an error in
any of them.

### Fairness

None is assumed and no liveness is claimed, because nothing in these parts
happens by itself: every step is a request of a user who may stop at any time,
an approver included, or the answer to one, and a page does nothing about an
answer that never comes. The one job with a schedule, the recurring journals of
`cron.xml`, is in a file that the `contextConfigLocation` of `web.xml` does not name; its
journals are the action `AddLateJournal`, which may be taken or not.

### Findings

1. `ledger_yearend`. `AccountingPeriodDaoImpl.openStatusNextPeriod` opens the
   period with the next sequence number. After the last period of a year there
   is none, and the first period of the next year stays FUTURE. The comment at
   `OpeningProcess.java:40` names the year boundary as an unresolved issue;
   `loadNext` has resolved it for the opening journal, but not for the status.
   The run uses a year of two periods instead of twelve.
2. `codes_race`. Two sales orders added at the same time read the same counter
   and print the same code; nothing in `SalesOrder` keeps the second one out.
   The comment at `GeneratorHelper.java:248` describes the number as the
   sequence within the month, and only `instance` is synchronized. (Where a
   table declares its code unique, as `ProductCategory` does, the second request
   would fail instead; such types are not among the calls.)
3. `settlement_overlap`. `getBillings` in `receiptAdd.jsp` clears the lines when it
   sends its request, so the answer to an earlier request for another customer
   still adds its billings; `ReceiptService.add` stores whatever lines it is sent.
   The comment at `receiptAdd.jsp:437` expects the lines to be cleared before any
   are added.
4. `procurement_barcode`. `PurchaseOrderService.addItem` sets an order to OPEN when
   any of its serial lines is complete; only an order in BARCODE can get
   barcodes, so the other serial lines can never be received. The comments at
   lines 194 and 224 say that it checks whether something is left to print.

Noticed while reading, without a run of their own:

* `PostingFacade.close` does not look for batched journals; the period page asks
  `AccountingPeriodService.closeable` in a separate request. With
  `StalePages = TRUE` or `LateEntries = TRUE` a closed period may keep a journal that is
  posted later - the reason why the theorems on closed periods assume neither.
* Two planning pages opened before either is saved plan a line twice
  (`StalePages = TRUE` in `SalesFulfilment`).
* `BillingService` counts by month and `BillingManualService` by year, in rows of
  the same type, and both print type, year, month and number alone: a billing
  and a manual billing of one month can get one code without any concurrency.
  Receipts count per company without printing it. `ScopedCodes` excludes such calls.
* An approver may lower the quantities of a purchase order, but its stock items
  keep those it was added with.
* A receipt reversed by `GoodsReceiptManualService` writes its detail row with the
  whole cost as unit price; `LedgerMatchesLayers` therefore ends at the first
  reversal.
* Without a posting configuration a journal is booked at once and has no status;
  deleting it takes nothing off the balances.
* A bill that was paid and is then written up keeps the status PAID; an empty
  payment is stored without lines (`PaymentService.add`), an empty receipt is not.
* A delivery order that takes less than its reference uses the reference up; the
  rest has to be planned anew.
* A rejected purchase order can neither be deleted nor closed, so the requisition
  items of a standard one stay taken.
* Fractional receipts are rounded to whole numbers by `goodsReceiptAdd2.jsp`.
* A prepayment can be applied beyond its amount in several ways.
  `prepaymentApply.jsp:281` compares the total of the lines, and
  `ReceiptService.java:91` leaves out a line of less than nothing: with two
  available, lines of 3 and -1 pass and 3 are applied (`discounted`). Bank charges
  entered with a minus sign add to what is available (`prepaymentAdd.jsp:250` refuses
  only an amount below one). Two pages opened for one prepayment each compare with
  what was left when they were opened (`outdated`). And a line that writes a bill up
  counts with its write-off as well.
* With a page opened before, an approver can decide a second time about an order
  that is invoiced early, and it is invoiced again (`StalePages = TRUE` in
  `Procurement`).

## 5. Proofs

The proofs hold for all values of the constants that satisfy the named
assumptions of the modules; TLC evaluates those assumptions in every run. Every
invariant and every action property that a passing run checks is the conclusion
of a theorem.

**Sums.** Most of what relates two tables is a sum over rows, in the models
`SumFunction` and `SumFunctionOnSet` of the community modules, which are folds.
`Sums` proves what the other proofs need to know of them: a sum of integers is an
integer (`SumInt`), any element may be taken out first (`SumRemove`), and sums are
equal, ordered, added, joined and changed at one place as expected (`SumEqual`,
`SumMonotone`, `SumPlus`, `SumUnion`, `SumChange` and others). There is no induction
rule to cite, because such a rule takes a predicate as a parameter; instead
`SmallestSubset` says that a set of subsets of a finite set has a smallest member,
and each lemma assumes a smallest set on which it fails and takes one element
out of it.

**Warehouse.** The invariant is `Sound`, that is the type invariant with
`LayersSound` (ids never repeat and no batch holds more than it received; the
second is needed so that a reversal, which takes back the received quantity,
leaves natural numbers), with `DocCounters` and `PurchasePrices` for purchase
items. `DrawBounded` shows that a draw never takes more than a batch holds,
whatever order the batches are in; `Good` and `Fresh` carry this through drawing,
adding and removing batches. From it follow `TypeCorrect`, `LayersAreSound`,
`DocCountersHold` and `ImplementsStockBook` - every document is a receive,
release, move or stutter of the abstract book.

For the agreement of the records, `Held` is what the batches of a container dated
up to some month hold, in units or in value, and `Net` what its balances add up
to until then. `Agree` relates them for each container: the stock on hand is
`Net` of all months and at most `Held`; with foreign keys it is equal to `Held`, and at
the end of every month `Held` is at most `Net`. The last part is what makes the
stock card non-negative. It is needed month by month because an issue may be
dated before documents entered earlier: it draws only from batches dated no
later than itself, so what it takes off `Net` of a month, it takes off `Held` of that
month as well. `Apart` (a manual receipt puts one batch into each container, and
receipts are told apart by their number) is what a reversal needs to take back
exactly what its document wrote. From these follow `RecordsAlwaysAgree`,
`EveryItemHasItsBatch` and `StockCardIsNeverNegative`.

`LedgerIsTheLayers` is about the state before the first reversal, which `Complete`
recognizes by the ids: all that were given out still name a batch, and
`CompleteByNumber` derives that from the number of batches, the form
`LedgerMatchesLayers` has. While it holds, the detail rows of a container are worth
what its batches hold. `ConsumptionKeepsItsOrder` rests on `DrawOrder`: a loop that
reaches a batch with something left to draw has emptied every batch before it.

**GeneralLedger.** `BalancedLedger` replaces "lines" by "lines that total zero"
in the types of every book and journal. That is inductive on its own, even with
old pages: the entry check, and lemmas for each of the closing processes, show
that whatever is written balances, and reversal subtracts only what balances.
It gives `LedgerTypeCorrect` and `DebitsEqualCredits`.

`Tidy` adds, for up-to-date pages, that shut periods form a prefix, that the
last period never closes, that a period whose predecessor is not closed has no
opening journal, and that journal ids are unique (needed to know that the row a
page offered is the row it acts on). It gives `PeriodsInOrder`. `ClosedPeriods`
adds `NoBatchedInClosed`, `OpeningCarriesClosing` and `ResultCleared`. The argument is
one lemma, `ClosedIsKept`: no request changes the balances of a period that is
and stays closed, nor the opening journal, posted or not, of the next; so what
`CloseCarries` establishes when a period is closed stays true until it is
opened. `NothingBatchedInClosed`, `OpeningIsCarried`, `ResultIsCleared` and
`ClosedStaysFrozen` follow, for any number of periods and journals. They
assume up-to-date pages and no late entries: the check before a closing is a
request of its own, so without the assumption they are false. The runs use the
configuration that batches journals; these theorems hold for each of the three.

`Matching` says that every balance is the sum of the posted journals and of the
three journals the program writes. `BalancesAreTheJournals` needs up-to-date pages
(a journal posted from two pages is on the accounts twice) and a posting
configuration (without one, deleting a journal takes nothing off the balances),
but not that nothing is entered late. `Register` says that exactly the shut
periods have written off one unit of the asset. It needs that the asset outlives
the periods (`MaxLife > LastPeriod`), since a life that has run out is not restored
on reopening, and gives `RegisterMatchesJournals`.

**CodeSequence.** `Numbered` ties the rows and documents to their cardinalities (a
row comes with a document, and the row a session has read is still there), which
gives `CodesTypeCorrect`. `Counted` says that every count of every row, stored or
read by a session, was given to some document; whatever a session writes back is
one more than a count that is backed, so `CodesHaveNoGap` holds for any number of
sessions. `Keyed` says that there is one row for the codes of one scope and that
each code is at most its row's count; it is kept only if what a session read is
still what a load would return, hence while no request has `overlapped` another,
and if the printed scope is that of the counter (`ScopedCodes`). Under this
assumption `CodesAreUnique`; `codes_race` shows that the first condition is needed.

**SalesFulfilment.** `Rows` gives the records their fields, without the ranges of the
counters; `TypeCorrect` adds those. `PlannedIsApproved` says that an order with a
planning needed no approval or has one in its history, and that only such orders
have sequences; it is kept by every page, old ones too, and gives
`NothingPlannedUnapproved`. `Handled`, with up-to-date pages, says what each
reference of a plan goes through: one that is deliverable is on no delivery, one
that is not is on exactly one, and what is realized is DELIVERED. From it follow
`SettledForGood` and `ImplementsFulfilment`, in which each action moves one set of
parcels from one state to the next.

`CountersCorrect` is inductive by itself with up-to-date pages, once it is known how
each action changes the sums over sequences and deliveries; there may be any
finite number of either (`FiniteBounds`: a sum over infinitely many rows is no
number). `NeverOverplanned` needs `PendingForwarded` besides: an order
that awaits a decision was at most forwarded. One that is planned already has an
approval, so the approver who lowers its quantities is the one the property names.

**Settlement.** `Rows` is again the shape of the records. `Sourced` adds that the
lines of a receipt are finitely many, that receipts and pages list bills that
were entered, and that a page opened for a prepayment shows its party alone;
`TypeCorrect` follows. `Belonging` says that the
lines of every receipt are the party's own and that of every page (`PageOwn`) the
lines and the requests under way are of the party it shows; patience is what keeps
it, and it gives `PatientUsersPayTheirOwn`. `Debts`, while no outdated page was saved,
says that no bill owes less than nothing, and `Balanced` that one that is PAID and
not written up owes nothing. The corrections of the page are one lemma, that a
normalised line pays no more than what is owed and written off together, so a
bill credited with a line of an up-to-date page stays non-negative:
`NothingOverpaid` and `PaidWhenNothingIsOwed`, for whatever is typed into the lines.

`Followed` is `UnpaidFollowsReceipts` for one bill: the sum over the receipts changes by
the line the saved page has for it (`SaveCollects`), which is what `Save` takes off
the bill, whether the page was up to date or not (`OwedFollowsReceipts`). `Cleared` is
`RestIsNegligible` for one bill. It is inductive only together with `Debts` and
`Followed`: the save that makes a bill PAID drops a rest of at most one, because
until then what it owed followed its receipts; and a PAID bill that was not
written up owes nothing, so a later line takes no more than it writes off
(`CreditedClears`) and the rest stays the one that was dropped (`OneRestIsDropped`).

`Covered` is `PrepaymentCovered` for one prepayment. A page compares the total of
all its lines with the rest of the prepayment it was opened with; what is
applied is the sum of the lines the server stores. The second is at most the
first if no line that is left out is of less than nothing, which is what
`discounted` records, and the rest is what it was when the page was opened if the
page is up to date. The property names the other two conditions, that the
charges are no negative amount and that no line writes a bill up, and under
them it holds for whatever is typed (`PrepaymentsSuffice`).

**Procurement.** `Rows` adds to the types that the lines of standard orders are
requested and that an absent order has no rows. `Approval` (that the decision
APPROVE_AND_FINISH leaves a finished history, with `NothingBeforeApproval`) is kept by
every page, old ones too. With up-to-date pages, `OrderedOnce` is inductive by
itself, `LockedForGood` follows from it, and `Documents` adds `InTurn` - no
decision follows the one that finished the approval, and no barcode is printed
before it - to `InvoicedOnce` and `BarcodeStatus`, whose steps need it: a second
decision would invoice again or change quantities under printed barcodes. Each is proved for one
order first, since no action touches two orders (`DocumentsByOrder`).

**Only model-checked.** The four findings: a run shows that the code breaks what a
comment says, and a theorem could show no more. Induction over data, recursive
operators, liveness and ENABLED are out of reach of the provers used here; the
models are written without the first two, and nothing is claimed about the
others.

## 6. Not modelled, and why

* Inventory: the AVERAGE control type (parts of it are never reached), several
  products, lots and tags (they do not share rows), the reservation helpers.
  Documents are serial: what two sessions on one container do to each other
  depends on the isolation level of the database. Serial pieces go through the
  same helpers with a batch of their own, and their codes come from
  `CodeSequence`.
* Ledger: foreign exchange revaluation and distribution journals, declining
  balance depreciation (its reversal computes from the book value after the
  depreciation), several organizations and currencies, the columns of
  `GLAccountBalance` by entry type, editing and deleting periods, the PENDING
  status (`JournalEntryService.pending` is not called by a page), two closings at
  once, which share the fields of the posting processes. Amounts are whole; the
  server rounds debit and credit before it compares them.
* Document codes: the counter by day and the two printed forms no service uses,
  and the uniqueness constraints that some tables declare.
* Sales: serial numbers and their reservation, money, plannings that no menu
  reaches, `DeliveryOrderService.delete` (no page offers it).
* Receivable and payable: manual receipts and payments, billing batches,
  collecting, memos and fund applications (rows of their own that change no
  unpaid amount), the invoice popup of `paymentAdd`, `PaymentService.delete` (no page
  links it).
* Procurement: the older services for standard and for direct orders, money and
  tax, products that are no stock. The button that deletes a row on the approver's
  page has no effect in `PurchaseOrderService.edit`.
* Production: a work order is written, approved and finished from one page; the
  approval and the stock moves are those of the modules above.
* Master data, security, reporting and dashboards: rows that change one at a
  time, code delegated to Spring Security, or queries.
* The JavaScript files under `src/src/main/webapp`: nearly all are copies of
  libraries (Dojo, jQuery, Prototype); the program's own ones format numbers, add
  rows to tables and open popups. The scripts that decide something are in the JSP
  pages, and those are modelled with the requests they send.
