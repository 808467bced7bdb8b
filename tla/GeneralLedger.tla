--------------------------- MODULE GeneralLedger ---------------------------
(***************************************************************************)
(* The general ledger of one organization in one currency: journal         *)
(* entries, the balances of the accounts in each accounting period, and    *)
(* the life of a period, FUTURE -> OPEN -> PRECLOSE -> CLOSED, with its    *)
(* way back.  Closing a period writes journals of its own, into the period *)
(* and into the next one; opening it again has to undo all of them.        *)
(*                                                                         *)
(* An amount is positive for a debit and negative for a credit, and the    *)
(* lines of a journal are the net amount it gives each account.  Journals  *)
(* the program writes are kept as the sum of their lines per period and    *)
(* source: they are only ever reversed and deleted together.               *)
(*                                                                         *)
(* The services check little: it is the pages that offer "close" for a     *)
(* PRECLOSE period and "unpost" for a POSTED journal.  With StalePages a   *)
(* page may be kept and used after what it shows has changed.              *)
(***************************************************************************)
EXTENDS Integers, FiniteSets, Functions

CONSTANTS
    LastPeriod,     \* periods are 1..LastPeriod
    YearLength,     \* periods of a year (12 in the code)
    Entries,        \* the lines a user may type in
    MaxJournals,    \* bound: journals ever entered
    MaxAmount,      \* bound: the largest amount on an account
    MaxLife,        \* useful life of the fixed asset, in periods
    BatchingType,   \* of the JournalEntryConfiguration, or "ABSENT"
    StalePages,     \* whether a request may come from an old page
    LateEntries     \* whether the admin page and the recurring journals are used

Accounts == {"cash", "asset", "sales", "expense", "summary", "capital", "opening"}
IncomeStatement == {"sales", "expense"}
Total(f) == f["cash"] + f["asset"] + f["sales"] + f["expense"]
            + f["summary"] + f["capital"] + f["opening"]
Lines == [Accounts -> Int]

ASSUME PeriodAssumption == LastPeriod \in Nat \ {0} /\ YearLength \in Nat \ {0}
ASSUME EntryAssumption == Entries \subseteq Lines
ASSUME LedgerBounds ==
    MaxJournals \in Nat /\ MaxAmount \in Nat /\ MaxLife \in Nat \ {0}
ASSUME ModeAssumption ==
    /\ BatchingType \in {"ALL", "NONE", "ABSENT"}
    /\ StalePages \in BOOLEAN /\ LateEntries \in BOOLEAN

VARIABLES
    status,         \* AccountingPeriod.status
    journals,       \* JournalEntry rows of the users and of the recurring journals
    nextJournal,
    balance,        \* GLAccountBalance rows: period -> account -> net debit
    auto, closing,  \* the AUTOAJUSTMENT and CLOSING journals of each period
    opening,        \* the POSTED OPENING journals of each period ...
    unopened,       \* ... and the ones a user unposted
    summaries,      \* IncomeSummaryBalance rows; 0: no row
    asset,          \* a FixedAsset with straight-line depreciation
    offered         \* the requests a page offered at some time
books == <<balance, auto, closing, opening, unopened, summaries>>
vars == <<status, journals, nextJournal, books, asset, offered>>

Periods == 1..LastPeriod
JournalIds == 1..MaxJournals
PeriodStatus == {"FUTURE", "OPEN", "PRECLOSE", "CLOSED"}

\* status "" is a null entryStatus.
JournalEntry == [id : JournalIds, period : Periods, source : {"STANDARD", "RECURRING"},
                 status : {"", "BATCHED", "POSTED"}, lines : Entries]

\* One account for the expense of a period, one unit for its amount.
FixedAsset == [life : 0..MaxLife, accumulated : Nat]

TypeOK ==
    /\ status \in [Periods -> PeriodStatus]
    /\ journals \subseteq JournalEntry
    /\ nextJournal \in 1..(MaxJournals + 1)
    /\ \A book \in {balance, auto, closing, opening, unopened} : book \in [Periods -> Lines]
    /\ summaries \in [Periods -> Int]
    /\ asset \in FixedAsset

Zero == [a \in Accounts |-> 0]
Plus(f, g) == [a \in Accounts |-> f[a] + g[a]]
Minus(f, g) == [a \in Accounts |-> f[a] - g[a]]
AddTo(book, p, f) == [book EXCEPT ![p] = Plus(@, f)]
TakeFrom(book, p, f) == [book EXCEPT ![p] = Minus(@, f)]

\* JournalEntryService.add and the pages refuse lines that do not balance.
Balanced(lines) == Total(lines) = 0
----------------------------------------------------------------------------
(* What the pages offer. *)

\* getBatchedCount: journals of period p that wait to be posted.
Batched(p) == \/ \E j \in journals : j.period = p /\ j.status = "BATCHED"
              \/ unopened[p] # Zero

\* The check the period page makes before it sends "preclose" or "close".
FaultCloseable(p) == TRUE
Closeable(p) == ~Batched(p)

Offers ==
    {<<"preclose", p>> : p \in {q \in Periods : status[q] = "OPEN" /\ Closeable(q)}}
    \cup {<<"close", p>> : p \in {q \in Periods : status[q] = "PRECLOSE" /\ Closeable(q)}}
    \cup {<<"open", p>> : p \in {q \in Periods : status[q] \in {"PRECLOSE", "CLOSED"}}}
    \cup {<<"unpost opening", p>> :
             p \in {q \in Periods : status[q] = "OPEN" /\ opening[q] # Zero}}
    \cup {<<"post opening", p>> : p \in {q \in Periods : unopened[q] # Zero}}
    \cup {<<"post", j.id>> : j \in {k \in journals : k.status = "BATCHED"}}
    \cup {<<"edit", j.id>> : j \in {k \in journals :
             k.status = "BATCHED" /\ k.source = "STANDARD" /\ status[k.period] # "CLOSED"}}
    \cup {<<"delete", j.id>> : j \in {k \in journals :
             k.status # "POSTED" /\ k.source = "STANDARD"}}
    \cup {<<"unpost", j.id>> : j \in {k \in journals :
             k.status = "POSTED" /\ status[k.period] = "OPEN"}}

Requested(request) == request \in IF StalePages THEN offered ELSE Offers

\* Bound: amounts stay small however often an old page is used.
WithinBound == \A p \in Periods, a \in Accounts : \A book \in {balance, unopened} :
                  book[p][a] <= MaxAmount /\ -book[p][a] <= MaxAmount

\* The end of every request: its page and what it shows next are kept.
Answer ==
    /\ offered' = IF StalePages THEN offered \cup Offers' ELSE offered
    /\ WithinBound'

Init ==
    /\ status \in {s \in [Periods -> {"OPEN", "FUTURE"}] : s[1] = "OPEN"}
    /\ journals = {}
    /\ nextJournal = 1
    /\ balance = [p \in Periods |-> Zero]
    /\ auto = balance /\ closing = balance /\ opening = balance /\ unopened = balance
    /\ summaries = [p \in Periods |-> 0]
    /\ asset = [life |-> MaxLife, accumulated |-> 0]
    /\ offered = IF StalePages THEN Offers ELSE {}
----------------------------------------------------------------------------
(* Journal entries. *)

\* JournalEntryService.add: with batching a user's journal waits, with a
\* configuration but no batching it is stored and nothing more, and without
\* a configuration it is booked at once and has no status.
Enter(p, lines, source) ==
    /\ nextJournal \in JournalIds
    /\ journals' = journals \cup
          {[id |-> nextJournal, period |-> p, source |-> source, lines |-> lines,
            status |-> IF BatchingType = "ALL" THEN "BATCHED" ELSE ""]}
    /\ nextJournal' = nextJournal + 1
    /\ balance' = IF BatchingType = "ABSENT" THEN AddTo(balance, p, lines) ELSE balance
    /\ UNCHANGED <<status, auto, closing, opening, unopened, summaries, asset>>
    /\ Answer

\* The journal page: the period is the OPEN one of the entry's date.
AddJournal(p, lines) ==
    /\ Balanced(lines)
    /\ status[p] = "OPEN"
    /\ Enter(p, lines, "STANDARD")

\* The administrator's page, and JournalEntryService.cronjob, take the period
\* of the date in whatever status it is.
AddLateJournal(p, lines, source) ==
    /\ LateEntries
    /\ Balanced(lines)
    /\ Enter(p, lines, source)

Changed(j, new) == journals' = (journals \ {j}) \cup {new}

\* JournalEntryService.edit works on the page's copy of the journal, which
\* was BATCHED when the page was opened, and writes that status back.
EditJournal(j, p, lines) ==
    /\ Requested(<<"edit", j.id>>)
    /\ Balanced(lines)
    /\ status[p] = "OPEN"
    /\ Changed(j, [j EXCEPT !.period = p, !.lines = lines, !.status = "BATCHED"])
    /\ UNCHANGED <<status, nextJournal, books, asset>>
    /\ Answer

\* JournalEntryService.delete: the row goes and nothing else is touched.
DeleteJournal(j) ==
    /\ Requested(<<"delete", j.id>>)
    /\ journals' = journals \ {j}
    /\ UNCHANGED <<status, nextJournal, books, asset>>
    /\ Answer

\* JournalEntryService.post looks at no status.
PostJournal(j) ==
    /\ Requested(<<"post", j.id>>)
    /\ Changed(j, [j EXCEPT !.status = "POSTED"])
    /\ balance' = AddTo(balance, j.period, j.lines)
    /\ UNCHANGED <<status, nextJournal, auto, closing, opening, unopened, summaries, asset>>
    /\ Answer

\* JournalEntryService.unpost.
UnpostJournal(j) ==
    /\ Requested(<<"unpost", j.id>>)
    /\ j.status = "POSTED"
    /\ status[j.period] # "CLOSED"
    /\ Changed(j, [j EXCEPT !.status = "BATCHED"])
    /\ balance' = TakeFrom(balance, j.period, j.lines)
    /\ UNCHANGED <<status, nextJournal, auto, closing, opening, unopened, summaries, asset>>
    /\ Answer

\* The same page unposts the opening journal of an OPEN period ...
UnpostOpening(p) ==
    /\ Requested(<<"unpost opening", p>>)
    /\ opening[p] # Zero
    /\ status[p] # "CLOSED"
    /\ balance' = TakeFrom(balance, p, opening[p])
    /\ unopened' = AddTo(unopened, p, opening[p])
    /\ opening' = [opening EXCEPT ![p] = Zero]
    /\ UNCHANGED <<status, journals, nextJournal, auto, closing, summaries, asset>>
    /\ Answer

\* ... and the batch page posts it, or posts once more what is posted.
PostOpening(p) ==
    /\ Requested(<<"post opening", p>>)
    /\ balance' = AddTo(balance, p, IF unopened[p] # Zero THEN unopened[p] ELSE opening[p])
    /\ opening' = AddTo(opening, p, unopened[p])
    /\ unopened' = [unopened EXCEPT ![p] = Zero]
    /\ UNCHANGED <<status, journals, nextJournal, auto, closing, summaries, asset>>
    /\ Answer
----------------------------------------------------------------------------
(* The life of a period. *)

PreviousClosed(p) == p > 1 => status[p - 1] = "CLOSED"

Sequence(p) == ((p - 1) % YearLength) + 1

\* AccountingPeriodDaoImpl.openStatusNextPeriod: by sequence number, in every
\* year; no period follows the last one of a year.
NextOpened(s, p) == [q \in Periods |->
    IF s[q] = "FUTURE" /\ Sequence(q) = Sequence(p) + 1 THEN "OPEN" ELSE s[q]]

FaultDepreciation == [Zero EXCEPT !["expense"] = 1, !["asset"] = -1]

\* FixedAssetProcess, straight line: one unit a period while life remains.
Depreciation ==
    IF asset.life > 0 THEN [Zero EXCEPT !["expense"] = 1, !["asset"] = -1] ELSE Zero

\* PostingFacade.preclose.
Preclose(p) ==
    /\ Requested(<<"preclose", p>>)
    /\ PreviousClosed(p)
    /\ auto' = AddTo(auto, p, Depreciation)
    /\ balance' = AddTo(balance, p, Depreciation)
    /\ asset' = [life |-> asset.life + Depreciation["asset"],
                 accumulated |-> asset.accumulated - Depreciation["asset"]]
    /\ status' = NextOpened([status EXCEPT ![p] = "PRECLOSE"], p)
    /\ UNCHANGED <<journals, nextJournal, closing, opening, unopened, summaries>>
    /\ Answer

Result(b) == b["sales"] + b["expense"]

\* The accounts are closed on the side they stand on.
FaultIncomeLines(b) == [a \in Accounts |->
    IF Result(b) = 0 THEN 0
    ELSE IF a \in IncomeStatement THEN b[a]
    ELSE IF a = "summary" THEN Result(b) ELSE 0]

\* IncomeSummaryProcess: nothing is written when the totals are equal.
IncomeLines(b) == [a \in Accounts |->
    IF Result(b) = 0 THEN 0
    ELSE IF a \in IncomeStatement THEN -b[a]
    ELSE IF a = "summary" THEN Result(b) ELSE 0]

\* The capital line takes the amount of the row and forgets its side.
FaultCapitalLines(n) ==
    [Zero EXCEPT !["summary"] = -n, !["capital"] = IF n < 0 THEN -n ELSE n]

\* CapitalProcess: from the summary account to the capital account.
CapitalLines(n) == [Zero EXCEPT !["summary"] = -n, !["capital"] = n]

\* OpeningProcess: what the balance sheet carries over; the opening account
\* takes the rest of it, which is nothing while the ledger balances.
OpeningLines(b) == [a \in Accounts |->
    IF a \in IncomeStatement THEN 0
    ELSE IF a = "opening" THEN b[a] - (Total(b) - Result(b)) ELSE b[a]]

FaultCarried(b, written) == OpeningLines(b)

\* The opening process runs after the other two.
Carried(b, written) == OpeningLines(Plus(b, written))

\* PostingFacade.close.
Close(p) ==
    /\ Requested(<<"close", p>>)
    /\ PreviousClosed(p)
    /\ p + 1 \in Periods
    /\ LET income == IncomeLines(balance[p])
           row == IF Result(balance[p]) # 0 THEN Result(balance[p]) ELSE summaries[p]
           written == Plus(income, CapitalLines(row))
           carried == Carried(balance[p], written)
       IN
          /\ summaries' = [summaries EXCEPT ![p] = row]
          /\ closing' = AddTo(closing, p, written)
          /\ opening' = AddTo(opening, p + 1, carried)
          /\ balance' = AddTo(AddTo(balance, p, written), p + 1, carried)
    /\ status' = NextOpened([status EXCEPT ![p] = "CLOSED"], p)
    /\ UNCHANGED <<journals, nextJournal, auto, unopened, asset>>
    /\ Answer

FaultNextMayOpen(p) == TRUE

\* The check of PostingFacade.open.
NextMayOpen(p) == p + 1 \in Periods => status[p + 1] \notin {"PRECLOSE", "CLOSED"}

FaultRestored(p) == asset

\* ReverseClosingProcess.reverseFixesAsset: an asset without life left is
\* not loaded, one that was never depreciated is left alone.
Restored(p) ==
    IF asset.life \in 1..(MaxLife - 1)
    THEN [life |-> IF p <= MaxLife THEN asset.life + 1 ELSE asset.life,
          accumulated |-> IF asset.accumulated > 1 THEN asset.accumulated - 1 ELSE 0]
    ELSE asset

FaultReversed(p) == [q \in Periods |->
    IF q = p THEN Minus(Minus(balance[q], auto[q]), closing[q]) ELSE balance[q]]

\* ReverseClosingProcess.execute on the balances.
Reversed(p) == [q \in Periods |->
    IF q = p THEN Minus(Minus(balance[q], auto[q]), closing[q])
    ELSE IF q = p + 1 THEN Minus(balance[q], opening[q]) ELSE balance[q]]

\* JournalEntryDaoImpl.deleteAll.
Cleared(book, p) == IF p \in Periods THEN [book EXCEPT ![p] = Zero] ELSE book

\* PostingFacade.open.
Open(p) ==
    /\ Requested(<<"open", p>>)
    /\ NextMayOpen(p)
    /\ balance' = Reversed(p)
    /\ auto' = Cleared(auto, p)
    /\ closing' = Cleared(closing, p)
    /\ opening' = Cleared(opening, p + 1)
    /\ unopened' = Cleared(unopened, p + 1)
    /\ summaries' = [summaries EXCEPT ![p] = 0]
    /\ asset' = IF status[p] \in {"PRECLOSE", "CLOSED"} THEN Restored(p) ELSE asset
    /\ status' = [status EXCEPT ![p] = "OPEN"]
    /\ UNCHANGED <<journals, nextJournal>>
    /\ Answer

Next ==
    \/ \E p \in Periods, lines \in Entries : AddJournal(p, lines)
    \/ \E p \in Periods, lines \in Entries, source \in {"STANDARD", "RECURRING"} :
          AddLateJournal(p, lines, source)
    \/ \E j \in journals, p \in Periods, lines \in Entries : EditJournal(j, p, lines)
    \/ \E j \in journals : DeleteJournal(j)
    \/ \E j \in journals : PostJournal(j)
    \/ \E j \in journals : UnpostJournal(j)
    \/ \E p \in Periods : UnpostOpening(p)
    \/ \E p \in Periods : PostOpening(p)
    \/ \E p \in Periods : Preclose(p)
    \/ \E p \in Periods : Close(p)
    \/ \E p \in Periods : Open(p)

Spec == Init /\ [][Next]_vars
----------------------------------------------------------------------------
(* What must hold. *)

PostedIn(p) == {j \in journals : j.period = p /\ j.status = "POSTED"}
Booked(p, a) ==
    SumFunction([j \in PostedIn(p) |-> j.lines[a]]) + auto[p][a] + closing[p][a] + opening[p][a]

\* Every posted journal is on the accounts once and nothing else is: the
\* balances are never rebuilt, so every post, unpost, closing and reopening
\* has to keep them equal to the journals.
BalancesMatchJournals == \A p \in Periods, a \in Accounts : balance[p][a] = Booked(p, a)

\* Debits and credits of every period are equal, even when old pages post
\* twice, close twice and take back what is closed.
TrialBalance == \A p \in Periods : Total(balance[p]) = 0

\* The accounts of a closed period do not move: whoever posts, unposts or
\* edits meanwhile, only opening the period again changes its balances.
ClosedFrozen ==
    [][\A p \in Periods : status[p] = "CLOSED" /\ status'[p] = "CLOSED"
          => balance'[p] = balance[p]]_vars

\* A closed period's balance sheet is what the next one opens with.
OpeningCarriesClosing ==
    \A p \in Periods : status[p] = "CLOSED" =>
        \A a \in Accounts \ IncomeStatement :
            opening[p + 1][a] + unopened[p + 1][a] = balance[p][a]

\* The result of a closed period is zero: it has gone to the capital.
ResultCleared == \A p \in Periods : status[p] = "CLOSED" => Result(balance[p]) = 0

\* Periods are closed in order and opened again in the opposite order, as
\* long as every page is up to date.
PeriodOrder ==
    ~StalePages =>
        \A p, q \in Periods :
            p < q /\ status[q] \in {"PRECLOSE", "CLOSED"} => status[p] = "CLOSED"

\* The period page's message: batched journals are to be finished first.
NoBatchedInClosed == \A p \in Periods : status[p] = "CLOSED" => ~Batched(p)

\* What the asset register has depreciated is what the journals say.
AssetMatchesJournals ==
    asset.accumulated = -SumFunction([p \in Periods |-> auto[p]["asset"]])

\* A closed period has an open successor: the user can go on working.
ClosedOpensNext ==
    \A p \in Periods : status[p] = "CLOSED" => status[p + 1] # "FUTURE"
=============================================================================
