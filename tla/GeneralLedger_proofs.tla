------------------------ MODULE GeneralLedger_proofs ------------------------
(***************************************************************************)
(* Proofs about GeneralLedger for every number of periods, every set of    *)
(* entries and every configuration.                                        *)
(***************************************************************************)
EXTENDS GeneralLedger, Sums

(* Lines that balance, and the operations that keep them so. *)

BalancedLines == {f \in Lines : Total(f) = 0}
BalancedBooks == [Periods -> BalancedLines]

LEMMA ZeroBalances == Zero \in BalancedLines
  BY DEF Zero, BalancedLines, Lines, Total, Accounts

LEMMA PlusBalances ==
    ASSUME NEW f \in BalancedLines, NEW g \in BalancedLines
    PROVE  Plus(f, g) \in BalancedLines
  BY DEF Plus, BalancedLines, Lines, Total, Accounts

LEMMA MinusBalances ==
    ASSUME NEW f \in BalancedLines, NEW g \in BalancedLines
    PROVE  Minus(f, g) \in BalancedLines
  BY DEF Minus, BalancedLines, Lines, Total, Accounts

LEMMA AddToBalances ==
    ASSUME NEW book \in BalancedBooks, NEW p \in Periods, NEW f \in BalancedLines
    PROVE  AddTo(book, p, f) \in BalancedBooks
  BY PlusBalances DEF AddTo, BalancedBooks

LEMMA TakeFromBalances ==
    ASSUME NEW book \in BalancedBooks, NEW p \in Periods, NEW f \in BalancedLines
    PROVE  TakeFrom(book, p, f) \in BalancedBooks
  BY MinusBalances DEF TakeFrom, BalancedBooks

LEMMA ClearedBalances ==
    ASSUME NEW book \in BalancedBooks, NEW p
    PROVE  Cleared(book, p) \in BalancedBooks
  BY ZeroBalances DEF Cleared, BalancedBooks

(* The journals the program writes balance, whatever it closes. *)

LEMMA ResultIsAnAmount ==
    ASSUME NEW b \in Lines PROVE Result(b) \in Int
  BY DEF Result, Lines, Accounts

LEMMA IncomeLinesBalance ==
    ASSUME NEW b \in Lines PROVE IncomeLines(b) \in BalancedLines
  BY DEF IncomeLines, Result, IncomeStatement, BalancedLines, Lines, Total, Accounts

LEMMA CapitalLinesBalance ==
    ASSUME NEW n \in Int PROVE CapitalLines(n) \in BalancedLines
  BY DEF CapitalLines, Zero, BalancedLines, Lines, Total, Accounts

LEMMA OpeningLinesBalance ==
    ASSUME NEW b \in Lines PROVE OpeningLines(b) \in BalancedLines
  BY DEF OpeningLines, Result, IncomeStatement, BalancedLines, Lines, Total, Accounts

LEMMA DepreciationBalances == Depreciation \in BalancedLines
  BY DEF Depreciation, Zero, BalancedLines, Lines, Total, Accounts
----------------------------------------------------------------------------
(* Types and trial balance. *)

\* The inductive invariant: whatever is written anywhere balances.
BalancedLedger ==
    /\ status \in [Periods -> PeriodStatus]
    /\ journals \subseteq JournalEntry
    /\ \A j \in journals : j.lines \in BalancedLines
    /\ nextJournal \in 1..(MaxJournals + 1)
    /\ balance \in BalancedBooks
    /\ auto \in BalancedBooks /\ closing \in BalancedBooks
    /\ opening \in BalancedBooks /\ unopened \in BalancedBooks
    /\ summaries \in [Periods -> Int]
    /\ asset \in FixedAsset

\* An unprimed fact about the types, for the actions that read a book.
LEMMA BookLines ==
    ASSUME NEW book \in BalancedBooks, NEW p \in Periods
    PROVE  book[p] \in BalancedLines /\ book[p] \in Lines
  BY DEF BalancedBooks, BalancedLines

LEMMA InitBalanced == Init => BalancedLedger
  <1> SUFFICES ASSUME Init PROVE BalancedLedger
    OBVIOUS
  <1>1. 1 \in 1..(MaxJournals + 1) /\ MaxLife \in 0..MaxLife
    BY LedgerBounds
  <1>2. balance \in BalancedBooks
    BY ZeroBalances DEF Init, BalancedBooks
  <1> QED
    BY <1>1, <1>2 DEF Init, BalancedLedger, PeriodStatus, FixedAsset

LEMMA EnterBalanced ==
    ASSUME BalancedLedger, NEW p \in Periods, NEW lines \in Entries,
           NEW source \in {"STANDARD", "RECURRING"}, Balanced(lines), Enter(p, lines, source)
    PROVE  BalancedLedger'
  <1>1. lines \in BalancedLines
    BY EntryAssumption DEF BalancedLines, Balanced
  <1> DEFINE new == [id |-> nextJournal, period |-> p, source |-> source, lines |-> lines,
                     status |-> IF BatchingType = "ALL" THEN "BATCHED" ELSE ""]
  <1>2. /\ nextJournal \in JournalIds
        /\ journals' = journals \cup {new}
        /\ nextJournal' = nextJournal + 1
    BY DEF Enter
  <1>5. new \in JournalEntry /\ new.lines = lines
    BY <1>2 DEF JournalEntry
  <1>3. balance' \in BalancedBooks
    BY <1>1, AddToBalances DEF Enter, BalancedLedger
  <1>4. nextJournal' \in 1..(MaxJournals + 1)
    <2>1. MaxJournals \in Nat /\ nextJournal \in 1..MaxJournals
      BY <1>2, LedgerBounds DEF JournalIds
    <2>2. nextJournal + 1 \in 1..(MaxJournals + 1)
      BY <2>1
    <2> QED
      BY <1>2, <2>2
  <1> HIDE DEF new
  <1> QED
    BY <1>1, <1>2, <1>3, <1>4, <1>5 DEF Enter, BalancedLedger

\* The status of a changed period is a status.
LEMMA NextOpenedType ==
    ASSUME NEW s \in [Periods -> PeriodStatus], NEW p
    PROVE  NextOpened(s, p) \in [Periods -> PeriodStatus]
  BY DEF NextOpened, PeriodStatus

LEMMA AssetType ==
    ASSUME asset \in FixedAsset, NEW p \in Periods
    PROVE  /\ [life |-> asset.life + Depreciation["asset"],
               accumulated |-> asset.accumulated - Depreciation["asset"]] \in FixedAsset
           /\ Restored(p) \in FixedAsset
  <1>1. asset.life \in 0..MaxLife /\ asset.accumulated \in Nat /\ MaxLife \in Nat
    BY LedgerBounds DEF FixedAsset
  <1>2. Depreciation["asset"] = IF asset.life > 0 THEN -1 ELSE 0
    BY DEF Depreciation, Zero, Accounts
  <1> QED
    BY <1>1, <1>2 DEF Restored, FixedAsset

LEMMA PrecloseBalanced ==
    ASSUME BalancedLedger, NEW p \in Periods, Preclose(p)
    PROVE  BalancedLedger'
  <1>1. auto' \in BalancedBooks /\ balance' \in BalancedBooks
    BY DepreciationBalances, AddToBalances DEF Preclose, BalancedLedger
  <1>2. asset' \in FixedAsset
    BY AssetType DEF Preclose, BalancedLedger
  <1>3. status' \in [Periods -> PeriodStatus]
    BY NextOpenedType DEF Preclose, BalancedLedger, PeriodStatus
  <1> QED
    BY <1>1, <1>2, <1>3 DEF Preclose, BalancedLedger

\* What a closing writes, for the balances before it.
LEMMA ClosingBalances ==
    ASSUME NEW b \in BalancedLines, NEW row \in Int
    PROVE  LET written == Plus(IncomeLines(b), CapitalLines(row))
           IN written \in BalancedLines /\ Carried(b, written) \in BalancedLines
  <1> DEFINE written == Plus(IncomeLines(b), CapitalLines(row))
  <1>1. b \in Lines
    BY DEF BalancedLines
  <1>2. written \in BalancedLines
    BY <1>1, IncomeLinesBalance, CapitalLinesBalance, PlusBalances
  <1>3. Plus(b, written) \in Lines
    BY <1>2, PlusBalances DEF BalancedLines
  <1> QED
    BY <1>2, <1>3, OpeningLinesBalance DEF Carried

LEMMA CloseBalanced ==
    ASSUME BalancedLedger, NEW p \in Periods, Close(p)
    PROVE  BalancedLedger'
  <1> DEFINE row == IF Result(balance[p]) # 0 THEN Result(balance[p]) ELSE summaries[p]
             written == Plus(IncomeLines(balance[p]), CapitalLines(row))
             carried == Carried(balance[p], written)
  <1>1. /\ summaries' = [summaries EXCEPT ![p] = row]
        /\ closing' = AddTo(closing, p, written)
        /\ opening' = AddTo(opening, p + 1, carried)
        /\ balance' = AddTo(AddTo(balance, p, written), p + 1, carried)
        /\ p + 1 \in Periods
    BY DEF Close
  <1>2. balance[p] \in BalancedLines /\ row \in Int
    BY BookLines, ResultIsAnAmount DEF BalancedLedger
  <1>3. written \in BalancedLines /\ carried \in BalancedLines
    BY <1>2, ClosingBalances
  <1>4. closing' \in BalancedBooks /\ opening' \in BalancedBooks /\ balance' \in BalancedBooks
    <2> HIDE DEF written, carried
    <2>1. AddTo(balance, p, written) \in BalancedBooks
      BY <1>3, AddToBalances DEF BalancedLedger
    <2> QED
      BY <1>1, <1>3, <2>1, AddToBalances DEF BalancedLedger
  <1>5. status' \in [Periods -> PeriodStatus]
    BY NextOpenedType DEF Close, BalancedLedger, PeriodStatus
  <1>6. summaries' \in [Periods -> Int]
    BY <1>1, <1>2 DEF BalancedLedger
  <1> QED
    BY <1>4, <1>5, <1>6 DEF Close, BalancedLedger

LEMMA ReversedBalances ==
    ASSUME BalancedLedger, NEW p \in Periods
    PROVE  Reversed(p) \in BalancedBooks
  <1> SUFFICES ASSUME NEW q \in Periods PROVE Reversed(p)[q] \in BalancedLines
    BY DEF Reversed, BalancedBooks
  <1>1. balance[q] \in BalancedLines /\ auto[q] \in BalancedLines
        /\ closing[q] \in BalancedLines /\ opening[q] \in BalancedLines
    BY BookLines DEF BalancedLedger
  <1> QED
    BY <1>1, MinusBalances DEF Reversed

LEMMA OpenBalanced ==
    ASSUME BalancedLedger, NEW p \in Periods, Open(p)
    PROVE  BalancedLedger'
  <1>1. balance' \in BalancedBooks
    BY ReversedBalances DEF Open
  <1>2. /\ auto' \in BalancedBooks /\ closing' \in BalancedBooks
        /\ opening' \in BalancedBooks /\ unopened' \in BalancedBooks
    BY ClearedBalances DEF Open, BalancedLedger
  <1>3. asset' \in FixedAsset
    BY AssetType DEF Open, BalancedLedger
  <1>4. status' \in [Periods -> PeriodStatus]
    BY DEF Open, BalancedLedger, PeriodStatus
  <1> QED
    BY <1>1, <1>2, <1>3, <1>4 DEF Open, BalancedLedger

LEMMA JournalBalanced ==
    ASSUME BalancedLedger, NEW j \in journals,
           PostJournal(j) \/ UnpostJournal(j) \/ DeleteJournal(j)
    PROVE  BalancedLedger'
  <1>1. j \in JournalEntry /\ j.period \in Periods /\ j.lines \in BalancedLines
    BY DEF BalancedLedger, JournalEntry
  <1>2. CASE PostJournal(j)
    <2>1. [j EXCEPT !.status = "POSTED"] \in JournalEntry
      BY <1>1 DEF JournalEntry
    <2>2. balance' \in BalancedBooks
      BY <1>1, <1>2, AddToBalances DEF PostJournal, BalancedLedger
    <2> QED
      BY <1>1, <1>2, <2>1, <2>2 DEF PostJournal, Changed, BalancedLedger, JournalEntry
  <1>3. CASE UnpostJournal(j)
    <2>1. [j EXCEPT !.status = "BATCHED"] \in JournalEntry
      BY <1>1 DEF JournalEntry
    <2>2. balance' \in BalancedBooks
      BY <1>1, <1>3, TakeFromBalances DEF UnpostJournal, BalancedLedger
    <2> QED
      BY <1>1, <1>3, <2>1, <2>2 DEF UnpostJournal, Changed, BalancedLedger, JournalEntry
  <1>4. CASE DeleteJournal(j)
    BY <1>4 DEF DeleteJournal, BalancedLedger, books
  <1> QED
    BY <1>2, <1>3, <1>4

LEMMA EditBalanced ==
    ASSUME BalancedLedger, NEW j \in journals, NEW p \in Periods, NEW lines \in Entries,
           EditJournal(j, p, lines)
    PROVE  BalancedLedger'
  <1>1. j \in JournalEntry
    BY DEF BalancedLedger
  <1>2. lines \in BalancedLines
    BY EntryAssumption DEF EditJournal, Balanced, BalancedLines
  <1> DEFINE new == [j EXCEPT !.period = p, !.lines = lines, !.status = "BATCHED"]
  <1>3. new \in JournalEntry /\ new.lines = lines
    BY <1>1 DEF JournalEntry
  <1>4. journals' = (journals \ {j}) \cup {new}
    BY DEF EditJournal, Changed
  <1> HIDE DEF new
  <1> QED
    BY <1>2, <1>3, <1>4 DEF EditJournal, BalancedLedger, books

LEMMA OpeningJournalBalanced ==
    ASSUME BalancedLedger, NEW p \in Periods, UnpostOpening(p) \/ PostOpening(p)
    PROVE  BalancedLedger'
  <1>1. opening[p] \in BalancedLines /\ unopened[p] \in BalancedLines
    BY BookLines DEF BalancedLedger
  <1>2. CASE UnpostOpening(p)
    <2>1. balance' \in BalancedBooks /\ unopened' \in BalancedBooks
      BY <1>1, <1>2, AddToBalances, TakeFromBalances DEF UnpostOpening, BalancedLedger
    <2>2. opening' \in BalancedBooks
      BY <1>2, ZeroBalances DEF UnpostOpening, BalancedLedger, BalancedBooks
    <2> QED
      BY <1>2, <2>1, <2>2 DEF UnpostOpening, BalancedLedger
  <1>3. CASE PostOpening(p)
    <2>1. balance' \in BalancedBooks /\ opening' \in BalancedBooks
      BY <1>1, <1>3, AddToBalances DEF PostOpening, BalancedLedger
    <2>2. unopened' \in BalancedBooks
      BY <1>3, ZeroBalances DEF PostOpening, BalancedLedger, BalancedBooks
    <2> QED
      BY <1>3, <2>1, <2>2 DEF PostOpening, BalancedLedger
  <1> QED
    BY <1>2, <1>3

LEMMA NextBalanced == BalancedLedger /\ [Next]_vars => BalancedLedger'
  <1> SUFFICES ASSUME BalancedLedger, [Next]_vars PROVE BalancedLedger'
    OBVIOUS
  <1>1. CASE \E p \in Periods, lines \in Entries : AddJournal(p, lines)
    BY <1>1, EnterBalanced DEF AddJournal
  <1>2. CASE \E p \in Periods, lines \in Entries, source \in {"STANDARD", "RECURRING"} :
                AddLateJournal(p, lines, source)
    BY <1>2, EnterBalanced DEF AddLateJournal
  <1>3. CASE \E j \in journals, p \in Periods, lines \in Entries : EditJournal(j, p, lines)
    BY <1>3, EditBalanced
  <1>4. CASE \E j \in journals : PostJournal(j) \/ UnpostJournal(j) \/ DeleteJournal(j)
    BY <1>4, JournalBalanced
  <1>5. CASE \E p \in Periods : UnpostOpening(p) \/ PostOpening(p)
    BY <1>5, OpeningJournalBalanced
  <1>6. CASE \E p \in Periods : Preclose(p)
    BY <1>6, PrecloseBalanced
  <1>7. CASE \E p \in Periods : Close(p)
    BY <1>7, CloseBalanced
  <1>8. CASE \E p \in Periods : Open(p)
    BY <1>8, OpenBalanced
  <1>9. CASE UNCHANGED vars
    BY <1>9 DEF vars, books, BalancedLedger
  <1> QED
    BY <1>1, <1>2, <1>3, <1>4, <1>5, <1>6, <1>7, <1>8, <1>9 DEF Next

LEMMA AlwaysBalanced == Spec => []BalancedLedger
  BY InitBalanced, NextBalanced, PTL DEF Spec

\* Types are kept by every request, from whatever page it comes.
THEOREM LedgerTypeCorrect == Spec => []TypeOK
  <1>1. BalancedLedger => TypeOK
    BY DEF BalancedLedger, TypeOK, BalancedBooks, BalancedLines
  <1> QED
    BY <1>1, AlwaysBalanced, PTL

\* Debits equal credits in every period, whatever is posted twice, closed
\* twice, unposted after a reopening or entered into a closed period.
THEOREM DebitsEqualCredits == Spec => []TrialBalance
  <1>1. BalancedLedger => TrialBalance
    BY DEF BalancedLedger, TrialBalance, BalancedBooks, BalancedLines
  <1> QED
    BY <1>1, AlwaysBalanced, PTL
----------------------------------------------------------------------------
(* The order of the periods, while every page is up to date. *)

Shut == {"PRECLOSE", "CLOSED"}

Ordered ==
    \A p, q \in Periods : p < q /\ status[q] \in Shut => status[p] = "CLOSED"
LastStaysOpen == \A p \in Periods : status[p] = "CLOSED" => p + 1 \in Periods
NothingOpened ==
    \A p \in Periods : p + 1 \in Periods /\ status[p] # "CLOSED"
        => opening[p + 1] = Zero /\ unopened[p + 1] = Zero
UniqueIds ==
    /\ \A j \in journals : j.id < nextJournal
    /\ \A j, k \in journals : j.id = k.id => j = k

Tidy == Ordered /\ LastStaysOpen /\ NothingOpened /\ UniqueIds

\* What an up-to-date page tells about the request it sends.
LEMMA FreshPeriod ==
    ASSUME ~StalePages, NEW p \in Periods
    PROVE  /\ Requested(<<"preclose", p>>) => status[p] = "OPEN" /\ Closeable(p)
           /\ Requested(<<"close", p>>) => status[p] = "PRECLOSE" /\ Closeable(p)
           /\ Requested(<<"open", p>>) => status[p] \in Shut
           /\ Requested(<<"unpost opening", p>>) => status[p] = "OPEN" /\ opening[p] # Zero
           /\ Requested(<<"post opening", p>>) => unopened[p] # Zero
  BY DEF Requested, Offers, Shut

LEMMA FreshJournal ==
    ASSUME ~StalePages, UniqueIds, NEW j \in journals
    PROVE  /\ Requested(<<"post", j.id>>) => j.status = "BATCHED"
           /\ Requested(<<"edit", j.id>>) => j.status = "BATCHED" /\ status[j.period] # "CLOSED"
           /\ Requested(<<"unpost", j.id>>) => status[j.period] = "OPEN"
  BY DEF Requested, Offers, UniqueIds

\* Opening the next period shuts none and opens none that was shut.
LEMMA NextOpenedKeeps ==
    ASSUME NEW s \in [Periods -> PeriodStatus], NEW p, NEW q \in Periods
    PROVE  /\ s[q] \in Shut => NextOpened(s, p)[q] = s[q]
           /\ s[q] \notin Shut => NextOpened(s, p)[q] \notin Shut
  BY DEF NextOpened, PeriodStatus, Shut

\* How each request moves the periods: only its own period is shut or opened.
Moved(p, to) ==
    /\ status'[p] = to
    /\ \A q \in Periods \ {p} : /\ status[q] \in Shut => status'[q] = status[q]
                                /\ status[q] \notin Shut => status'[q] \notin Shut

LEMMA PeriodMoves ==
    ASSUME BalancedLedger, NEW p \in Periods
    PROVE  /\ Preclose(p) => Moved(p, "PRECLOSE")
           /\ Close(p) => Moved(p, "CLOSED")
           /\ Open(p) => Moved(p, "OPEN")
  <1> DEFINE s(to) == [status EXCEPT ![p] = to]
  <1>1. ASSUME NEW to \in Shut, status' = NextOpened(s(to), p) PROVE Moved(p, to)
    <2>1. s(to) \in [Periods -> PeriodStatus]
      BY DEF BalancedLedger, PeriodStatus, Shut
    <2>2. s(to)[p] = to /\ \A q \in Periods \ {p} : s(to)[q] = status[q]
      BY DEF BalancedLedger
    <2> HIDE DEF s
    <2> QED
      BY <1>1, <2>1, <2>2, NextOpenedKeeps DEF Moved
  <1>2. Preclose(p) => status' = NextOpened(s("PRECLOSE"), p)
    BY DEF Preclose
  <1>3. Close(p) => status' = NextOpened(s("CLOSED"), p)
    BY DEF Close
  <1>4. Open(p) => Moved(p, "OPEN")
    BY DEF Open, Moved, BalancedLedger
  <1> QED
    BY <1>1, <1>2, <1>3, <1>4 DEF Shut

LEMMA InitTidy == Init => Tidy
  <1> SUFFICES ASSUME Init PROVE Tidy
    OBVIOUS
  <1>1. \A p \in Periods : status[p] \notin Shut
    BY DEF Init, Shut
  <1> QED
    BY <1>1 DEF Init, Tidy, Ordered, LastStaysOpen, NothingOpened, UniqueIds, Shut

LEMMA PrecloseTidy ==
    ASSUME BalancedLedger, Tidy, ~StalePages, NEW p \in Periods, Preclose(p)
    PROVE  Tidy'
  <1>1. Moved(p, "PRECLOSE") /\ status[p] = "OPEN" /\ PreviousClosed(p)
    BY PeriodMoves, FreshPeriod DEF Preclose
  <1>2. p > 1 => p - 1 \in Periods
    BY PeriodAssumption DEF Periods
  <1>3. \A q \in Periods : q < p => status[q] = "CLOSED"
    BY <1>1, <1>2 DEF PreviousClosed, Tidy, Ordered, Periods, Shut
  <1>4. Ordered'
    BY <1>1, <1>3 DEF Moved, Tidy, Ordered, Periods, Shut
  <1>5. \A q \in Periods : status'[q] = "CLOSED" <=> status[q] = "CLOSED"
    BY <1>1 DEF Moved, Shut
  <1>6. LastStaysOpen' /\ NothingOpened' /\ UniqueIds'
    BY <1>5 DEF Preclose, Tidy, LastStaysOpen, NothingOpened, UniqueIds
  <1> QED
    BY <1>4, <1>6 DEF Tidy

LEMMA CloseTidy ==
    ASSUME BalancedLedger, Tidy, ~StalePages, NEW p \in Periods, Close(p)
    PROVE  Tidy'
  <1>1. /\ Moved(p, "CLOSED") /\ status[p] = "PRECLOSE" /\ p + 1 \in Periods
    BY PeriodMoves, FreshPeriod DEF Close
  <1>2. Ordered'
    BY <1>1 DEF Moved, Tidy, Ordered, Shut
  <1>3. \A q \in Periods \ {p} : status'[q] = "CLOSED" <=> status[q] = "CLOSED"
    BY <1>1 DEF Moved, Shut
  <1>4. LastStaysOpen' /\ UniqueIds'
    BY <1>1, <1>3 DEF Close, Tidy, LastStaysOpen, UniqueIds
  <1>5. NothingOpened'
    <2>1. \A q \in Periods : q # p + 1 => opening'[q] = opening[q] /\ unopened'[q] = unopened[q]
      BY DEF Close, AddTo, BalancedLedger, BalancedBooks
    <2> QED
      BY <1>1, <1>3, <2>1 DEF Moved, Tidy, NothingOpened, Periods
  <1> QED
    BY <1>2, <1>4, <1>5 DEF Tidy

LEMMA OpenTidy ==
    ASSUME BalancedLedger, Tidy, ~StalePages, NEW p \in Periods, Open(p)
    PROVE  Tidy'
  <1>1. Moved(p, "OPEN") /\ NextMayOpen(p)
    BY PeriodMoves DEF Open
  <1>2. \A q \in Periods : p < q => status[q] \notin Shut
    <2> SUFFICES ASSUME NEW q \in Periods, p < q, status[q] \in Shut PROVE FALSE
      OBVIOUS
    <2>1. p + 1 \in Periods /\ p + 1 <= q
      BY PeriodAssumption DEF Periods
    <2>2. status[p + 1] \notin Shut
      BY <1>1, <2>1 DEF NextMayOpen, Shut
    <2> QED
      BY <2>1, <2>2 DEF Tidy, Ordered, Periods, Shut
  <1>3. Ordered'
    BY <1>1, <1>2 DEF Moved, Tidy, Ordered, Periods, Shut
  <1>4. \A q \in Periods \ {p} : status'[q] = "CLOSED" <=> status[q] = "CLOSED"
    BY <1>1 DEF Moved, Shut
  <1>5. LastStaysOpen' /\ UniqueIds'
    BY <1>1, <1>4 DEF Open, Moved, Tidy, LastStaysOpen, UniqueIds
  <1>6. NothingOpened'
    <2>1. \A q \in Periods : q # p + 1 => opening'[q] = opening[q] /\ unopened'[q] = unopened[q]
      BY DEF Open, Cleared, BalancedLedger, BalancedBooks
    <2>2. p + 1 \in Periods => opening'[p + 1] = Zero /\ unopened'[p + 1] = Zero
      BY DEF Open, Cleared, BalancedLedger, BalancedBooks
    <2> QED
      BY <1>4, <2>1, <2>2 DEF Tidy, NothingOpened, Periods
  <1> QED
    BY <1>3, <1>5, <1>6 DEF Tidy
\* A journal changes no period and no opening journal.
LEMMA JournalTidy ==
    ASSUME BalancedLedger, Tidy, UNCHANGED <<status, opening, unopened>>, UniqueIds'
    PROVE  Tidy'
  BY DEF Tidy, Ordered, LastStaysOpen, NothingOpened

LEMMA EnterUnique ==
    ASSUME BalancedLedger, UniqueIds, NEW p \in Periods, NEW lines \in Entries, NEW source,
           Enter(p, lines, source)
    PROVE  UniqueIds'
  <1>1. nextJournal \in Int
    BY LedgerBounds DEF BalancedLedger
  <1>2. \A j \in journals : j.id \in Int
    <2>1. \A j \in JournalEntry : j.id \in 1..MaxJournals
      BY DEF JournalEntry, JournalIds
    <2> QED
      BY <2>1, LedgerBounds DEF BalancedLedger
  <1> DEFINE new == [id |-> nextJournal, period |-> p, source |-> source, lines |-> lines,
                     status |-> IF BatchingType = "ALL" THEN "BATCHED" ELSE ""]
  <1>3. journals' = journals \cup {new} /\ nextJournal' = nextJournal + 1
    BY DEF Enter
  <1>4. new.id = nextJournal
    OBVIOUS
  <1> HIDE DEF new
  <1> QED
    BY <1>1, <1>2, <1>3, <1>4 DEF UniqueIds

LEMMA ChangedUnique ==
    ASSUME BalancedLedger, UniqueIds, NEW j \in journals, NEW new, new.id = j.id,
           Changed(j, new), nextJournal' = nextJournal
    PROVE  UniqueIds'
  BY DEF Changed, UniqueIds

LEMMA RowChanged ==
    ASSUME BalancedLedger, UniqueIds, NEW j \in journals,
           \/ PostJournal(j) \/ UnpostJournal(j) \/ DeleteJournal(j)
           \/ \E p \in Periods, lines \in Entries : EditJournal(j, p, lines)
    PROVE  UniqueIds'
  <1>1. j \in JournalEntry
    BY DEF BalancedLedger
  <1>2. CASE PostJournal(j)
    <2>1. [j EXCEPT !.status = "POSTED"].id = j.id
      BY <1>1 DEF JournalEntry
    <2> QED
      BY <1>2, <2>1, ChangedUnique DEF PostJournal
  <1>3. CASE UnpostJournal(j)
    <2>1. [j EXCEPT !.status = "BATCHED"].id = j.id
      BY <1>1 DEF JournalEntry
    <2> QED
      BY <1>3, <2>1, ChangedUnique DEF UnpostJournal
  <1>4. CASE DeleteJournal(j)
    BY <1>4 DEF DeleteJournal, UniqueIds
  <1>5. ASSUME NEW p \in Periods, NEW lines \in Entries, EditJournal(j, p, lines)
        PROVE  UniqueIds'
    <2>1. [j EXCEPT !.period = p, !.lines = lines, !.status = "BATCHED"].id = j.id
      BY <1>1 DEF JournalEntry
    <2> QED
      BY <1>5, <2>1, ChangedUnique DEF EditJournal
  <1> QED
    BY <1>2, <1>3, <1>4, <1>5

\* Only a period whose predecessor is closed has an opening journal.
LEMMA OpeningJournalTidy ==
    ASSUME BalancedLedger, Tidy, ~StalePages, NEW p \in Periods,
           UnpostOpening(p) \/ PostOpening(p)
    PROVE  Tidy'
  <1>1. opening[p] # Zero \/ unopened[p] # Zero
    BY FreshPeriod DEF UnpostOpening, PostOpening
  <1>2. \A q \in Periods : q # p => opening'[q] = opening[q] /\ unopened'[q] = unopened[q]
    BY DEF UnpostOpening, PostOpening, AddTo, BalancedLedger, BalancedBooks
  <1>3. UNCHANGED <<status, journals, nextJournal>>
    BY DEF UnpostOpening, PostOpening
  <1>4. NothingOpened'
    BY <1>1, <1>2, <1>3 DEF Tidy, NothingOpened
  <1> QED
    BY <1>3, <1>4 DEF Tidy, Ordered, LastStaysOpen, UniqueIds

LEMMA NextTidy == ~StalePages /\ BalancedLedger /\ Tidy /\ [Next]_vars => Tidy'
  <1> SUFFICES ASSUME ~StalePages, BalancedLedger, Tidy, [Next]_vars PROVE Tidy'
    OBVIOUS
  <1>0. UniqueIds
    BY DEF Tidy
  <1>1. ASSUME NEW p \in Periods, NEW lines \in Entries,
               \/ AddJournal(p, lines)
               \/ \E source \in {"STANDARD", "RECURRING"} : AddLateJournal(p, lines, source)
        PROVE  Tidy'
    <2>1. PICK source : Enter(p, lines, source)
      BY <1>1 DEF AddJournal, AddLateJournal
    <2> QED
      BY <1>0, <2>1, EnterUnique, JournalTidy DEF Enter
  <1>2. ASSUME NEW j \in journals,
               \/ PostJournal(j) \/ UnpostJournal(j) \/ DeleteJournal(j)
               \/ \E p \in Periods, lines \in Entries : EditJournal(j, p, lines)
        PROVE  Tidy'
    <2>1. UNCHANGED <<status, opening, unopened>>
      BY <1>2 DEF PostJournal, UnpostJournal, DeleteJournal, EditJournal, books
    <2>2. UniqueIds'
      BY <1>0, <1>2, RowChanged
    <2> QED
      BY <2>1, <2>2, JournalTidy
  <1>3. CASE \E p \in Periods : UnpostOpening(p) \/ PostOpening(p)
    BY <1>3, OpeningJournalTidy
  <1>4. CASE \E p \in Periods : Preclose(p)
    BY <1>4, PrecloseTidy
  <1>5. CASE \E p \in Periods : Close(p)
    BY <1>5, CloseTidy
  <1>6. CASE \E p \in Periods : Open(p)
    BY <1>6, OpenTidy
  <1>7. CASE UNCHANGED vars
    BY <1>0, <1>7, JournalTidy DEF vars, books, UniqueIds
  <1> QED
    BY <1>1, <1>2, <1>3, <1>4, <1>5, <1>6, <1>7 DEF Next

\* Periods are closed in order and opened in the opposite order, for every
\* number of periods and years, as long as no old page is used.
THEOREM PeriodsInOrder == Spec => []PeriodOrder
  <1>1. Init => (~StalePages => Tidy)
    BY InitTidy
  <1>2. BalancedLedger /\ (~StalePages => Tidy) /\ [Next]_vars => (~StalePages => Tidy)'
    BY NextTidy
  <1>3. (~StalePages => Tidy) => PeriodOrder
    BY DEF Tidy, Ordered, PeriodOrder, Shut
  <1> QED
    BY <1>1, <1>2, <1>3, AlwaysBalanced, PTL DEF Spec
----------------------------------------------------------------------------
(* Closed periods, while every page is up to date and nobody enters into   *)
(* periods that are not open.                                              *)

\* A closed period keeps its balances, and the next one its opening journal,
\* posted or not.
Kept(q) ==
    /\ balance'[q] = balance[q]
    /\ \A a \in Accounts : opening'[q + 1][a] + unopened'[q + 1][a]
                             = opening[q + 1][a] + unopened[q + 1][a]

LEMMA OthersKept ==
    ASSUME NEW book \in BalancedBooks, NEW p \in Periods, NEW f,
           NEW q \in Periods, q # p
    PROVE  /\ AddTo(book, p, f)[q] = book[q] /\ TakeFrom(book, p, f)[q] = book[q]
           /\ Cleared(book, p)[q] = book[q] /\ [book EXCEPT ![p] = f][q] = book[q]
  BY DEF AddTo, TakeFrom, Cleared, BalancedBooks

\* Posting or unposting the opening journal moves it between the two books.
LEMMA OpeningMoved ==
    ASSUME BalancedLedger, NEW p \in Periods, UnpostOpening(p) \/ PostOpening(p),
           NEW a \in Accounts
    PROVE  opening'[p][a] + unopened'[p][a] = opening[p][a] + unopened[p][a]
  <1>1. /\ opening[p] \in Lines /\ unopened[p] \in Lines
        /\ opening[p][a] \in Int /\ unopened[p][a] \in Int
    BY BookLines DEF BalancedLedger, Lines
  <1>2. Zero[a] = 0 /\ Plus(unopened[p], opening[p])[a] = unopened[p][a] + opening[p][a]
        /\ Plus(opening[p], unopened[p])[a] = opening[p][a] + unopened[p][a]
    BY DEF Zero, Plus
  <1>3. CASE UnpostOpening(p)
    <2>1. opening'[p] = Zero /\ unopened'[p] = Plus(unopened[p], opening[p])
      BY <1>3 DEF UnpostOpening, AddTo, BalancedLedger, BalancedBooks
    <2> QED
      BY <1>1, <1>2, <2>1
  <1>4. CASE PostOpening(p)
    <2>1. unopened'[p] = Zero /\ opening'[p] = Plus(opening[p], unopened[p])
      BY <1>4 DEF PostOpening, AddTo, BalancedLedger, BalancedBooks
    <2> QED
      BY <1>1, <1>2, <2>1
  <1> QED
    BY <1>3, <1>4

LEMMA JournalKeeps ==
    ASSUME ~StalePages, BalancedLedger, Tidy, NoBatchedInClosed,
           NEW q \in Periods, status[q] = "CLOSED", NEW j \in journals,
           \/ PostJournal(j) \/ UnpostJournal(j) \/ DeleteJournal(j)
           \/ \E p \in Periods, lines \in Entries : EditJournal(j, p, lines)
    PROVE  Kept(q)
  <1>1. UniqueIds /\ j.period \in Periods
    BY DEF Tidy, BalancedLedger, JournalEntry
  <1>2. PostJournal(j) => j.period # q
    BY <1>1, FreshJournal DEF PostJournal, NoBatchedInClosed, Batched
  <1>3. UnpostJournal(j) => j.period # q
    BY <1>1, FreshJournal DEF UnpostJournal
  <1>4. balance'[q] = balance[q]
    <2>1. CASE PostJournal(j)
      BY <1>1, <1>2, <2>1, OthersKept DEF PostJournal, BalancedLedger
    <2>2. CASE UnpostJournal(j)
      BY <1>1, <1>3, <2>2, OthersKept DEF UnpostJournal, BalancedLedger
    <2>3. CASE \/ DeleteJournal(j)
               \/ \E p \in Periods, lines \in Entries : EditJournal(j, p, lines)
      BY <2>3 DEF DeleteJournal, EditJournal, books
    <2> QED
      BY <2>1, <2>2, <2>3
  <1>5. UNCHANGED <<opening, unopened>>
    BY DEF PostJournal, UnpostJournal, DeleteJournal, EditJournal, books
  <1> QED
    BY <1>4, <1>5 DEF Kept

LEMMA OpeningJournalKeeps ==
    ASSUME ~StalePages, BalancedLedger, Tidy, NoBatchedInClosed,
           NEW q \in Periods, status[q] = "CLOSED", NEW p \in Periods,
           UnpostOpening(p) \/ PostOpening(p)
    PROVE  Kept(q)
  <1>1. UnpostOpening(p) => p # q
    BY FreshPeriod DEF UnpostOpening
  <1>2. PostOpening(p) => p # q
    BY FreshPeriod DEF PostOpening, NoBatchedInClosed, Batched
  <1>3. balance'[q] = balance[q]
    <2>1. UnpostOpening(p) => balance' = TakeFrom(balance, p, opening[p])
      BY DEF UnpostOpening
    <2>2. PostOpening(p) =>
             balance' = AddTo(balance, p, IF unopened[p] # Zero THEN unopened[p] ELSE opening[p])
      BY DEF PostOpening
    <2> QED
      BY <1>1, <1>2, <2>1, <2>2, OthersKept DEF BalancedLedger
  <1>4. q + 1 \in Periods
    BY DEF Tidy, LastStaysOpen
  <1>5. \A r \in Periods : r # p => opening'[r] = opening[r] /\ unopened'[r] = unopened[r]
    BY DEF UnpostOpening, PostOpening, AddTo, BalancedLedger, BalancedBooks
  <1> QED
    BY <1>3, <1>4, <1>5, OpeningMoved DEF Kept

LEMMA CloseKeeps ==
    ASSUME ~StalePages, BalancedLedger, Tidy,
           NEW q \in Periods, status[q] = "CLOSED", NEW p \in Periods, Close(p)
    PROVE  Kept(q)
  <1>1. status[p] = "PRECLOSE" /\ p + 1 \in Periods
    BY FreshPeriod DEF Close
  <1>2. q # p /\ q # p + 1
    BY <1>1 DEF Tidy, Ordered, Periods, Shut
  <1>3. PICK written, carried :
           /\ opening' = AddTo(opening, p + 1, carried)
           /\ balance' = AddTo(AddTo(balance, p, written), p + 1, carried)
    BY DEF Close
  <1>4. balance'[q] = balance[q]
    BY <1>2, <1>3 DEF AddTo, BalancedLedger, BalancedBooks
  <1>5. opening'[q + 1] = opening[q + 1] /\ unopened' = unopened
    <2>1. q + 1 # p + 1
      BY <1>2 DEF Periods
    <2> QED
      BY <1>1, <1>3, <2>1, OthersKept DEF Close, BalancedLedger, Tidy, LastStaysOpen
  <1> QED
    BY <1>4, <1>5 DEF Kept

LEMMA OpenKeeps ==
    ASSUME BalancedLedger, Tidy,
           NEW q \in Periods, status[q] = "CLOSED", status'[q] = "CLOSED", NEW p \in Periods, Open(p)
    PROVE  Kept(q)
  <1>1. q # p /\ q # p + 1
    BY PeriodMoves DEF Open, Moved, NextMayOpen
  <1>2. balance'[q] = balance[q]
    BY <1>1 DEF Open, Reversed
  <1>3. q + 1 # p + 1
    BY <1>1 DEF Periods
  <1>4. opening'[q + 1] = opening[q + 1] /\ unopened'[q + 1] = unopened[q + 1]
    BY <1>3 DEF Open, Cleared, BalancedLedger, BalancedBooks, Tidy, LastStaysOpen
  <1> QED
    BY <1>2, <1>4 DEF Kept

LEMMA ClosedIsKept ==
    ASSUME ~StalePages, ~LateEntries, BalancedLedger, Tidy, NoBatchedInClosed, [Next]_vars,
           NEW q \in Periods, status[q] = "CLOSED", status'[q] = "CLOSED"
    PROVE  Kept(q)
  <1>1. ASSUME NEW p \in Periods, NEW lines \in Entries, AddJournal(p, lines) PROVE Kept(q)
    <2>1. q # p /\ Enter(p, lines, "STANDARD")
      BY <1>1 DEF AddJournal
    <2>2. balance' = AddTo(balance, p, lines) \/ balance' = balance
      BY <2>1 DEF Enter
    <2>3. balance'[q] = balance[q]
      BY <2>1, <2>2, OthersKept DEF BalancedLedger
    <2>4. UNCHANGED <<opening, unopened>>
      BY <2>1 DEF Enter
    <2> QED
      BY <2>3, <2>4 DEF Kept
  <1>2. ASSUME NEW p \in Periods, NEW lines \in Entries, NEW source, AddLateJournal(p, lines, source)
        PROVE  FALSE
    BY <1>2 DEF AddLateJournal
  <1>3. ASSUME NEW j \in journals,
               \/ PostJournal(j) \/ UnpostJournal(j) \/ DeleteJournal(j)
               \/ \E p \in Periods, lines \in Entries : EditJournal(j, p, lines)
        PROVE  Kept(q)
    BY <1>3, JournalKeeps
  <1>4. CASE \E p \in Periods : UnpostOpening(p) \/ PostOpening(p)
    BY <1>4, OpeningJournalKeeps
  <1>5. ASSUME NEW p \in Periods, Preclose(p) PROVE Kept(q)
    <2>1. q # p
      BY <1>5, FreshPeriod DEF Preclose
    <2> QED
      BY <1>5, <2>1, OthersKept DEF Preclose, BalancedLedger, Kept
  <1>6. CASE \E p \in Periods : Close(p)
    BY <1>6, CloseKeeps
  <1>7. CASE \E p \in Periods : Open(p)
    BY <1>7, OpenKeeps
  <1>8. CASE UNCHANGED vars
    BY <1>8 DEF vars, books, Kept
  <1> QED
    BY <1>1, <1>2, <1>3, <1>4, <1>5, <1>6, <1>7, <1>8 DEF Next
\* Journals enter closed periods neither by entry, edit nor unposting, and
\* a period is closed when it has none.
LEMMA NextNoBatched ==
    ASSUME ~StalePages, ~LateEntries, BalancedLedger, Tidy, NoBatchedInClosed, [Next]_vars
    PROVE  NoBatchedInClosed'
  <1> SUFFICES ASSUME NEW q \in Periods, status'[q] = "CLOSED" PROVE ~Batched(q)'
    BY DEF NoBatchedInClosed
  <1>0. UniqueIds
    BY DEF Tidy
  <1>1. ASSUME NEW p \in Periods, NEW lines \in Entries, AddJournal(p, lines)
        PROVE  ~Batched(q)'
    <2> DEFINE new == [id |-> nextJournal, period |-> p, source |-> "STANDARD", lines |-> lines,
                       status |-> IF BatchingType = "ALL" THEN "BATCHED" ELSE ""]
    <2>1. journals' = journals \cup {new} /\ UNCHANGED <<status, unopened>>
      BY <1>1 DEF AddJournal, Enter
    <2>2. new.period = p /\ p # q
      BY <1>1, <2>1 DEF AddJournal
    <2> HIDE DEF new
    <2> QED
      BY <2>1, <2>2 DEF NoBatchedInClosed, Batched
  <1>2. ASSUME NEW p \in Periods, NEW lines \in Entries, NEW source, AddLateJournal(p, lines, source)
        PROVE  FALSE
    BY <1>2 DEF AddLateJournal
  <1>3. ASSUME NEW j \in journals, NEW new, Changed(j, new), UNCHANGED <<status, unopened>>,
               new.period # q \/ new.status # "BATCHED"
        PROVE  ~Batched(q)'
    BY <1>3 DEF Changed, NoBatchedInClosed, Batched
  <1>4. ASSUME NEW j \in journals, NEW p \in Periods, NEW lines \in Entries,
               EditJournal(j, p, lines)
        PROVE  ~Batched(q)'
    <2>1. j \in JournalEntry
      BY DEF BalancedLedger
    <2>2. [j EXCEPT !.period = p, !.lines = lines, !.status = "BATCHED"].period = p
      BY <2>1 DEF JournalEntry
    <2>3. UNCHANGED <<status, unopened>> /\ status[p] = "OPEN"
      BY <1>4 DEF EditJournal, books
    <2> QED
      BY <1>3, <1>4, <2>2, <2>3 DEF EditJournal
  <1>5. ASSUME NEW j \in journals, PostJournal(j) PROVE ~Batched(q)'
    <2>1. j \in JournalEntry
      BY DEF BalancedLedger
    <2>2. [j EXCEPT !.status = "POSTED"].status = "POSTED"
      BY <2>1 DEF JournalEntry
    <2> QED
      BY <1>3, <1>5, <2>2 DEF PostJournal
  <1>6. ASSUME NEW j \in journals, UnpostJournal(j) PROVE ~Batched(q)'
    <2>1. j \in JournalEntry /\ status[j.period] = "OPEN"
      BY <1>0, <1>6, FreshJournal DEF BalancedLedger, UnpostJournal
    <2>2. [j EXCEPT !.status = "BATCHED"].period = j.period
      BY <2>1 DEF JournalEntry
    <2>3. UNCHANGED <<status, unopened>>
      BY <1>6 DEF UnpostJournal
    <2> QED
      BY <1>3, <1>6, <2>1, <2>2, <2>3 DEF UnpostJournal
  <1>7. ASSUME NEW j \in journals, DeleteJournal(j) PROVE ~Batched(q)'
    BY <1>7 DEF DeleteJournal, books, NoBatchedInClosed, Batched
  <1>8. ASSUME NEW p \in Periods, UnpostOpening(p) \/ PostOpening(p) PROVE ~Batched(q)'
    <2>1. UNCHANGED <<status, journals>>
      BY <1>8 DEF UnpostOpening, PostOpening
    <2>2. UnpostOpening(p) => p # q
      BY <2>1, FreshPeriod DEF UnpostOpening
    <2>3. unopened'[q] = Zero
      BY <1>8, <2>1, <2>2
         DEF UnpostOpening, PostOpening, AddTo, NoBatchedInClosed, Batched, BalancedLedger, BalancedBooks
    <2> QED
      BY <2>1, <2>3 DEF NoBatchedInClosed, Batched
  <1>9. ASSUME NEW p \in Periods, Preclose(p) PROVE ~Batched(q)'
    <2>1. status[q] = "CLOSED"
      BY <1>9, PeriodMoves DEF Moved, Shut
    <2> QED
      BY <1>9, <2>1 DEF Preclose, NoBatchedInClosed, Batched
  <1>10. ASSUME NEW p \in Periods, Close(p) PROVE ~Batched(q)'
    <2>1. q # p => status[q] = "CLOSED"
      BY <1>10, PeriodMoves DEF Moved, Shut
    <2>2. ~Batched(p)
      BY <1>10, FreshPeriod DEF Close, Closeable
    <2> QED
      BY <1>10, <2>1, <2>2 DEF Close, NoBatchedInClosed, Batched
  <1>11. ASSUME NEW p \in Periods, Open(p) PROVE ~Batched(q)'
    <2>1. status[q] = "CLOSED"
      BY <1>11, PeriodMoves DEF Moved, Shut
    <2>2. unopened'[q] = Zero
      BY <1>11, <2>1
         DEF Open, Cleared, NoBatchedInClosed, Batched, BalancedLedger, BalancedBooks
    <2>3. journals' = journals
      BY <1>11 DEF Open
    <2> QED
      BY <2>1, <2>2, <2>3 DEF NoBatchedInClosed, Batched
  <1>12. CASE UNCHANGED vars
    BY <1>12 DEF vars, books, NoBatchedInClosed, Batched
  <1> QED
    BY <1>1, <1>2, <1>4, <1>5, <1>6, <1>7, <1>8, <1>9, <1>10, <1>11, <1>12 DEF Next

\* Only a close request closes a period.
LEMMA NewlyClosed ==
    ASSUME BalancedLedger, [Next]_vars, NEW q \in Periods,
           status[q] # "CLOSED", status'[q] = "CLOSED"
    PROVE  Close(q)
  <1>1. \A p \in Periods : ~Preclose(p) /\ ~Open(p) /\ (Close(p) => p = q)
    BY PeriodMoves DEF Moved, Shut
  <1>2. status' # status
    OBVIOUS
  <1> QED
    BY <1>1, <1>2
       DEF Next, vars, AddJournal, AddLateJournal, Enter, EditJournal, DeleteJournal,
           PostJournal, UnpostJournal, UnpostOpening, PostOpening

\* What a closing leaves in the period: no result ...
LEMMA WrittenClears ==
    ASSUME NEW b \in BalancedLines, NEW row \in Int
    PROVE  Result(Plus(b, Plus(IncomeLines(b), CapitalLines(row)))) = 0
  <1>1. /\ b["sales"] \in Int /\ b["expense"] \in Int
        /\ Result(b) = b["sales"] + b["expense"]
    BY DEF BalancedLines, Lines, Accounts, Result
  <1> DEFINE w == Plus(IncomeLines(b), CapitalLines(row))
  <1>2. /\ w["sales"] = IF Result(b) = 0 THEN 0 ELSE -b["sales"]
        /\ w["expense"] = IF Result(b) = 0 THEN 0 ELSE -b["expense"]
    BY <1>1 DEF Plus, IncomeLines, CapitalLines, Zero, Accounts, IncomeStatement
  <1>3. Plus(b, w)["sales"] = b["sales"] + w["sales"] /\ Plus(b, w)["expense"] = b["expense"] + w["expense"]
    BY DEF Plus, Accounts
  <1> HIDE DEF w
  <1>4. Plus(b, w)["sales"] + Plus(b, w)["expense"] = 0
    BY <1>1, <1>2, <1>3
  <1> QED
    BY <1>4 DEF Result, w

\* ... and a balance sheet that is carried over as it is.
LEMMA CarriedAsItIs ==
    ASSUME NEW c \in BalancedLines, Result(c) = 0, NEW a \in Accounts \ IncomeStatement
    PROVE  OpeningLines(c)[a] = c[a]
  <1>1. Total(c) = 0 /\ c[a] \in Int
    BY DEF BalancedLines, Lines
  <1> QED
    BY <1>1 DEF OpeningLines

LEMMA CloseCarries ==
    ASSUME ~StalePages, BalancedLedger, Tidy, NEW p \in Periods, Close(p)
    PROVE  /\ Result(balance'[p]) = 0
           /\ \A a \in Accounts \ IncomeStatement :
                 opening'[p + 1][a] + unopened'[p + 1][a] = balance'[p][a]
  <1> DEFINE b == balance[p]
             row == IF Result(b) # 0 THEN Result(b) ELSE summaries[p]
             written == Plus(IncomeLines(b), CapitalLines(row))
             carried == Carried(b, written)
             after == Plus(b, written)
  <1>1. /\ opening' = AddTo(opening, p + 1, carried) /\ unopened' = unopened
        /\ balance' = AddTo(AddTo(balance, p, written), p + 1, carried)
        /\ p + 1 \in Periods
    BY DEF Close
  <1>2. opening[p + 1] = Zero /\ unopened[p + 1] = Zero
    BY <1>1, FreshPeriod DEF Close, Tidy, NothingOpened
  <1>3. b \in BalancedLines /\ row \in Int
    BY BookLines, ResultIsAnAmount DEF BalancedLedger
  <1>4. written \in BalancedLines /\ after \in BalancedLines
    BY <1>3, ClosingBalances, PlusBalances
  <1>5. Result(after) = 0
    BY <1>3, WrittenClears
  <1>6. \A a \in Accounts \ IncomeStatement : carried[a] = after[a] /\ after[a] \in Int
    BY <1>4, <1>5, CarriedAsItIs DEF Carried, BalancedLines, Lines
  <1>7. carried = OpeningLines(after)
    BY DEF Carried
  <1> HIDE DEF written, carried
  <1>8. balance'[p] = after
    <2>1. AddTo(balance, p, written) \in BalancedBooks
      BY <1>4, AddToBalances DEF BalancedLedger
    <2>2. p # p + 1
      BY DEF Periods
    <2>3. balance'[p] = AddTo(balance, p, written)[p]
      BY <1>1, <2>1, <2>2, OthersKept
    <2> QED
      BY <2>3 DEF AddTo, BalancedLedger, BalancedBooks
  <1>9. opening'[p + 1] = Plus(Zero, carried) /\ unopened'[p + 1] = Zero
    BY <1>1, <1>2 DEF AddTo, BalancedLedger, BalancedBooks
  <1>10. ASSUME NEW a \in Accounts \ IncomeStatement
         PROVE  opening'[p + 1][a] + unopened'[p + 1][a] = balance'[p][a]
    <2>1. Plus(Zero, carried)[a] = 0 + carried[a] /\ Zero[a] = 0
      BY DEF Plus, Zero
    <2>2. carried[a] = after[a] /\ after[a] \in Int
      BY <1>6
    <2> HIDE DEF after
    <2> QED
      BY <1>8, <1>9, <2>1, <2>2
  <1> QED
    BY <1>5, <1>8, <1>10

ClosedPeriods == NoBatchedInClosed /\ OpeningCarriesClosing /\ ResultCleared

LEMMA InitClosedPeriods == Init => ClosedPeriods
  BY DEF Init, ClosedPeriods, NoBatchedInClosed, OpeningCarriesClosing, ResultCleared

LEMMA NextClosedPeriods ==
    ASSUME ~StalePages, ~LateEntries, BalancedLedger, Tidy, ClosedPeriods, [Next]_vars
    PROVE  ClosedPeriods'
  <1>1. NoBatchedInClosed'
    BY NextNoBatched DEF ClosedPeriods
  <1>2. ASSUME NEW q \in Periods, status'[q] = "CLOSED"
        PROVE  /\ Result(balance'[q]) = 0
               /\ \A a \in Accounts \ IncomeStatement :
                     opening'[q + 1][a] + unopened'[q + 1][a] = balance'[q][a]
    <2>1. CASE status[q] = "CLOSED"
      <3>1. Kept(q)
        BY <1>2, <2>1, ClosedIsKept DEF ClosedPeriods
      <3> QED
        BY <2>1, <3>1 DEF Kept, ClosedPeriods, OpeningCarriesClosing, ResultCleared
    <2>2. CASE status[q] # "CLOSED"
      BY <1>2, <2>2, NewlyClosed, CloseCarries
    <2> QED
      BY <2>1, <2>2
  <1> QED
    BY <1>1, <1>2 DEF ClosedPeriods, OpeningCarriesClosing, ResultCleared

Quiet == ~StalePages /\ ~LateEntries

\* The invariant of the ledger while pages are up to date and entries late
\* for their period are refused.
QuietLedger == BalancedLedger /\ (Quiet => Tidy /\ ClosedPeriods)

LEMMA AlwaysQuiet == Spec => []QuietLedger
  <1>1. Init => QuietLedger
    BY InitBalanced, InitTidy, InitClosedPeriods DEF QuietLedger
  <1>2. QuietLedger /\ [Next]_vars => QuietLedger'
    BY NextBalanced, NextTidy, NextClosedPeriods DEF QuietLedger, Quiet
  <1> QED
    BY <1>1, <1>2, PTL DEF Spec

\* No closed period has a journal waiting to be posted.
THEOREM NothingBatchedInClosed == Spec => [](~StalePages /\ ~LateEntries => NoBatchedInClosed)
  <1>1. QuietLedger => (~StalePages /\ ~LateEntries => NoBatchedInClosed)
    BY DEF QuietLedger, Quiet, ClosedPeriods
  <1> QED
    BY <1>1, AlwaysQuiet, PTL

\* Every closed period's balance sheet is what the next one opens with,
\* however often periods are closed and opened again.
THEOREM OpeningIsCarried == Spec => [](~StalePages /\ ~LateEntries => OpeningCarriesClosing)
  <1>1. QuietLedger => (~StalePages /\ ~LateEntries => OpeningCarriesClosing)
    BY DEF QuietLedger, Quiet, ClosedPeriods
  <1> QED
    BY <1>1, AlwaysQuiet, PTL

\* A closed period shows no result of its own.
THEOREM ResultIsCleared == Spec => [](~StalePages /\ ~LateEntries => ResultCleared)
  <1>1. QuietLedger => (~StalePages /\ ~LateEntries => ResultCleared)
    BY DEF QuietLedger, Quiet, ClosedPeriods
  <1> QED
    BY <1>1, AlwaysQuiet, PTL

\* The balances of a closed period move only when it is opened again.
THEOREM ClosedStaysFrozen ==
    ASSUME ~StalePages, ~LateEntries
    PROVE  Spec => ClosedFrozen
  <1>1. QuietLedger /\ [Next]_vars =>
           [\A p \in Periods : status[p] = "CLOSED" /\ status'[p] = "CLOSED"
                => balance'[p] = balance[p]]_vars
    BY ClosedIsKept DEF QuietLedger, Quiet, ClosedPeriods, Kept
  <1> QED
    BY <1>1, AlwaysQuiet, PTL DEF Spec, ClosedFrozen
----------------------------------------------------------------------------
(* The balances are what the journals amount to, while pages are up to date: *)
(* what is posted, unposted or undone is on the accounts exactly once.       *)

LEMMA BookAmount ==
    ASSUME NEW book \in BalancedBooks, NEW q \in Periods, NEW a \in Accounts
    PROVE  book[q][a] \in Int
  BY DEF BalancedBooks, BalancedLines, Lines

LEMMA BookChanges ==
    ASSUME NEW book \in BalancedBooks, NEW p, NEW f, NEW q \in Periods, NEW a \in Accounts
    PROVE  /\ AddTo(book, p, f)[q][a] = IF q = p THEN book[q][a] + f[a] ELSE book[q][a]
           /\ TakeFrom(book, p, f)[q][a] = IF q = p THEN book[q][a] - f[a] ELSE book[q][a]
  BY DEF AddTo, TakeFrom, Plus, Minus, BalancedBooks

LEMMA BookCleared ==
    ASSUME NEW book \in BalancedBooks, NEW p, NEW q \in Periods, NEW a \in Accounts
    PROVE  Cleared(book, p)[q][a] = IF q = p THEN 0 ELSE book[q][a]
  BY DEF Cleared, Zero, BalancedBooks

PostedSum(p, a) == SumFunction([j \in PostedIn(p) |-> j.lines[a]])

LEMMA PostedAmount ==
    ASSUME BalancedLedger, IsFiniteSet(journals), NEW p, NEW a \in Accounts
    PROVE  /\ IsFiniteSet(PostedIn(p))
           /\ [j \in PostedIn(p) |-> j.lines[a]] \in [PostedIn(p) -> Int]
           /\ PostedSum(p, a) \in Int
  <1>1. IsFiniteSet(PostedIn(p))
    BY FS_Subset DEF PostedIn
  <1>2. \A j \in journals : j.lines[a] \in Int
    BY DEF BalancedLedger, BalancedLines, Lines
  <1>3. [j \in PostedIn(p) |-> j.lines[a]] \in [PostedIn(p) -> Int]
    BY <1>2 DEF PostedIn
  <1> QED
    BY <1>1, <1>3, SumFunctionInt DEF PostedSum

LEMMA SamePosted ==
    ASSUME NEW p, NEW a, PostedIn(p)' = PostedIn(p)
    PROVE  PostedSum(p, a)' = PostedSum(p, a)
  BY DEF PostedSum

\* What a journal that is posted, or no longer, does to the sums.
LEMMA PostedMore ==
    ASSUME BalancedLedger, IsFiniteSet(journals), NEW p, NEW a \in Accounts,
           NEW new \in JournalEntry, new.lines[a] \in Int,
           new \notin PostedIn(p), PostedIn(p)' = PostedIn(p) \cup {new}
    PROVE  PostedSum(p, a)' = PostedSum(p, a) + new.lines[a]
  <1> DEFINE S == PostedIn(p)
             f == [j \in S |-> j.lines[a]]
             g == [j \in S \cup {new} |-> j.lines[a]]
  <1>1. IsFiniteSet(S) /\ f \in [S -> Int] /\ \A j \in S : f[j] \in Int
    BY PostedAmount
  <1>2. PostedSum(p, a)' = SumFunction(g) /\ PostedSum(p, a) = SumFunction(f)
    BY DEF PostedSum
  <1>3. new \notin S /\ g[new] = new.lines[a] /\ \A j \in S : g[j] = f[j]
    OBVIOUS
  <1>4. g \in [S \cup {new} -> Int]
    BY <1>1
  <1> HIDE DEF S, f, g
  <1>5. SumFunction(g) = SumFunction(f) + g[new]
    BY ONLY <1>1, <1>3, <1>4, SumFunctionJoined
  <1> QED
    BY <1>2, <1>3, <1>5

LEMMA PostedLess ==
    ASSUME BalancedLedger, IsFiniteSet(journals), NEW p, NEW a \in Accounts,
           NEW j \in PostedIn(p), PostedIn(p)' = PostedIn(p) \ {j}
    PROVE  PostedSum(p, a)' = PostedSum(p, a) - j.lines[a]
  <1> DEFINE S == PostedIn(p)
             R == S \ {j}
             f == [k \in S |-> k.lines[a]]
             g == [k \in R |-> k.lines[a]]
  <1>1. IsFiniteSet(S) /\ f \in [S -> Int] /\ \A k \in S : f[k] \in Int
    BY PostedAmount
  <1>2. PostedSum(p, a)' = SumFunction(g) /\ PostedSum(p, a) = SumFunction(f)
    BY DEF PostedSum
  <1>3. j \in S /\ R = S \ {j} /\ f[j] = j.lines[a] /\ \A k \in R : g[k] = f[k]
    OBVIOUS
  <1>4. g \in [R -> Int]
    BY <1>1
  <1> HIDE DEF S, R, f, g
  <1>5. SumFunction(g) = SumFunction(f) - f[j]
    BY ONLY <1>1, <1>3, <1>4, SumFunctionWithout
  <1> QED
    BY <1>2, <1>3, <1>5

Matching ==
    /\ IsFiniteSet(journals)
    /\ \A p \in Periods, a \in Accounts :
          balance[p][a] = PostedSum(p, a) + auto[p][a] + closing[p][a] + opening[p][a]

\* What a request moves in the books of the program it moves on the accounts.
LEMMA BooksMatch ==
    ASSUME BalancedLedger, BalancedLedger', Matching, journals' = journals,
           \A p \in Periods, a \in Accounts :
              balance'[p][a] - balance[p][a] =
                 (auto'[p][a] - auto[p][a]) + (closing'[p][a] - closing[p][a])
                 + (opening'[p][a] - opening[p][a])
    PROVE  Matching'
  <1> SUFFICES ASSUME NEW p \in Periods, NEW a \in Accounts
               PROVE  balance'[p][a] = PostedSum(p, a)' + auto'[p][a] + closing'[p][a] + opening'[p][a]
    BY DEF Matching
  <1>1. PostedSum(p, a)' = PostedSum(p, a)
    BY SamePosted DEF PostedIn
  <1>2. PostedSum(p, a) \in Int
    BY PostedAmount DEF Matching
  <1>3. /\ balance[p][a] \in Int /\ auto[p][a] \in Int /\ closing[p][a] \in Int
        /\ opening[p][a] \in Int
    BY BookAmount DEF BalancedLedger
  <1>4. /\ balance'[p][a] \in Int /\ auto'[p][a] \in Int /\ closing'[p][a] \in Int
        /\ opening'[p][a] \in Int
    BY BookAmount DEF BalancedLedger
  <1>5. balance[p][a] = PostedSum(p, a) + auto[p][a] + closing[p][a] + opening[p][a]
    BY DEF Matching
  <1>6. balance'[p][a] - balance[p][a] =
           (auto'[p][a] - auto[p][a]) + (closing'[p][a] - closing[p][a])
           + (opening'[p][a] - opening[p][a])
    OBVIOUS
  <1> QED
    BY ONLY <1>1, <1>2, <1>3, <1>4, <1>5, <1>6

\* Journals that are not posted may come, go and change.
LEMMA UnpostedMatch ==
    ASSUME BalancedLedger, Matching, UNCHANGED <<balance, auto, closing, opening>>,
           IsFiniteSet(journals'),
           \A p \in Periods : PostedIn(p)' = PostedIn(p)
    PROVE  Matching'
  BY SamePosted DEF Matching

LEMMA EnterMatch ==
    ASSUME BalancedLedger, Matching, BatchingType # "ABSENT",
           NEW p \in Periods, NEW lines, NEW source, Enter(p, lines, source)
    PROVE  Matching'
  <1> DEFINE new == [id |-> nextJournal, period |-> p, source |-> source, lines |-> lines,
                     status |-> IF BatchingType = "ALL" THEN "BATCHED" ELSE ""]
  <1>1. journals' = journals \cup {new} /\ UNCHANGED <<balance, auto, closing, opening>>
    BY DEF Enter
  <1>2. new.status # "POSTED"
    OBVIOUS
  <1> HIDE DEF new
  <1>3. IsFiniteSet(journals')
    BY <1>1, FS_AddElement DEF Matching
  <1>4. \A q \in Periods : PostedIn(q)' = PostedIn(q)
    BY <1>1, <1>2 DEF PostedIn
  <1> QED
    BY <1>1, <1>3, <1>4, UnpostedMatch

LEMMA ChangedFinite ==
    ASSUME IsFiniteSet(journals), NEW j \in journals, NEW new, Changed(j, new)
    PROVE  IsFiniteSet(journals')
  BY FS_RemoveElement, FS_AddElement DEF Changed

LEMMA EditMatch ==
    ASSUME BalancedLedger, Matching, Tidy, ~StalePages,
           NEW j \in journals, NEW p \in Periods, NEW lines \in Entries, EditJournal(j, p, lines)
    PROVE  Matching'
  <1> DEFINE new == [j EXCEPT !.period = p, !.lines = lines, !.status = "BATCHED"]
  <1>1. Changed(j, new) /\ UNCHANGED books /\ j.status = "BATCHED"
    BY FreshJournal DEF EditJournal, Tidy
  <1>2. j \in JournalEntry
    BY DEF BalancedLedger
  <1>3. new.status = "BATCHED"
    BY <1>2 DEF JournalEntry
  <1> HIDE DEF new
  <1>4. \A q \in Periods : PostedIn(q)' = PostedIn(q)
    BY <1>1, <1>3 DEF PostedIn, Changed
  <1> QED
    BY <1>1, <1>4, ChangedFinite, UnpostedMatch DEF Matching, books

LEMMA DeleteMatch ==
    ASSUME BalancedLedger, Matching, Tidy, ~StalePages, NEW j \in journals, DeleteJournal(j)
    PROVE  Matching'
  <1>1. journals' = journals \ {j} /\ UNCHANGED books
    BY DEF DeleteJournal
  <1>2. j.status # "POSTED"
    BY DEF DeleteJournal, Requested, Offers, Tidy, UniqueIds
  <1>3. IsFiniteSet(journals')
    BY <1>1, FS_RemoveElement DEF Matching
  <1>4. \A q \in Periods : PostedIn(q)' = PostedIn(q)
    BY <1>1, <1>2 DEF PostedIn
  <1> QED
    BY <1>1, <1>3, <1>4, UnpostedMatch DEF books

LEMMA PostMatch ==
    ASSUME BalancedLedger, Matching, Tidy, ~StalePages, NEW j \in journals, PostJournal(j)
    PROVE  Matching'
  <1> DEFINE new == [j EXCEPT !.status = "POSTED"]
  <1>1. /\ Changed(j, new) /\ j.status = "BATCHED"
        /\ balance' = AddTo(balance, j.period, j.lines)
        /\ UNCHANGED <<auto, closing, opening>>
    BY FreshJournal DEF PostJournal, Tidy
  <1>2. j \in JournalEntry /\ j.period \in Periods /\ j.lines \in BalancedLines
    BY DEF BalancedLedger, JournalEntry
  <1>3. /\ new \in JournalEntry /\ new.status = "POSTED" /\ new.id = j.id
        /\ new.period = j.period /\ new.lines = j.lines
    BY <1>2 DEF JournalEntry
  <1> HIDE DEF new
  <1>4. new \notin journals
    BY <1>1, <1>3 DEF Tidy, UniqueIds
  <1>5. PostedIn(j.period)' = PostedIn(j.period) \cup {new} /\ new \notin PostedIn(j.period)
    BY <1>1, <1>3, <1>4 DEF PostedIn, Changed
  <1>6. \A q \in Periods \ {j.period} : PostedIn(q)' = PostedIn(q)
    BY <1>1, <1>3 DEF PostedIn, Changed
  <1>7. ASSUME NEW q \in Periods, NEW a \in Accounts
        PROVE  balance'[q][a] = PostedSum(q, a)' + auto'[q][a] + closing'[q][a] + opening'[q][a]
    <2>1. balance'[q][a] = IF q = j.period THEN balance[q][a] + j.lines[a] ELSE balance[q][a]
      BY <1>1, BookChanges DEF BalancedLedger
    <2>2. j.lines[a] \in Int /\ PostedSum(q, a) \in Int
      BY <1>2, PostedAmount DEF BalancedLines, Lines, Matching
    <2>3. PostedSum(q, a)' = IF q = j.period THEN PostedSum(q, a) + j.lines[a] ELSE PostedSum(q, a)
      BY <1>3, <1>5, <1>6, <2>2, PostedMore, SamePosted DEF Matching
    <2>4. auto[q][a] \in Int /\ closing[q][a] \in Int /\ opening[q][a] \in Int
      BY BookAmount DEF BalancedLedger
    <2>5. balance[q][a] = PostedSum(q, a) + auto[q][a] + closing[q][a] + opening[q][a]
      BY DEF Matching
    <2> QED
      BY <1>1, <2>1, <2>2, <2>3, <2>4, <2>5
  <1> QED
    BY <1>1, <1>7, ChangedFinite DEF Matching

LEMMA UnpostMatch ==
    ASSUME BalancedLedger, Matching, NEW j \in journals, UnpostJournal(j)
    PROVE  Matching'
  <1> DEFINE new == [j EXCEPT !.status = "BATCHED"]
  <1>1. /\ Changed(j, new) /\ j.status = "POSTED"
        /\ balance' = TakeFrom(balance, j.period, j.lines)
        /\ UNCHANGED <<auto, closing, opening>>
    BY DEF UnpostJournal
  <1>2. j \in JournalEntry /\ j.period \in Periods /\ j.lines \in BalancedLines
    BY DEF BalancedLedger, JournalEntry
  <1>3. new.status = "BATCHED"
    BY <1>2 DEF JournalEntry
  <1> HIDE DEF new
  <1>4. PostedIn(j.period)' = PostedIn(j.period) \ {j} /\ j \in PostedIn(j.period)
    BY <1>1, <1>3 DEF PostedIn, Changed
  <1>5. \A q \in Periods \ {j.period} : PostedIn(q)' = PostedIn(q)
    BY <1>1, <1>3 DEF PostedIn, Changed
  <1>6. ASSUME NEW q \in Periods, NEW a \in Accounts
        PROVE  balance'[q][a] = PostedSum(q, a)' + auto'[q][a] + closing'[q][a] + opening'[q][a]
    <2>1. balance'[q][a] = IF q = j.period THEN balance[q][a] - j.lines[a] ELSE balance[q][a]
      BY <1>1, BookChanges DEF BalancedLedger
    <2>2. j.lines[a] \in Int /\ PostedSum(q, a) \in Int
      BY <1>2, PostedAmount DEF BalancedLines, Lines, Matching
    <2>3. PostedSum(q, a)' = IF q = j.period THEN PostedSum(q, a) - j.lines[a] ELSE PostedSum(q, a)
      BY <1>4, <1>5, PostedLess, SamePosted DEF Matching
    <2>4. auto[q][a] \in Int /\ closing[q][a] \in Int /\ opening[q][a] \in Int
      BY BookAmount DEF BalancedLedger
    <2>5. balance[q][a] = PostedSum(q, a) + auto[q][a] + closing[q][a] + opening[q][a]
      BY DEF Matching
    <2> QED
      BY <1>1, <2>1, <2>2, <2>3, <2>4, <2>5
  <1> QED
    BY <1>1, <1>6, ChangedFinite DEF Matching

LEMMA OpeningJournalMatch ==
    ASSUME BalancedLedger, BalancedLedger', Matching, ~StalePages,
           NEW p \in Periods, UnpostOpening(p) \/ PostOpening(p)
    PROVE  Matching'
  <1>1. UNCHANGED <<journals, auto, closing>>
    BY DEF UnpostOpening, PostOpening
  <1>2. ASSUME NEW q \in Periods, NEW a \in Accounts
        PROVE  balance'[q][a] - balance[q][a] = opening'[q][a] - opening[q][a]
    <2>1. /\ balance[q][a] \in Int /\ opening[q][a] \in Int /\ unopened[q][a] \in Int
      BY BookAmount DEF BalancedLedger
    <2>2. CASE UnpostOpening(p)
      <3>1. /\ balance' = TakeFrom(balance, p, opening[p])
            /\ opening' = [opening EXCEPT ![p] = Zero]
        BY <2>2 DEF UnpostOpening
      <3>2. balance'[q][a] = IF q = p THEN balance[q][a] - opening[q][a] ELSE balance[q][a]
        BY <3>1, BookChanges DEF BalancedLedger
      <3>3. opening'[q][a] = IF q = p THEN 0 ELSE opening[q][a]
        BY <3>1 DEF Zero, BalancedLedger, BalancedBooks
      <3> QED
        BY <2>1, <3>2, <3>3
    <2>3. CASE PostOpening(p)
      <3>1. /\ balance' = AddTo(balance, p, unopened[p])
            /\ opening' = AddTo(opening, p, unopened[p])
        BY <2>3, FreshPeriod DEF PostOpening
      <3>2. balance'[q][a] = IF q = p THEN balance[q][a] + unopened[q][a] ELSE balance[q][a]
        BY <3>1, BookChanges DEF BalancedLedger
      <3>3. opening'[q][a] = IF q = p THEN opening[q][a] + unopened[q][a] ELSE opening[q][a]
        BY <3>1, BookChanges DEF BalancedLedger
      <3> QED
        BY <2>1, <3>2, <3>3
    <2> QED
      BY <2>2, <2>3
  <1>3. ASSUME NEW q \in Periods, NEW a \in Accounts
        PROVE  balance'[q][a] - balance[q][a] =
                  (auto'[q][a] - auto[q][a]) + (closing'[q][a] - closing[q][a])
                  + (opening'[q][a] - opening[q][a])
    <2>1. /\ balance[q][a] \in Int /\ opening[q][a] \in Int
          /\ auto[q][a] \in Int /\ closing[q][a] \in Int
      BY BookAmount DEF BalancedLedger
    <2>2. balance'[q][a] \in Int /\ opening'[q][a] \in Int
      BY BookAmount DEF BalancedLedger
    <2>3. auto'[q][a] = auto[q][a] /\ closing'[q][a] = closing[q][a]
      BY <1>1
    <2> QED
      BY <1>2, <2>1, <2>2, <2>3
  <1> QED
    BY <1>1, <1>3, BooksMatch

LEMMA PrecloseMatch ==
    ASSUME BalancedLedger, BalancedLedger', Matching, NEW p \in Periods, Preclose(p)
    PROVE  Matching'
  <1>1. /\ auto' = AddTo(auto, p, Depreciation) /\ balance' = AddTo(balance, p, Depreciation)
        /\ UNCHANGED <<journals, closing, opening>>
    BY DEF Preclose
  <1>2. ASSUME NEW q \in Periods, NEW a \in Accounts
        PROVE  balance'[q][a] - balance[q][a] =
                  (auto'[q][a] - auto[q][a]) + (closing'[q][a] - closing[q][a])
                  + (opening'[q][a] - opening[q][a])
    <2>1. /\ balance[q][a] \in Int /\ opening[q][a] \in Int
          /\ auto[q][a] \in Int /\ closing[q][a] \in Int /\ Depreciation[a] \in Int
      BY BookAmount, DepreciationBalances DEF BalancedLedger, BalancedLines, Lines
    <2>2. balance'[q][a] = IF q = p THEN balance[q][a] + Depreciation[a] ELSE balance[q][a]
      BY <1>1, BookChanges DEF BalancedLedger
    <2>3. auto'[q][a] = IF q = p THEN auto[q][a] + Depreciation[a] ELSE auto[q][a]
      BY <1>1, BookChanges DEF BalancedLedger
    <2>4. closing'[q][a] = closing[q][a] /\ opening'[q][a] = opening[q][a]
      BY <1>1
    <2> QED
      <3>1. CASE q = p
        BY <2>1, <2>2, <2>3, <2>4, <3>1
      <3>2. CASE q # p
        BY <2>1, <2>2, <2>3, <2>4, <3>2
      <3> QED
        BY <3>1, <3>2
  <1> QED
    BY <1>1, <1>2, BooksMatch

LEMMA CloseMatch ==
    ASSUME BalancedLedger, BalancedLedger', Matching, NEW p \in Periods, Close(p)
    PROVE  Matching'
  <1> DEFINE row == IF Result(balance[p]) # 0 THEN Result(balance[p]) ELSE summaries[p]
             written == Plus(IncomeLines(balance[p]), CapitalLines(row))
             carried == Carried(balance[p], written)
  <1>1. /\ closing' = AddTo(closing, p, written)
        /\ opening' = AddTo(opening, p + 1, carried)
        /\ balance' = AddTo(AddTo(balance, p, written), p + 1, carried)
        /\ p + 1 \in Periods
        /\ UNCHANGED <<journals, auto>>
    BY DEF Close
  <1>2. balance[p] \in BalancedLines /\ row \in Int
    BY BookLines, ResultIsAnAmount DEF BalancedLedger
  <1>3. written \in BalancedLines /\ carried \in BalancedLines
    BY <1>2, ClosingBalances
  <1> HIDE DEF written, carried
  <1>4. ASSUME NEW q \in Periods, NEW a \in Accounts
        PROVE  balance'[q][a] - balance[q][a] =
                  (auto'[q][a] - auto[q][a]) + (closing'[q][a] - closing[q][a])
                  + (opening'[q][a] - opening[q][a])
    <2>1. /\ balance[q][a] \in Int /\ opening[q][a] \in Int
          /\ auto[q][a] \in Int /\ closing[q][a] \in Int
          /\ written[a] \in Int /\ carried[a] \in Int
      BY <1>3, BookAmount DEF BalancedLedger, BalancedLines, Lines
    <2>2. AddTo(balance, p, written) \in BalancedBooks
      BY <1>3, AddToBalances DEF BalancedLedger
    <2>3. AddTo(balance, p, written)[q][a] =
             IF q = p THEN balance[q][a] + written[a] ELSE balance[q][a]
      BY BookChanges DEF BalancedLedger
    <2>4. balance'[q][a] = IF q = p + 1 THEN AddTo(balance, p, written)[q][a] + carried[a]
                           ELSE AddTo(balance, p, written)[q][a]
      BY <1>1, <2>2, BookChanges
    <2>5. closing'[q][a] = IF q = p THEN closing[q][a] + written[a] ELSE closing[q][a]
      BY <1>1, BookChanges DEF BalancedLedger
    <2>6. opening'[q][a] = IF q = p + 1 THEN opening[q][a] + carried[a] ELSE opening[q][a]
      BY <1>1, BookChanges DEF BalancedLedger
    <2>7. auto'[q][a] = auto[q][a]
      BY <1>1
    <2> QED
      BY <2>1, <2>3, <2>4, <2>5, <2>6, <2>7
  <1> QED
    BY <1>1, <1>4, BooksMatch

LEMMA OpenMatch ==
    ASSUME BalancedLedger, BalancedLedger', Matching, NEW p \in Periods, Open(p)
    PROVE  Matching'
  <1>1. /\ balance' = Reversed(p) /\ auto' = Cleared(auto, p)
        /\ closing' = Cleared(closing, p) /\ opening' = Cleared(opening, p + 1)
        /\ UNCHANGED journals
    BY DEF Open
  <1>2. ASSUME NEW q \in Periods, NEW a \in Accounts
        PROVE  balance'[q][a] - balance[q][a] =
                  (auto'[q][a] - auto[q][a]) + (closing'[q][a] - closing[q][a])
                  + (opening'[q][a] - opening[q][a])
    <2>1. /\ balance[q][a] \in Int /\ opening[q][a] \in Int
          /\ auto[q][a] \in Int /\ closing[q][a] \in Int
      BY BookAmount DEF BalancedLedger
    <2>2. balance'[q][a] =
             IF q = p THEN balance[q][a] - auto[q][a] - closing[q][a]
             ELSE IF q = p + 1 THEN balance[q][a] - opening[q][a] ELSE balance[q][a]
      BY <1>1 DEF Reversed, Minus
    <2>3. auto'[q][a] = IF q = p THEN 0 ELSE auto[q][a]
      BY <1>1, BookCleared DEF BalancedLedger
    <2>4. closing'[q][a] = IF q = p THEN 0 ELSE closing[q][a]
      BY <1>1, BookCleared DEF BalancedLedger
    <2>5. opening'[q][a] = IF q = p + 1 THEN 0 ELSE opening[q][a]
      BY <1>1, BookCleared DEF BalancedLedger
    <2>6. p # p + 1
      BY DEF Periods
    <2> QED
      BY <2>1, <2>2, <2>3, <2>4, <2>5, <2>6
  <1> QED
    BY <1>1, <1>2, BooksMatch

LEMMA NextMatch ==
    ASSUME ~StalePages, BatchingType # "ABSENT",
           BalancedLedger, BalancedLedger', Tidy, Matching, [Next]_vars
    PROVE  Matching'
  <1>1. CASE \E p \in Periods, lines \in Entries : AddJournal(p, lines)
    BY <1>1, EnterMatch DEF AddJournal
  <1>2. CASE \E p \in Periods, lines \in Entries, source \in {"STANDARD", "RECURRING"} :
                AddLateJournal(p, lines, source)
    BY <1>2, EnterMatch DEF AddLateJournal
  <1>3. CASE \E j \in journals, p \in Periods, lines \in Entries : EditJournal(j, p, lines)
    BY <1>3, EditMatch
  <1>4. CASE \E j \in journals : DeleteJournal(j)
    BY <1>4, DeleteMatch
  <1>5. CASE \E j \in journals : PostJournal(j)
    BY <1>5, PostMatch
  <1>6. CASE \E j \in journals : UnpostJournal(j)
    BY <1>6, UnpostMatch
  <1>7. CASE \E p \in Periods : UnpostOpening(p) \/ PostOpening(p)
    BY <1>7, OpeningJournalMatch
  <1>8. CASE \E p \in Periods : Preclose(p)
    BY <1>8, PrecloseMatch
  <1>9. CASE \E p \in Periods : Close(p)
    BY <1>9, CloseMatch
  <1>10. CASE \E p \in Periods : Open(p)
    BY <1>10, OpenMatch
  <1>11. CASE UNCHANGED vars
    BY <1>11, UnpostedMatch DEF vars, books, Matching, PostedIn
  <1> QED
    BY <1>1, <1>2, <1>3, <1>4, <1>5, <1>6, <1>7, <1>8, <1>9, <1>10, <1>11 DEF Next

LEMMA InitMatch == Init => Matching
  <1> SUFFICES ASSUME Init PROVE Matching
    OBVIOUS
  <1>1. IsFiniteSet(journals) /\ \A p \in Periods : PostedIn(p) = {}
    BY FS_EmptySet DEF Init, PostedIn
  <1>2. \A p \in Periods, a \in Accounts : PostedSum(p, a) = 0
    BY <1>1, FS_EmptySet, SumFunctionZero DEF PostedSum
  <1>3. \A p \in Periods, a \in Accounts :
           balance[p][a] = 0 /\ auto[p][a] = 0 /\ closing[p][a] = 0 /\ opening[p][a] = 0
    BY DEF Init, Zero
  <1> QED
    BY <1>1, <1>2, <1>3 DEF Matching

\* The balances, which are never computed again from the journals, are what
\* the posted journals and the journals of the program amount to, as long as
\* pages are up to date; with late entries into any period, too.  Without a
\* JournalEntryConfiguration journals are booked and never marked as posted.
THEOREM BalancesAreTheJournals ==
    Spec => [](~StalePages /\ BatchingType # "ABSENT" => BalancesMatchJournals)
  <1> DEFINE Booking == ~StalePages /\ BatchingType # "ABSENT"
             Inv == (~StalePages => Tidy) /\ (Booking => Matching)
  <1>1. Init => Inv
    BY InitTidy, InitMatch
  <1>2. BalancedLedger /\ BalancedLedger' /\ Inv /\ [Next]_vars => Inv'
    BY NextTidy, NextMatch
  <1>3. Inv => (Booking => BalancesMatchJournals)
    BY DEF Matching, PostedSum, BalancesMatchJournals, Booked
  <1> QED
    BY <1>1, <1>2, <1>3, AlwaysBalanced, PTL DEF Spec
----------------------------------------------------------------------------
(* The asset register, while pages are up to date: a shut period has written *)
(* off one unit of an asset that lives longer than there are periods.        *)

WrittenOff(p) == auto[p]["asset"]
Register ==
    /\ \A p \in Periods : WrittenOff(p) = IF status[p] \in Shut THEN -1 ELSE 0
    /\ asset.accumulated = -SumFunction([p \in Periods |-> WrittenOff(p)])
    /\ asset.life + asset.accumulated = MaxLife

LEMMA RegisterSums ==
    ASSUME BalancedLedger
    PROVE  /\ IsFiniteSet(Periods) /\ Cardinality(Periods) = LastPeriod
           /\ [p \in Periods |-> WrittenOff(p)] \in [Periods -> Int]
  <1>1. IsFiniteSet(Periods) /\ Cardinality(Periods) = LastPeriod
    BY FS_Interval, PeriodAssumption DEF Periods
  <1>2. "asset" \in Accounts
    BY DEF Accounts
  <1> QED
    BY <1>1, <1>2, BookAmount DEF WrittenOff, BalancedLedger

\* The asset outlives the periods.
LEMMA LifeRemains ==
    ASSUME BalancedLedger, Register, MaxLife > LastPeriod
    PROVE  /\ asset.life \in Int /\ asset.accumulated \in Int
           /\ asset.life > 0 /\ asset.accumulated >= 0 /\ asset.life <= MaxLife
           /\ \A p \in Periods : status[p] \in Shut => asset.accumulated > 0
  <1> DEFINE f == [p \in Periods |-> WrittenOff(p)]
  <1>1. IsFiniteSet(Periods) /\ Cardinality(Periods) = LastPeriod /\ f \in [Periods -> Int]
    BY RegisterSums
  <1>2. \A p \in Periods : f[p] >= -1
    BY DEF Register
  <1>3. asset.life \in Int /\ asset.accumulated \in Nat /\ MaxLife \in Int /\ LastPeriod \in Int
    BY LedgerBounds, PeriodAssumption DEF BalancedLedger, FixedAsset
  <1>4. asset.accumulated = -SumFunction(f)
    BY DEF Register
  <1>5. ASSUME NEW p \in Periods, status[p] \in Shut PROVE asset.accumulated > 0
    <2> DEFINE g == [q \in Periods |-> IF q = p THEN -1 ELSE 0]
               zero == [q \in Periods |-> 0]
    <2>1. \A q \in Periods : f[q] \in Int /\ g[q] \in Int /\ f[q] <= g[q]
      BY <1>1, <1>5 DEF Register
    <2>2. \A q \in Periods : g[q] \in Int /\ zero[q] \in Int
      OBVIOUS
    <2>3. g[p] = -1 /\ zero[p] = 0 /\ \A q \in Periods \ {p} : g[q] = zero[q]
      OBVIOUS
    <2>4. \A q \in Periods : zero[q] = 0
      OBVIOUS
    <2> HIDE DEF f, g, zero
    <2>5. SumFunctionOnSet(zero, Periods) = 0
      BY ONLY <1>1, <2>4, SumZeros
    <2>6. SumFunctionOnSet(g, Periods) = SumFunctionOnSet(zero, Periods) - zero[p] + g[p]
      BY ONLY <1>1, <2>2, <2>3, p \in Periods, SumChange
    <2>7. SumFunctionOnSet(f, Periods) <= SumFunctionOnSet(g, Periods)
      BY ONLY <1>1, <2>1, SumMonotone
    <2>8. SumFunction(f) = SumFunctionOnSet(f, Periods) /\ SumFunction(f) \in Int
      BY <1>1, SumFunctionInt DEF SumFunction
    <2> QED
      BY <1>4, <2>3, <2>5, <2>6, <2>7, <2>8
  <1> HIDE DEF f
  <1>6. SumFunction(f) + LastPeriod >= 0
    BY ONLY <1>1, <1>2, SumFunctionAtLeast
  <1>7. SumFunction(f) \in Int
    BY ONLY <1>1, SumFunctionInt
  <1> QED
    BY <1>3, <1>4, <1>5, <1>6, <1>7 DEF Register

\* One period's depreciation changes.
LEMMA RegisterChanges ==
    ASSUME BalancedLedger, BalancedLedger', NEW p \in Periods,
           \A q \in Periods \ {p} : WrittenOff(q)' = WrittenOff(q)
    PROVE  SumFunction([q \in Periods |-> WrittenOff(q)])' =
              SumFunction([q \in Periods |-> WrittenOff(q)]) - WrittenOff(p) + WrittenOff(p)'
  <1> DEFINE f == [q \in Periods |-> WrittenOff(q)]
             g == [q \in Periods |-> WrittenOff(q)']
  <1>1. IsFiniteSet(Periods) /\ f \in [Periods -> Int]
    BY RegisterSums
  <1>2. "asset" \in Accounts
    BY DEF Accounts
  <1>3. \A q \in Periods : auto'[q]["asset"] \in Int
    BY <1>2, BookAmount DEF BalancedLedger
  <1>4. g \in [Periods -> Int]
    BY <1>3 DEF WrittenOff
  <1>5. \A q \in Periods \ {p} : g[q] = f[q]
    OBVIOUS
  <1>6. f[p] = WrittenOff(p) /\ g[p] = WrittenOff(p)'
    OBVIOUS
  <1>7. SumFunction([q \in Periods |-> WrittenOff(q)])' = SumFunction(g)
    BY DEF WrittenOff
  <1> HIDE DEF f, g
  <1>8. SumFunction(g) = SumFunction(f) - f[p] + g[p]
    BY ONLY <1>1, <1>4, <1>5, p \in Periods, SumFunctionChanged
  <1> QED
    BY <1>6, <1>7, <1>8 DEF f

LEMMA SameRegister ==
    ASSUME Register, UNCHANGED <<auto, asset>>,
           \A p \in Periods : status'[p] \in Shut <=> status[p] \in Shut
    PROVE  Register'
  <1>1. \A p \in Periods : WrittenOff(p)' = WrittenOff(p)
    BY DEF WrittenOff
  <1> QED
    BY <1>1 DEF Register

LEMMA PrecloseRegister ==
    ASSUME ~StalePages, MaxLife > LastPeriod, BalancedLedger, BalancedLedger', Register,
           NEW p \in Periods, Preclose(p)
    PROVE  Register'
  <1>1. Moved(p, "PRECLOSE") /\ status[p] = "OPEN"
    BY PeriodMoves, FreshPeriod DEF Preclose
  <1>2. asset.life > 0 /\ asset.life \in Int /\ asset.accumulated \in Int
    BY LifeRemains
  <1>3. Depreciation["asset"] = -1 /\ "asset" \in Accounts
    BY <1>2 DEF Depreciation, Zero, Accounts
  <1>4. asset'.life = asset.life - 1 /\ asset'.accumulated = asset.accumulated + 1
    BY <1>2, <1>3 DEF Preclose
  <1>5. WrittenOff(p) = 0
    BY <1>1 DEF Register, Shut
  <1>6. \A q \in Periods : WrittenOff(q)' = IF q = p THEN WrittenOff(q) + (-1) ELSE WrittenOff(q)
    <2>1. auto' = AddTo(auto, p, Depreciation)
      BY DEF Preclose
    <2> QED
      BY <1>3, <2>1, BookChanges DEF WrittenOff, BalancedLedger
  <1>7. WrittenOff(p)' = -1
    BY <1>5, <1>6
  <1>8. \A q \in Periods : WrittenOff(q)' = IF status'[q] \in Shut THEN -1 ELSE 0
    <2> TAKE q \in Periods
    <2>1. CASE q = p
      BY <1>1, <1>7, <2>1 DEF Moved, Shut
    <2>2. CASE q # p
      <3>1. WrittenOff(q)' = WrittenOff(q) /\ (status'[q] \in Shut <=> status[q] \in Shut)
        BY <1>1, <1>6, <2>2 DEF Moved
      <3> QED
        BY <3>1 DEF Register
    <2> QED
      BY <2>1, <2>2
  <1>9. SumFunction([q \in Periods |-> WrittenOff(q)])' =
           SumFunction([q \in Periods |-> WrittenOff(q)]) - WrittenOff(p) + WrittenOff(p)'
    BY <1>6, RegisterChanges
  <1>10. SumFunction([q \in Periods |-> WrittenOff(q)]) \in Int
    BY RegisterSums, SumFunctionInt
  <1>11. asset'.accumulated = -SumFunction([q \in Periods |-> WrittenOff(q)])'
    BY <1>2, <1>4, <1>5, <1>7, <1>9, <1>10 DEF Register
  <1>12. asset'.life + asset'.accumulated = MaxLife
    BY <1>2, <1>4 DEF Register
  <1> QED
    BY <1>8, <1>11, <1>12 DEF Register

LEMMA OpenRegister ==
    ASSUME ~StalePages, MaxLife > LastPeriod, BalancedLedger, BalancedLedger', Register,
           NEW p \in Periods, Open(p)
    PROVE  Register'
  <1>1. Moved(p, "OPEN") /\ status[p] \in Shut
    BY PeriodMoves, FreshPeriod DEF Open
  <1>2. /\ asset.life > 0 /\ asset.life \in Int /\ asset.accumulated \in Int
        /\ asset.accumulated > 0
    BY <1>1, LifeRemains
  <1>3. MaxLife \in Int /\ asset.life \in 1..(MaxLife - 1) /\ p <= MaxLife
    BY <1>2, LedgerBounds, PeriodAssumption DEF Register, Periods
  <1>4. asset'.life = asset.life + 1 /\ asset'.accumulated = asset.accumulated - 1
    <2>1. asset' = [life |-> IF p <= MaxLife THEN asset.life + 1 ELSE asset.life,
                    accumulated |-> IF asset.accumulated > 1 THEN asset.accumulated - 1 ELSE 0]
      BY <1>1, <1>3 DEF Open, Restored, Shut
    <2> QED
      BY <1>2, <1>3, <2>1
  <1>5. WrittenOff(p) = -1
    BY <1>1 DEF Register
  <1>6. \A q \in Periods : WrittenOff(q)' = IF q = p THEN 0 ELSE WrittenOff(q)
    <2>1. auto' = Cleared(auto, p) /\ "asset" \in Accounts
      BY DEF Open, Accounts
    <2> QED
      BY <2>1, BookCleared DEF WrittenOff, BalancedLedger
  <1>7. WrittenOff(p)' = 0
    BY <1>6
  <1>8. \A q \in Periods : WrittenOff(q)' = IF status'[q] \in Shut THEN -1 ELSE 0
    <2> TAKE q \in Periods
    <2>1. CASE q = p
      BY <1>1, <1>7, <2>1 DEF Moved, Shut
    <2>2. CASE q # p
      <3>1. WrittenOff(q)' = WrittenOff(q) /\ (status'[q] \in Shut <=> status[q] \in Shut)
        BY <1>1, <1>6, <2>2 DEF Moved
      <3> QED
        BY <3>1 DEF Register
    <2> QED
      BY <2>1, <2>2
  <1>9. SumFunction([q \in Periods |-> WrittenOff(q)])' =
           SumFunction([q \in Periods |-> WrittenOff(q)]) - WrittenOff(p) + WrittenOff(p)'
    BY <1>6, RegisterChanges
  <1>10. SumFunction([q \in Periods |-> WrittenOff(q)]) \in Int
    BY RegisterSums, SumFunctionInt
  <1>11. asset'.accumulated = -SumFunction([q \in Periods |-> WrittenOff(q)])'
    BY <1>2, <1>4, <1>5, <1>7, <1>9, <1>10 DEF Register
  <1>12. asset'.life + asset'.accumulated = MaxLife
    BY <1>2, <1>4 DEF Register
  <1> QED
    BY <1>8, <1>11, <1>12 DEF Register

LEMMA NextRegister ==
    ASSUME ~StalePages, MaxLife > LastPeriod, BalancedLedger, BalancedLedger', Register,
           [Next]_vars
    PROVE  Register'
  <1>1. CASE UNCHANGED <<status, auto, asset>>
    BY <1>1, SameRegister
  <1>2. CASE \E p \in Periods : Preclose(p)
    BY <1>2, PrecloseRegister
  <1>3. CASE \E p \in Periods : Open(p)
    BY <1>3, OpenRegister
  <1>4. ASSUME NEW p \in Periods, Close(p) PROVE Register'
    <2>1. Moved(p, "CLOSED") /\ status[p] = "PRECLOSE"
      BY <1>4, PeriodMoves, FreshPeriod DEF Close
    <2>2. \A q \in Periods : status'[q] \in Shut <=> status[q] \in Shut
      BY <2>1 DEF Moved, Shut
    <2> QED
      BY <1>4, <2>2, SameRegister DEF Close
  <1> QED
    BY <1>1, <1>2, <1>3, <1>4
       DEF Next, vars, books, AddJournal, AddLateJournal, Enter, EditJournal, DeleteJournal,
           PostJournal, UnpostJournal, UnpostOpening, PostOpening

\* The asset register has depreciated what the journals say, however often
\* periods are closed and opened again, as long as pages are up to date and
\* the asset lives longer than there are periods: an asset without life left
\* is not restored when its last period is opened again.
THEOREM RegisterMatchesJournals ==
    Spec => [](~StalePages /\ MaxLife > LastPeriod => AssetMatchesJournals)
  <1> DEFINE Lasting == ~StalePages /\ MaxLife > LastPeriod
  <1>1. Init => Register
    <2> SUFFICES ASSUME Init PROVE Register
      OBVIOUS
    <2>1. \A p \in Periods : WrittenOff(p) = 0 /\ status[p] \notin Shut
      BY DEF Init, WrittenOff, Zero, Accounts, Shut
    <2>2. IsFiniteSet(Periods) /\ [p \in Periods |-> WrittenOff(p)] \in [Periods -> Int]
      BY <2>1, FS_Interval, PeriodAssumption DEF Periods
    <2>3. SumFunction([p \in Periods |-> WrittenOff(p)]) = 0
      BY <2>1, <2>2, SumFunctionZero
    <2>4. asset.life = MaxLife /\ asset.accumulated = 0 /\ MaxLife \in Int
      BY LedgerBounds DEF Init
    <2>5. asset.accumulated = -SumFunction([p \in Periods |-> WrittenOff(p)])
      <3>1. \A n \in Int : -n = 0 - n
        OBVIOUS
      <3>2. SumFunction([p \in Periods |-> WrittenOff(p)]) \in Int
        BY <2>2, SumFunctionInt
      <3>3. 0 - SumFunction([p \in Periods |-> WrittenOff(p)]) = 0
        BY ONLY <2>3
      <3>4. -SumFunction([p \in Periods |-> WrittenOff(p)]) = 0
        BY ONLY <3>1, <3>2, <3>3, Zenon
      <3> QED
        BY ONLY <2>4, <3>4
    <2>6. asset.life + asset.accumulated = MaxLife
      BY <2>4
    <2>7. \A p \in Periods : WrittenOff(p) = IF status[p] \in Shut THEN -1 ELSE 0
      BY <2>1
    <2> QED
      BY <2>5, <2>6, <2>7, Zenon DEF Register
  <1>2. BalancedLedger /\ BalancedLedger' /\ (Lasting => Register) /\ [Next]_vars
           => (Lasting => Register)'
    BY NextRegister
  <1>3. (Lasting => Register) => (Lasting => AssetMatchesJournals)
    BY DEF Register, WrittenOff, AssetMatchesJournals
  <1> QED
    BY <1>1, <1>2, <1>3, AlwaysBalanced, PTL DEF Spec
=============================================================================
