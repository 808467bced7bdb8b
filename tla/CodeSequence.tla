---------------------------- MODULE CodeSequence ----------------------------
(***************************************************************************)
(* The codes of documents (GeneratorHelper, CodeSequenceDao).  A row of    *)
(* code_generator_sequence holds a counter per month and one per year; a   *)
(* service loads the row its call asks for, adds one to one counter,       *)
(* writes the row back and puts the number into the code of its document.  *)
(*                                                                         *)
(* A session is the transaction of one request.  It reads the row when it  *)
(* calls the generator and the others see its writes when it commits; the  *)
(* row has neither a version nor a lock.                                   *)
(***************************************************************************)
EXTENDS Integers, FiniteSets

CONSTANTS
    Sessions,       \* requests served at the same time
    Types,          \* TableType
    Form,           \* how the code of each type is printed
    Companies,      \* company codes
    NoCompany,      \* the null company
    Like,           \* pairs <<c, d>> where the code d contains the code c
    Calls,          \* the calls of generate in the services
    Years, Months,
    MaxDocuments    \* bound: documents ever added

Call == [type : Types, scope : {"MONTH", "YEAR"}, company : Companies \cup {NoCompany}]
Dates == [year : Years, month : Months]

ASSUME FormAssumption == Form \in [Types -> {"format", "codeDateCount", "barcode"}]
ASSUME CompanyAssumption ==
    /\ NoCompany \notin Companies
    /\ Like \subseteq Companies \X Companies
    /\ \A c \in Companies : <<c, c>> \in Like
ASSUME CallAssumption == Calls \subseteq Call
ASSUME DocumentBound == MaxDocuments \in Nat

VARIABLES rows, working, documents,
    overlapped      \* history: whether a request ever started during another
vars == <<rows, working, documents, overlapped>>

Ids == 1..MaxDocuments

\* A code_generator_sequence row; id 0 is one not yet inserted.
Row == [id : Nat, type : Types, company : Companies \cup {NoCompany},
        year : Years, month : Months, sequence2 : Nat, sequence3 : Nat]

\* What a printed code tells; "none" for what its form leaves out.
CodeOf == [type : Types, company : Companies \cup {NoCompany}, year : Years,
           month : Months \cup {0}, index : Nat]

Idle == [busy |-> FALSE]
Request == [busy : {TRUE}, call : Calls, date : Dates, row : Row]

TypeOK ==
    /\ rows \subseteq Row /\ \A r \in rows : r.id \in Ids
    /\ working \in [Sessions -> Request \cup {Idle}]
    /\ documents \subseteq [id : Ids, code : CodeOf]
    /\ overlapped \in BOOLEAN

\* CodeSequenceDaoImpl.load; LIKE does not match a null company.
Matches(r, call, date) ==
    /\ r.type = call.type
    /\ r.year = date.year
    /\ call.scope = "MONTH" => r.month = date.month
    /\ call.company # NoCompany => <<call.company, r.company>> \in Like

Matching(call, date) == {r \in rows : Matches(r, call, date)}

\* GeneratorHelper.create.
Created(call, date) ==
    [id |-> 0, type |-> call.type, company |-> call.company,
     year |-> date.year, month |-> date.month, sequence2 |-> 0, sequence3 |-> 0]

\* setMaxResults(1) without an order: any row that matches.
Loaded(call, date) ==
    IF Matching(call, date) = {} THEN {Created(call, date)} ELSE Matching(call, date)

Index(r, scope) == IF scope = "MONTH" THEN r.sequence2 ELSE r.sequence3

FaultIncremented(r, scope) == [r EXCEPT !.sequence3 = @ + 1]

\* The reflective getSequence and setSequence of generate.
Incremented(r, scope) ==
    IF scope = "MONTH" THEN [r EXCEPT !.sequence2 = @ + 1] ELSE [r EXCEPT !.sequence3 = @ + 1]

\* format, codeDateCount and barcode.
Printed(r, date, index) ==
    [type |-> r.type, index |-> index, year |-> r.year,
     company |-> IF Form[r.type] = "codeDateCount" THEN NoCompany ELSE r.company,
     month |-> IF Form[r.type] = "format" THEN 0 ELSE date.month]

Init ==
    /\ rows = {}
    /\ working = [s \in Sessions |-> Idle]
    /\ documents = {}
    /\ overlapped = FALSE

\* A request calls the generator and reads a row.
Load(s) ==
    /\ working[s] = Idle
    /\ \E call \in Calls, date \in Dates : \E r \in Loaded(call, date) :
          working' = [working EXCEPT ![s] =
              [busy |-> TRUE, call |-> call, date |-> date, row |-> r]]
    /\ overlapped' = (overlapped \/ \E t \in Sessions \ {s} : working[t] # Idle)
    /\ UNCHANGED <<rows, documents>>

FaultStored(r) == {q \in rows : q.id # r.id} \cup {r}

\* merge and the flush of the transaction: every column is written.
Stored(r) ==
    IF r.id = 0 THEN rows \cup {[r EXCEPT !.id = Cardinality(rows) + 1]}
    ELSE {q \in rows : q.id # r.id} \cup {r}

\* The row and the document are committed together.
Add(s) ==
    /\ working[s] # Idle
    /\ Cardinality(documents) < MaxDocuments
    /\ LET request == working[s]
           r == Incremented(request.row, request.call.scope)
           index == Index(r, request.call.scope)
       IN
          /\ rows' = Stored(r)
          /\ documents' = documents \cup
                {[id |-> Cardinality(documents) + 1, code |-> Printed(r, request.date, index)]}
    /\ working' = [working EXCEPT ![s] = Idle]
    /\ UNCHANGED overlapped

\* The counter in a transaction of its own, which the rollback leaves.
FaultRollback(s) ==
    /\ working[s] # Idle
    /\ working[s].row.id # 0
    /\ working' = [working EXCEPT ![s] = Idle]
    /\ rows' = Stored(Incremented(working[s].row, working[s].call.scope))
    /\ UNCHANGED <<documents, overlapped>>

\* The service throws after the call: nothing is committed.
Rollback(s) ==
    /\ working[s] # Idle
    /\ working' = [working EXCEPT ![s] = Idle]
    /\ UNCHANGED <<rows, documents, overlapped>>

Next == \E s \in Sessions : Load(s) \/ Add(s) \/ Rollback(s)

Spec == Init /\ [][Next]_vars
----------------------------------------------------------------------------
(* What must hold. *)

\* Calls of one type use one counter and print whatever it is kept for.
ScopedCodes ==
    /\ \A c, d \in Calls : c.type = d.type => c.scope = d.scope
    /\ \A c \in Calls : Form[c.type] = "codeDateCount" => c.company = NoCompany
    /\ \A c \in Calls : Form[c.type] = "format" => c.scope = "YEAR"

\* No two documents carry one code.
UniqueCodes == \A d, e \in documents : d.code = e.code => d.id = e.id

\* As long as each request came after the end of the one before, failed ones
\* included, no two documents carry one code.
UniqueInTurn == ~overlapped => UniqueCodes

\* Numbers are consecutive: before every code there is the one with the
\* number before, of the same type, company and year.  A failed request
\* leaves no gap, since its counter is rolled back with its document, and
\* requests that overlap leave none either.
Gapless ==
    \A d \in documents : d.code.index > 1 =>
        \E e \in documents :
            /\ e.code.index = d.code.index - 1
            /\ e.code.type = d.code.type
            /\ e.code.company = d.code.company
            /\ e.code.year = d.code.year
=============================================================================
