------------------------ MODULE CodeSequence_proofs ------------------------
(***************************************************************************)
(* Proofs about CodeSequence: the types and the absence of gaps for any    *)
(* number of sessions and any calls, the uniqueness of codes for one       *)
(* session and calls whose codes print the scope of their counter.         *)
(***************************************************************************)
EXTENDS CodeSequence, FiniteSetTheorems, TLAPS

Busy(s) == working[s] # Idle

LEMMA BusyRequest ==
    ASSUME TypeOK, NEW s \in Sessions, Busy(s)
    PROVE  /\ working[s] \in Request
           /\ working[s].call \in Calls /\ working[s].call \in Call
           /\ working[s].date \in Dates /\ working[s].row \in Row
  BY CallAssumption DEF TypeOK, Busy, Request

\* Rows and documents are numbered from one without a repeated number, a row
\* comes with a document, and a row that was read keeps its place.
Numbered ==
    /\ IsFiniteSet(rows) /\ IsFiniteSet(documents)
    /\ Cardinality(rows) <= Cardinality(documents)
    /\ Cardinality(documents) <= MaxDocuments
    /\ \A r \in rows : r.id \in 1..Cardinality(rows)
    /\ \A q, r \in rows : q.id = r.id => q = r
    /\ \A d \in documents : d.id \in 1..Cardinality(documents)
    /\ \A s \in Sessions : Busy(s) /\ working[s].row.id # 0 =>
          \E r \in rows : r.id = working[s].row.id

LEMMA InitNumbered == Init => TypeOK /\ Numbered
  <1> SUFFICES ASSUME Init PROVE TypeOK /\ Numbered
    OBVIOUS
  <1>1. IsFiniteSet({}) /\ Cardinality({}) = 0
    BY FS_EmptySet
  <1>2. TypeOK
    BY DEF Init, TypeOK
  <1>3. Numbered
    BY <1>1, DocumentBound DEF Init, Numbered, Busy
  <1> QED BY <1>2, <1>3

LEMMA CreatedRow ==
    ASSUME NEW call \in Call, NEW date \in Dates
    PROVE  /\ Created(call, date) \in Row
           /\ Created(call, date).id = 0
  BY DEF Call, Dates, Created, Row

LEMMA LoadedRow ==
    ASSUME rows \subseteq Row, NEW call \in Call, NEW date \in Dates, NEW r \in Loaded(call, date)
    PROVE  /\ r \in Row
           /\ r.id = 0 \/ r \in rows
           /\ r.type = call.type /\ r.year = date.year
  <1>1. CASE Matching(call, date) = {}
    <2>1. r = Created(call, date)
      BY <1>1 DEF Loaded
    <2> QED BY <2>1, CreatedRow DEF Created
  <1>2. CASE Matching(call, date) # {}
    <2>1. r \in rows /\ Matches(r, call, date)
      BY <1>2 DEF Loaded, Matching
    <2> QED BY <2>1 DEF Matches
  <1> QED BY <1>1, <1>2

LEMMA IncrementedRow ==
    ASSUME NEW r \in Row, NEW scope \in {"MONTH", "YEAR"}
    PROVE  /\ Incremented(r, scope) \in Row
           /\ Incremented(r, scope).id = r.id
           /\ Incremented(r, scope).type = r.type
           /\ Incremented(r, scope).company = r.company
           /\ Incremented(r, scope).year = r.year
           /\ Incremented(r, scope).month = r.month
           /\ Index(r, scope) \in Nat
           /\ Index(Incremented(r, scope), scope) = Index(r, scope) + 1
           /\ \A other \in {"MONTH", "YEAR"} : other # scope =>
                 Index(Incremented(r, scope), other) = Index(r, other)
  BY DEF Row, Incremented, Index

LEMMA PrintedCode ==
    ASSUME NEW r \in Row, NEW date \in Dates, NEW index \in Nat
    PROVE  Printed(r, date, index) \in CodeOf
  <1> DEFINE company == IF Form[r.type] = "codeDateCount" THEN NoCompany ELSE r.company
             month == IF Form[r.type] = "format" THEN 0 ELSE date.month
  <1>1. company \in Companies \cup {NoCompany}
    BY DEF Row
  <1>2. month \in Months \cup {0}
    BY DEF Dates
  <1>3. r.type \in Types /\ r.year \in Years
    BY DEF Row
  <1>4. Printed(r, date, index) = [type |-> r.type, index |-> index, year |-> r.year,
                                   company |-> company, month |-> month]
    BY DEF Printed
  <1> HIDE DEF company, month
  <1> QED BY <1>1, <1>2, <1>3, <1>4 DEF CodeOf

\* A stored row gets the next number or the place of the one it changes.
LEMMA StoredNumbered ==
    ASSUME NEW r \in Row, rows \subseteq Row, IsFiniteSet(rows),
           \A q \in rows : q.id \in 1..Cardinality(rows),
           \A p, q \in rows : p.id = q.id => p = q,
           r.id # 0 => \E q \in rows : q.id = r.id
    PROVE  /\ Stored(r) \subseteq Row
           /\ IsFiniteSet(Stored(r))
           /\ Cardinality(Stored(r)) \in {Cardinality(rows), Cardinality(rows) + 1}
           /\ \A q \in Stored(r) : q.id \in 1..Cardinality(Stored(r))
           /\ \A p, q \in Stored(r) : p.id = q.id => p = q
           /\ \A q \in rows : \E p \in Stored(r) : p.id = q.id
  <1>0. Cardinality(rows) \in Nat
    BY FS_CardinalityType
  <1>1. CASE r.id = 0
    <2> DEFINE new == [r EXCEPT !.id = Cardinality(rows) + 1]
    <2>1. new \in Row /\ new.id = Cardinality(rows) + 1
      BY <1>0 DEF Row
    <2>2. Stored(r) = rows \cup {new}
      BY <1>1 DEF Stored
    <2> HIDE DEF new
    <2>3. new \notin rows
      BY <2>1, <1>0
    <2>4. IsFiniteSet(rows \cup {new}) /\ Cardinality(rows \cup {new}) = Cardinality(rows) + 1
      BY <2>3, FS_AddElement
    <2>5. Cardinality(Stored(r)) = Cardinality(rows) + 1
      BY <2>2, <2>4
    <2>6. \A q \in Stored(r) : q.id \in 1..Cardinality(rows) + 1
      BY <2>1, <2>2, <1>0
    <2>7. \A p, q \in Stored(r) : p.id = q.id => p = q
      BY <2>1, <2>2, <1>0
    <2>8. Stored(r) \subseteq Row
      BY <2>1, <2>2
    <2>9. \A q \in rows : \E p \in Stored(r) : p.id = q.id
      BY <2>2
    <2> QED BY <2>2, <2>4, <2>5, <2>6, <2>7, <2>8, <2>9
  <1>2. CASE r.id # 0
    <2>1. PICK old \in rows : old.id = r.id
      BY <1>2
    <2> DEFINE rest == rows \ {old}
    <2>2. rest = {q \in rows : q.id # r.id}
      BY <2>1
    <2>3. Stored(r) = rest \cup {r}
      BY <1>2, <2>2 DEF Stored
    <2>4. IsFiniteSet(rest) /\ Cardinality(rest) = Cardinality(rows) - 1
      BY <2>1, FS_RemoveElement
    <2>5. r \notin rest
      BY <2>2
    <2>6. IsFiniteSet(rest \cup {r}) /\ Cardinality(rest \cup {r}) = Cardinality(rest) + 1
      BY <2>4, <2>5, FS_AddElement
    <2>7. Cardinality(Stored(r)) = Cardinality(rows)
      BY <2>3, <2>4, <2>6, <1>0
    <2>8. r.id \in 1..Cardinality(rows)
      BY <2>1
    <2>9. \A q \in rows : \E p \in Stored(r) : p.id = q.id
      BY <2>2, <2>3
    <2>10. Stored(r) \subseteq Row
      BY <2>3
    <2>11. \A q \in Stored(r) : q.id \in 1..Cardinality(rows)
      BY <2>3, <2>8
    <2>12. \A p, q \in Stored(r) : p.id = q.id => p = q
      BY <2>2, <2>3
    <2> QED BY <2>3, <2>6, <2>7, <2>9, <2>10, <2>11, <2>12
  <1> QED BY <1>1, <1>2

LEMMA LoadNumbered ==
    ASSUME TypeOK, Numbered, NEW s \in Sessions, Load(s)
    PROVE  TypeOK' /\ Numbered'
  <1>0. PICK call \in Calls, date \in Dates : \E r \in Loaded(call, date) :
            working' = [working EXCEPT ![s] =
                [busy |-> TRUE, call |-> call, date |-> date, row |-> r]]
    BY DEF Load
  <1>1. PICK r \in Loaded(call, date) :
            working' = [working EXCEPT ![s] =
                [busy |-> TRUE, call |-> call, date |-> date, row |-> r]]
    BY <1>0
  <1> DEFINE request == [busy |-> TRUE, call |-> call, date |-> date, row |-> r]
  <1>2. rows' = rows /\ documents' = documents
    BY DEF Load
  <1>3. r \in Row /\ (r.id = 0 \/ r \in rows)
    BY LoadedRow, CallAssumption DEF TypeOK
  <1>4. request \in Request
    BY <1>3 DEF Request
  <1>5. request.row = r
    OBVIOUS
  <1> HIDE DEF request
  <1>6. working' = [working EXCEPT ![s] = request]
    BY <1>1 DEF request
  <1>10. overlapped' \in BOOLEAN
    BY DEF Load
  <1>7. TypeOK'
    BY <1>2, <1>4, <1>6, <1>10 DEF TypeOK
  <1>8. \A t \in Sessions : working'[t] = IF t = s THEN request ELSE working[t]
    BY <1>6 DEF TypeOK
  <1>9. \A t \in Sessions : Busy(t)' /\ working'[t].row.id # 0 =>
           \E q \in rows : q.id = working'[t].row.id
    BY <1>3, <1>5, <1>8 DEF Numbered, Busy
  <1> QED BY <1>2, <1>7, <1>9 DEF Numbered

LEMMA AddNumbered ==
    ASSUME TypeOK, Numbered, NEW s \in Sessions, Add(s)
    PROVE  TypeOK' /\ Numbered'
  <1> DEFINE request == working[s]
             r == Incremented(request.row, request.call.scope)
             index == Index(r, request.call.scope)
             new == [id |-> Cardinality(documents) + 1, code |-> Printed(r, request.date, index)]
  <1>1. /\ Busy(s) /\ Cardinality(documents) < MaxDocuments
        /\ rows' = Stored(r) /\ documents' = documents \cup {new}
        /\ working' = [working EXCEPT ![s] = Idle]
    BY DEF Add, Busy
  <1>2. request.row \in Row /\ request.call.scope \in {"MONTH", "YEAR"} /\ request.date \in Dates
    BY <1>1, BusyRequest DEF Call
  <1>3. r \in Row /\ r.id = request.row.id /\ index \in Nat
    BY <1>2, IncrementedRow
  <1>4. Printed(r, request.date, index) \in CodeOf
    BY <1>2, <1>3, PrintedCode
  <1>5. r.id # 0 => \E q \in rows : q.id = r.id
    BY <1>1, <1>3 DEF Numbered
  <1>6. new.id = Cardinality(documents) + 1 /\ new.code \in CodeOf
        /\ new = [id |-> new.id, code |-> new.code]
    BY <1>4
  <1> HIDE DEF request, r, index, new
  <1>7. Cardinality(documents) \in Nat /\ Cardinality(rows) \in Nat
    BY FS_CardinalityType DEF Numbered
  <1>8. new \notin documents
    BY <1>6, <1>7 DEF Numbered
  <1>9. IsFiniteSet(documents') /\ Cardinality(documents') = Cardinality(documents) + 1
    BY <1>1, <1>8, FS_AddElement DEF Numbered
  <1>10. /\ rows' \subseteq Row /\ IsFiniteSet(rows')
         /\ Cardinality(rows') \in {Cardinality(rows), Cardinality(rows) + 1}
         /\ \A q \in rows' : q.id \in 1..Cardinality(rows')
         /\ \A p, q \in rows' : p.id = q.id => p = q
         /\ \A q \in rows : \E p \in rows' : p.id = q.id
    BY <1>1, <1>3, <1>5, StoredNumbered DEF TypeOK, Numbered
  <1>11. Cardinality(rows') <= Cardinality(documents') /\ Cardinality(documents') <= MaxDocuments
    BY <1>1, <1>7, <1>9, <1>10, DocumentBound DEF Numbered
  <1>12. \A q \in rows' : q.id \in Ids
    BY <1>7, <1>9, <1>10, <1>11, DocumentBound DEF Ids
  <1>13. documents' \subseteq [id : Ids, code : CodeOf]
    BY <1>1, <1>6, <1>7, <1>9, <1>11, DocumentBound DEF TypeOK, Ids
  <1>14. working' \in [Sessions -> Request \cup {Idle}]
    BY <1>1 DEF TypeOK
  <1>15. \A t \in Sessions : working'[t] = IF t = s THEN Idle ELSE working[t]
    BY <1>1 DEF TypeOK
  <1>16. \A t \in Sessions : Busy(t)' /\ working'[t].row.id # 0 =>
            \E q \in rows' : q.id = working'[t].row.id
    <2> TAKE t \in Sessions
    <2> HAVE Busy(t)' /\ working'[t].row.id # 0
    <2>1. t # s /\ working'[t] = working[t]
      BY <1>15 DEF Busy
    <2>2. PICK q \in rows : q.id = working[t].row.id
      BY <2>1 DEF Numbered, Busy
    <2> QED BY <2>1, <2>2, <1>10
  <1>17. \A d \in documents' : d.id \in 1..Cardinality(documents')
    BY <1>1, <1>6, <1>7, <1>9 DEF Numbered
  <1>19. overlapped' \in BOOLEAN
    BY Zenon DEF Add, TypeOK
  <1>18. TypeOK'
    BY <1>10, <1>12, <1>13, <1>14, <1>19 DEF TypeOK
  <1> QED BY <1>9, <1>10, <1>11, <1>16, <1>17, <1>18 DEF Numbered

LEMMA RollbackNumbered ==
    ASSUME TypeOK, Numbered, NEW s \in Sessions, Rollback(s)
    PROVE  TypeOK' /\ Numbered'
  <1>1. /\ rows' = rows /\ documents' = documents
        /\ \A t \in Sessions : working'[t] = IF t = s THEN Idle ELSE working[t]
    BY DEF Rollback, TypeOK
  <1>2. TypeOK'
    BY <1>1 DEF Rollback, TypeOK
  <1> QED BY <1>1, <1>2 DEF Numbered, Busy

LEMMA StutterNumbered ==
    ASSUME TypeOK, Numbered, UNCHANGED vars
    PROVE  TypeOK' /\ Numbered'
  BY DEF vars, TypeOK, Numbered, Busy

LEMMA StepNumbered == TypeOK /\ Numbered /\ [Next]_vars => TypeOK' /\ Numbered'
  BY LoadNumbered, AddNumbered, RollbackNumbered, StutterNumbered DEF Next

\* Every state has its types, and the rows are never more than the documents.
THEOREM CodesTypeCorrect == Spec => []TypeOK
  <1>1. Spec => [](TypeOK /\ Numbered)
    BY InitNumbered, StepNumbered, PTL DEF Spec
  <1> QED BY <1>1, PTL
----------------------------------------------------------------------------
(* No gaps, for any number of sessions. *)

\* The company that the codes of a row print.
PrintedCompany(r) == IF Form[r.type] = "codeDateCount" THEN NoCompany ELSE r.company

\* A document of this set has the number k among the codes of the row r.
Has(docs, r, k) ==
    \E e \in docs :
        /\ e.code.index = k
        /\ e.code.type = r.type
        /\ e.code.company = PrintedCompany(r)
        /\ e.code.year = r.year

\* Every count of a row was given to a document.
Backed(docs, r) ==
    \A scope \in {"MONTH", "YEAR"} : Index(r, scope) > 0 => Has(docs, r, Index(r, scope))

\* The strengthening of Gapless: rows as stored and as read are backed.
Counted ==
    /\ Gapless
    /\ \A r \in rows : Backed(documents, r)
    /\ \A s \in Sessions : Busy(s) => Backed(documents, working[s].row)

LEMMA InitCounted == Init => Counted
  BY DEF Init, Counted, Gapless, Busy

LEMMA LoadCounted ==
    ASSUME TypeOK, Counted, NEW s \in Sessions, Load(s)
    PROVE  Counted'
  <1>0. PICK call \in Calls, date \in Dates : \E r \in Loaded(call, date) :
            working' = [working EXCEPT ![s] =
                [busy |-> TRUE, call |-> call, date |-> date, row |-> r]]
    BY DEF Load
  <1>1. PICK r \in Loaded(call, date) :
            working' = [working EXCEPT ![s] =
                [busy |-> TRUE, call |-> call, date |-> date, row |-> r]]
    BY <1>0
  <1>2. rows' = rows /\ documents' = documents
    BY DEF Load
  <1>3. r \in rows \/ r = Created(call, date)
    BY DEF Loaded, Matching
  <1>4. Backed(documents, r)
    BY <1>3 DEF Counted, Backed, Created, Index
  <1>5. \A t \in Sessions : working'[t].row = IF t = s THEN r ELSE working[t].row
    BY <1>1 DEF TypeOK
  <1>6. \A t \in Sessions : t # s => Busy(t)' = Busy(t)
    BY <1>1 DEF TypeOK, Busy
  <1>7. \A q : Backed(documents', q) = Backed(documents, q)
    BY <1>2 DEF Backed, Has
  <1>8. Gapless'
    BY <1>2 DEF Counted, Gapless
  <1>9. \A t \in Sessions : Busy(t)' => Backed(documents', working'[t].row)
    BY <1>4, <1>5, <1>6, <1>7 DEF Counted
  <1> QED BY <1>2, <1>7, <1>8, <1>9 DEF Counted

LEMMA AddCounted ==
    ASSUME TypeOK, Counted, NEW s \in Sessions, Add(s)
    PROVE  Counted'
  <1> DEFINE row == working[s].row
             scope == working[s].call.scope
             r == Incremented(row, scope)
             index == Index(r, scope)
             new == [id |-> Cardinality(documents) + 1, code |-> Printed(r, working[s].date, index)]
  <1>1. /\ Busy(s)
        /\ rows' = Stored(r) /\ documents' = documents \cup {new}
        /\ working' = [working EXCEPT ![s] = Idle]
    BY DEF Add, Busy
  <1>2. row \in Row /\ scope \in {"MONTH", "YEAR"}
    BY <1>1, BusyRequest DEF Call
  <1>3. /\ new.code.index = index /\ new.code.type = r.type
        /\ new.code.company = PrintedCompany(r) /\ new.code.year = r.year
    BY DEF Printed, PrintedCompany
  <1>4. Backed(documents, row)
    BY <1>1 DEF Counted
  <1> HIDE DEF new
  <1>5. /\ r.type = row.type /\ r.year = row.year /\ r.company = row.company
        /\ Index(row, scope) \in Nat /\ index = Index(row, scope) + 1
        /\ \A other \in {"MONTH", "YEAR"} : other # scope => Index(r, other) = Index(row, other)
    BY <1>2, IncrementedRow
  <1> HIDE DEF row, scope, r, index
  <1>6. PrintedCompany(r) = PrintedCompany(row)
    BY <1>5 DEF PrintedCompany
  <1>7. \A q, k : Has(documents, q, k) => Has(documents', q, k)
    BY <1>1 DEF Has
  <1>8. \A q : Backed(documents, q) => Backed(documents', q)
    BY <1>7 DEF Backed, Has
  <1>9. Has(documents', r, index)
    BY <1>1, <1>3 DEF Has
  <1>10. Backed(documents', r)
    <2> SUFFICES ASSUME NEW other \in {"MONTH", "YEAR"}, Index(r, other) > 0
                 PROVE  Has(documents', r, Index(r, other))
      BY DEF Backed
    <2>1. CASE other = scope
      BY <2>1, <1>9 DEF index
    <2>2. CASE other # scope
      <3>1. Index(r, other) = Index(row, other)
        BY <2>2, <1>5
      <3>2. Has(documents, row, Index(row, other))
        BY <3>1, <1>4 DEF Backed
      <3>3. Has(documents, r, Index(row, other))
        BY <3>2, <1>5, <1>6 DEF Has
      <3> QED BY <3>1, <3>3, <1>7
    <2> QED BY <2>1, <2>2
  <1>11. \A q \in rows' : Backed(documents', q)
    <2>1. \A id : Backed(documents', [r EXCEPT !.id = id])
      <3> TAKE id
      <3> DEFINE q == [r EXCEPT !.id = id]
      <3>1. r \in Row
        BY <1>2, IncrementedRow DEF r
      <3>2. q.type = r.type /\ q.company = r.company /\ q.year = r.year
            /\ \A other \in {"MONTH", "YEAR"} : Index(q, other) = Index(r, other)
        BY <3>1 DEF Row, Index
      <3> HIDE DEF q
      <3>3. Backed(documents', q)
        BY <3>2, <1>10 DEF Backed, Has, PrintedCompany
      <3> QED BY <3>3 DEF q
    <2>2. \A q \in rows' : q \in rows \/ q = r \/ q = [r EXCEPT !.id = Cardinality(rows) + 1]
      BY <1>1 DEF Stored
    <2> QED BY <2>1, <2>2, <1>8, <1>10 DEF Counted
  <1>12. Gapless'
    <2> SUFFICES ASSUME NEW d \in documents', d.code.index > 1
                 PROVE  \E e \in documents' :
                            /\ e.code.index = d.code.index - 1
                            /\ e.code.type = d.code.type
                            /\ e.code.company = d.code.company
                            /\ e.code.year = d.code.year
      BY DEF Gapless
    <2>1. CASE d \in documents
      BY <2>1, <1>1 DEF Counted, Gapless
    <2>2. CASE d = new
      <3>1. Index(row, scope) > 0 /\ Index(row, scope) = d.code.index - 1
        BY <2>2, <1>3, <1>5
      <3>2. Has(documents, row, Index(row, scope))
        BY <3>1, <1>2, <1>4 DEF Backed
      <3> QED BY <2>2, <3>1, <3>2, <1>1, <1>3, <1>5, <1>6 DEF Has
    <2> QED BY <2>1, <2>2, <1>1
  <1>13. \A t \in Sessions : Busy(t)' => Backed(documents', working'[t].row)
    <2> SUFFICES ASSUME NEW t \in Sessions, Busy(t)' PROVE Backed(documents', working'[t].row)
      OBVIOUS
    <2>1. Busy(t) /\ working'[t] = working[t]
      BY <1>1 DEF TypeOK, Busy
    <2> QED BY <2>1, <1>8 DEF Counted
  <1> QED BY <1>11, <1>12, <1>13 DEF Counted

LEMMA RestCounted ==
    ASSUME TypeOK, Counted,
           (\E s \in Sessions : Rollback(s)) \/ UNCHANGED vars
    PROVE  Counted'
  <1>1. /\ rows' = rows /\ documents' = documents
        /\ \A t \in Sessions : Busy(t)' => Busy(t) /\ working'[t] = working[t]
    BY DEF Rollback, vars, TypeOK, Busy
  <1>2. \A q : Backed(documents', q) = Backed(documents, q)
    BY <1>1 DEF Backed, Has
  <1> QED BY <1>1, <1>2 DEF Counted, Gapless

LEMMA StepCounted == TypeOK /\ Counted /\ [Next]_vars => Counted'
  BY LoadCounted, AddCounted, RestCounted DEF Next

\* However the requests overlap or fail, the numbers of the codes of one
\* type, company and year have no gap.
THEOREM CodesHaveNoGap == Spec => []Gapless
  <1>1. Counted => Gapless
    BY DEF Counted
  <1>2. Spec => []Counted
    BY InitCounted, StepCounted, CodesTypeCorrect, PTL DEF Spec
  <1> QED BY <1>1, <1>2, PTL
----------------------------------------------------------------------------
(* Codes are unique while requests come in turn and calls are scoped.      *)

\* The counter that the calls of a type use.
Monthly(type) == \E c \in Calls : c.type = type /\ c.scope = "MONTH"
Counter(r) == IF Monthly(r.type) THEN r.sequence2 ELSE r.sequence3

\* Rows for the same codes.
SameKey(q, r) ==
    /\ q.type = r.type /\ q.company = r.company /\ q.year = r.year
    /\ Monthly(r.type) => q.month = r.month

\* The code comes from this row, at most at its current count.
Covers(r, code) ==
    /\ r.type = code.type /\ r.company = code.company /\ r.year = code.year
    /\ Monthly(r.type) => r.month = code.month
    /\ code.index <= Counter(r)

\* The strengthening of UniqueCodes: one row per key, every code is covered
\* by a row, and what the request has read is still what a load returns.
Keyed ==
    /\ \A q, r \in rows : SameKey(q, r) => q = r
    /\ \A r \in rows : Form[r.type] = "codeDateCount" => r.company = NoCompany
    /\ \A d \in documents : \E r \in rows : Covers(r, d.code)
    /\ \A s \in Sessions : Busy(s) =>
          working[s].row \in Loaded(working[s].call, working[s].date)
    /\ UniqueCodes

LEMMA InitKeyed == Init => Keyed
  BY DEF Init, Keyed, UniqueCodes, Busy

LEMMA CounterOfCall ==
    ASSUME ScopedCodes, NEW call \in Calls
    PROVE  /\ Monthly(call.type) <=> call.scope = "MONTH"
           /\ \A r : r.type = call.type => Counter(r) = Index(r, call.scope)
  <1>1. call.scope \in {"MONTH", "YEAR"}
    BY CallAssumption DEF Call
  <1>2. Monthly(call.type) <=> call.scope = "MONTH"
    BY DEF Monthly, ScopedCodes
  <1> QED BY <1>1, <1>2 DEF Counter, Index

\* What a load returns, and that no other row has its key.
LEMMA LoadedKey ==
    ASSUME TypeOK, Keyed, ScopedCodes,
           NEW call \in Calls, NEW date \in Dates, NEW row \in Loaded(call, date)
    PROVE  /\ row.type = call.type /\ row.year = date.year
           /\ Monthly(row.type) => row.month = date.month
           /\ Form[row.type] = "codeDateCount" => row.company = NoCompany
           /\ \A q \in rows : SameKey(q, row) => q = row
           /\ row.id = 0 \/ row \in rows
  <1>1. call \in Call /\ (Monthly(call.type) <=> call.scope = "MONTH")
    BY CounterOfCall, CallAssumption
  <1>2. CASE Matching(call, date) = {}
    <2>1. row = Created(call, date)
      BY <1>2 DEF Loaded
    <2>2. /\ row.type = call.type /\ row.year = date.year /\ row.month = date.month
          /\ row.company = call.company /\ row.id = 0
      BY <2>1 DEF Created
    <2>3. ASSUME NEW q \in rows, SameKey(q, row) PROVE FALSE
      <3>1. q.type = call.type /\ q.year = date.year /\ q.company = call.company
        BY <2>2, <2>3 DEF SameKey
      <3>2. call.scope = "MONTH" => q.month = date.month
        BY <1>1, <2>2, <2>3 DEF SameKey
      <3>3. call.company # NoCompany => <<call.company, q.company>> \in Like
        BY <1>1, <3>1, CompanyAssumption DEF Call
      <3>4. Matches(q, call, date)
        BY <3>1, <3>2, <3>3 DEF Matches
      <3> QED BY <1>2, <3>4 DEF Matching
    <2>4. Form[row.type] = "codeDateCount" => row.company = NoCompany
      BY <2>2 DEF ScopedCodes
    <2> QED BY <2>2, <2>3, <2>4
  <1>3. CASE Matching(call, date) # {}
    <2>1. row \in rows /\ Matches(row, call, date)
      BY <1>3 DEF Loaded, Matching
    <2> QED BY <1>1, <2>1 DEF Matches, Keyed
  <1> QED BY <1>2, <1>3

\* At most one request is under way.
Solo == \A s, t \in Sessions : Busy(s) /\ Busy(t) => s = t

\* Until two requests overlap.
KeyedInTurn == ~overlapped => Keyed /\ Solo

LEMMA LoadKeyed ==
    ASSUME TypeOK, KeyedInTurn, ~overlapped', NEW s \in Sessions, Load(s)
    PROVE  Keyed' /\ Solo'
  <1>0. PICK call \in Calls, date \in Dates : \E r \in Loaded(call, date) :
            working' = [working EXCEPT ![s] =
                [busy |-> TRUE, call |-> call, date |-> date, row |-> r]]
    BY DEF Load
  <1>1. PICK r \in Loaded(call, date) :
            working' = [working EXCEPT ![s] =
                [busy |-> TRUE, call |-> call, date |-> date, row |-> r]]
    BY <1>0
  <1>2. rows' = rows /\ documents' = documents
    BY DEF Load
  <1>3. Keyed /\ \A t \in Sessions \ {s} : ~ Busy(t)
    BY DEF Load, KeyedInTurn, Busy
  <1>6. \A t \in Sessions : Busy(t)' => t = s
    BY <1>1, <1>3 DEF TypeOK, Busy
  <1>7. working'[s] = [busy |-> TRUE, call |-> call, date |-> date, row |-> r]
    BY <1>1 DEF TypeOK
  <1>4. Loaded(call, date)' = Loaded(call, date)
    BY <1>2 DEF Loaded, Matching
  <1>5. \A t \in Sessions : Busy(t)' =>
           working'[t].row \in Loaded(working[t].call, working[t].date)'
    BY <1>2, <1>4, <1>6, <1>7 DEF Loaded, Matching
  <1> QED BY <1>2, <1>3, <1>5, <1>6 DEF Keyed, UniqueCodes, Solo

LEMMA AddKeyed ==
    ASSUME TypeOK, Numbered, Keyed, Solo, ScopedCodes, NEW s \in Sessions, Add(s)
    PROVE  Keyed' /\ Solo'
  <1> DEFINE row == working[s].row
             call == working[s].call
             date == working[s].date
             r == Incremented(row, call.scope)
             index == Index(r, call.scope)
             new == [id |-> Cardinality(documents) + 1, code |-> Printed(r, date, index)]
  <1>1. /\ Busy(s)
        /\ rows' = Stored(r) /\ documents' = documents \cup {new}
        /\ working' = [working EXCEPT ![s] = Idle]
    BY DEF Add, Busy
  <1>2. call \in Calls /\ call \in Call /\ date \in Dates /\ row \in Row
    BY <1>1, BusyRequest
  <1>3. row \in Loaded(call, date)
    BY <1>1 DEF Keyed
  <1>4. /\ new.code.index = index /\ new.code.type = r.type /\ new.code.year = r.year
        /\ new.code.company = IF Form[r.type] = "codeDateCount" THEN NoCompany ELSE r.company
        /\ new.code.month = IF Form[r.type] = "format" THEN 0 ELSE date.month
    BY DEF Printed
  <1> HIDE DEF new, row, call, date
  <1>5. /\ r \in Row /\ r.id = row.id /\ r.type = row.type /\ r.company = row.company
        /\ r.year = row.year /\ r.month = row.month
        /\ Index(row, call.scope) \in Nat /\ index = Index(row, call.scope) + 1
    BY <1>2, IncrementedRow DEF Call
  <1> HIDE DEF index, r
  <1>6. /\ row.type = call.type /\ row.year = date.year
        /\ Monthly(row.type) => row.month = date.month
        /\ Form[row.type] = "codeDateCount" => row.company = NoCompany
        /\ \A q \in rows : SameKey(q, row) => q = row
        /\ row.id = 0 \/ row \in rows
    BY <1>2, <1>3, LoadedKey
  <1>7. Monthly(row.type) => Form[row.type] # "format"
    BY <1>2, <1>6, CounterOfCall DEF ScopedCodes
  <1>8. /\ new.code.type = row.type /\ new.code.company = row.company /\ new.code.year = row.year
        /\ Monthly(row.type) => new.code.month = row.month
        /\ new.code.index = index
    BY <1>4, <1>5, <1>6, <1>7
  <1>9. Counter(row) = index - 1 /\ index \in Nat
    BY <1>2, <1>5, <1>6, CounterOfCall
  \* The row as it is stored, in place of the row that was read.
  <1>10. PICK n : /\ rows' = (rows \ {row}) \cup {n}
                  /\ n.type = row.type /\ n.company = row.company
                  /\ n.year = row.year /\ n.month = row.month
                  /\ Counter(n) = index
    <2>1. Counter(r) = index
      BY <1>2, <1>5, <1>6, CounterOfCall DEF index
    <2>2. CASE row.id = 0
      <3> DEFINE n == [r EXCEPT !.id = Cardinality(rows) + 1]
      <3>1. /\ n.type = r.type /\ n.company = r.company /\ n.year = r.year /\ n.month = r.month
            /\ n.sequence2 = r.sequence2 /\ n.sequence3 = r.sequence3
        BY <1>5 DEF Row
      <3>2. rows' = rows \cup {n}
        BY <1>1, <1>5, <2>2 DEF Stored
      <3>3. row \notin rows
        BY <2>2 DEF Numbered
      <3> HIDE DEF n
      <3>4. Counter(n) = index
        BY <2>1, <3>1 DEF Counter
      <3>5. rows' = (rows \ {row}) \cup {n}
        BY <3>2, <3>3
      <3> QED BY <1>5, <3>1, <3>4, <3>5
    <2>3. CASE row.id # 0
      <3>1. row \in rows
        BY <1>6, <2>3
      <3>2. rows' = {q \in rows : q.id # r.id} \cup {r}
        BY <1>1, <1>5, <2>3 DEF Stored
      <3>3. {q \in rows : q.id # r.id} = rows \ {row}
        BY <1>5, <3>1 DEF Numbered
      <3> QED BY <1>5, <2>1, <3>2, <3>3
    <2> QED BY <2>2, <2>3
  <1>11. \A q : SameKey(q, n) => SameKey(q, row)
    BY <1>10 DEF SameKey
  <1>12. \A q : SameKey(n, q) => SameKey(q, row)
    BY <1>10 DEF SameKey
  <1>13. \A p, q \in rows' : SameKey(p, q) => p = q
    BY <1>6, <1>10, <1>11, <1>12 DEF Keyed
  <1>14. \A q \in rows' : Form[q.type] = "codeDateCount" => q.company = NoCompany
    BY <1>6, <1>10 DEF Keyed
  <1>15. Covers(n, new.code)
    <2>1. new.code.index <= Counter(n)
      BY <1>8, <1>9, <1>10
    <2> QED BY <1>8, <1>10, <2>1 DEF Covers
  <1>16. \A d \in documents : Covers(row, d.code) => Covers(n, d.code)
    <2> SUFFICES ASSUME NEW d \in documents, Covers(row, d.code) PROVE Covers(n, d.code)
      OBVIOUS
    <2>1. d.code.index \in Nat
      BY DEF TypeOK, CodeOf
    <2>2. d.code.index <= Counter(n)
      BY <2>1, <1>9, <1>10 DEF Covers
    <2> QED BY <2>2, <1>10 DEF Covers
  <1>17. \A d \in documents' : \E q \in rows' : Covers(q, d.code)
    BY <1>1, <1>10, <1>15, <1>16 DEF Keyed
  <1>18. \A d \in documents : d.code # new.code
    <2> SUFFICES ASSUME NEW d \in documents, d.code = new.code PROVE FALSE
      OBVIOUS
    <2>1. PICK q \in rows : Covers(q, d.code)
      BY DEF Keyed
    <2>2. SameKey(q, row)
      BY <2>1, <1>8 DEF Covers, SameKey
    <2>3. q = row
      BY <2>2, <1>6
    <2>4. index <= index - 1
      BY <2>1, <2>3, <1>8, <1>9 DEF Covers
    <2> QED BY <2>4, <1>9
  <1>19. UniqueCodes'
    BY <1>1, <1>18 DEF Keyed, UniqueCodes
  <1>20. \A t \in Sessions : ~ Busy(t)'
    BY <1>1 DEF TypeOK, Solo, Busy
  <1> QED BY <1>13, <1>14, <1>17, <1>19, <1>20 DEF Keyed, Solo

LEMMA RestKeyed ==
    ASSUME TypeOK, Keyed, Solo,
           (\E s \in Sessions : Rollback(s)) \/ UNCHANGED vars
    PROVE  Keyed' /\ Solo'
  <1>1. /\ rows' = rows /\ documents' = documents
        /\ \A t \in Sessions : Busy(t)' => Busy(t) /\ working'[t] = working[t]
    BY DEF Rollback, vars, TypeOK, Busy
  <1>2. \A t \in Sessions : Busy(t)' =>
           working'[t].row \in Loaded(working[t].call, working[t].date)'
    BY <1>1 DEF Keyed, Loaded, Matching
  <1> QED BY <1>1, <1>2 DEF Keyed, UniqueCodes, Solo

LEMMA StepKeyed ==
    ASSUME ScopedCodes
    PROVE  TypeOK /\ Numbered /\ KeyedInTurn /\ [Next]_vars => KeyedInTurn'
  <1> SUFFICES ASSUME TypeOK, Numbered, KeyedInTurn, [Next]_vars, ~overlapped'
               PROVE  Keyed' /\ Solo'
    BY DEF KeyedInTurn
  <1>1. CASE \E s \in Sessions : Load(s)
    BY <1>1, LoadKeyed
  <1>2. CASE \E s \in Sessions : Add(s)
    <2>1. Keyed /\ Solo
      BY <1>2 DEF Add, KeyedInTurn
    <2> QED BY <1>2, <2>1, AddKeyed
  <1>3. CASE (\E s \in Sessions : Rollback(s)) \/ UNCHANGED vars
    <2>1. Keyed /\ Solo
      BY <1>3 DEF Rollback, vars, KeyedInTurn
    <2> QED BY <1>3, <2>1, RestKeyed
  <1> QED BY <1>1, <1>2, <1>3 DEF Next

\* As long as no two requests overlap, calls that print the scope of their
\* counter never give two documents one code.
THEOREM CodesAreUnique ==
    ASSUME ScopedCodes
    PROVE  Spec => []UniqueInTurn
  <1>1. KeyedInTurn => UniqueInTurn
    BY DEF KeyedInTurn, Keyed, UniqueInTurn
  <1>2. Spec => [](TypeOK /\ Numbered /\ KeyedInTurn)
    <2>1. Init => TypeOK /\ Numbered /\ KeyedInTurn
      BY InitNumbered, InitKeyed DEF Init, KeyedInTurn, Solo, Busy
    <2>2. TypeOK /\ Numbered /\ KeyedInTurn /\ [Next]_vars => (TypeOK /\ Numbered /\ KeyedInTurn)'
      BY StepNumbered, StepKeyed
    <2> QED BY <2>1, <2>2, PTL DEF Spec
  <1> QED BY <1>1, <1>2, PTL
=============================================================================
