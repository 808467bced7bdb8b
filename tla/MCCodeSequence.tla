--------------------------- MODULE MCCodeSequence ---------------------------
(***************************************************************************)
(* Instances of CodeSequence for TLC: calls of the services whose codes    *)
(* print the scope of their counter.                                       *)
(***************************************************************************)
EXTENDS CodeSequence, TLC

CONSTANTS none

Symmetric == Permutations(Sessions)

\* "A" is part of "AB".
Contains == {<<"A", "A">>, <<"AB", "AB">>, <<"A", "AB">>}

FormOf == [t \in Types |->
    IF t = "JOURNAL_ENTRY" THEN "format"
    ELSE IF t = "BARCODE_PRODUCT" THEN "barcode" ELSE "codeDateCount"]

CallOf(t, s, c) == [type |-> t, scope |-> s, company |-> c]

ScopedCalls == {CallOf("JOURNAL_ENTRY", "YEAR", "A"), CallOf("JOURNAL_ENTRY", "YEAR", "AB"),
                CallOf("SALES_ORDER", "MONTH", none), CallOf("BARCODE_GROUP", "YEAR", none),
                CallOf("BARCODE_PRODUCT", "MONTH", none)}
OrderCalls == {CallOf("SALES_ORDER", "MONTH", none)}
=============================================================================
