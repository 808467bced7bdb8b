-------------------------- MODULE MCGeneralLedger --------------------------
(***************************************************************************)
(* Instances of GeneralLedger for TLC: a sale, an expense, and a journal   *)
(* with one side missing.                                                  *)
(***************************************************************************)
EXTENDS GeneralLedger

NoLines == [a \in {"cash", "asset", "sales", "expense", "summary", "capital", "opening"} |-> 0]
Sale == [NoLines EXCEPT !["cash"] = 2, !["sales"] = -2]
Expense == [NoLines EXCEPT !["cash"] = -1, !["expense"] = 1]
OneSided == [NoLines EXCEPT !["cash"] = 1]

AllEntries == {Sale, Expense, OneSided}
OneEntry == {Sale, OneSided}
=============================================================================
