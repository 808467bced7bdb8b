---------------------------- MODULE MCSettlement ----------------------------
(***************************************************************************)
(* An instance of Settlement for TLC: a branch whose bills its head office *)
(* may pay, and a supplier.                                                *)
(***************************************************************************)
EXTENDS Settlement, TLC

Branches == [c \in Customers |-> IF c = "branch" THEN "office" ELSE NoParty]
\* Nothing, a part, all, all but a discount (too much once a part is paid), a
\* surcharge, and less than nothing.
Typed == {[paid |-> p, writeOff |-> w] : <<p, w>> \in
              {<<0, 0>>, <<1, 0>>, <<3, 0>>, <<3, -1>>, <<0, 1>>, <<-1, 0>>}}

\* The pages may change places.
Interchangeable == Permutations(Pages)
=============================================================================
