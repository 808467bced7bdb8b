------------------------- MODULE MCSalesFulfilment -------------------------
(***************************************************************************)
(* An instance of SalesFulfilment for TLC: one order of two lines.         *)
(***************************************************************************)
EXTENDS SalesFulfilment, TLC

OneOrder == [l \in Lines |-> "order"]
Symmetric == Permutations(Sequences) \cup Permutations(Deliveries)
=============================================================================
