---------------------------- MODULE MCProcurement ----------------------------
(***************************************************************************)
(* An instance of Procurement for TLC.                                     *)
(***************************************************************************)
EXTENDS Procurement, TLC

Symmetric == Permutations(Orders)
=============================================================================
