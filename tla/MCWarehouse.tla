---------------------------- MODULE MCWarehouse ----------------------------
(***************************************************************************)
(* Instances of Warehouse for TLC: containers in one facility, or in one   *)
(* each (a manual receipt makes one goods receipt per facility).           *)
(***************************************************************************)
EXTENDS Warehouse, TLC

OneFacility == [c \in Containers |-> CHOOSE f \in Facilities : TRUE]
\* Each facility is named like its container.
OneEach == [c \in Containers |-> c]

\* The containers may change places, their facilities with them.
Interchangeable == Permutations(Containers)
=============================================================================
