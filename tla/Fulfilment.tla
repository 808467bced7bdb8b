----------------------------- MODULE Fulfilment -----------------------------
(***************************************************************************)
(* What planning and delivering promise of each parcel: planned, it leaves *)
(* at most once; under way, it either comes back and never leaves again,   *)
(* or is handed over for good.                                             *)
(***************************************************************************)
CONSTANT Parcels

VARIABLE state

States == {"absent", "open", "underway", "withdrawn", "completed"}

Init == state = [r \in Parcels |-> "absent"]

\* Some parcels go together from one state to the next.
Move(from, to) ==
    \E S \in SUBSET Parcels :
        /\ S # {}
        /\ \A r \in S : state[r] = from
        /\ state' = [r \in Parcels |-> IF r \in S THEN to ELSE state[r]]

Next ==
    \/ Move("absent", "open")
    \/ Move("open", "absent")
    \/ Move("open", "underway")
    \/ Move("underway", "withdrawn")
    \/ Move("underway", "completed")

Spec == Init /\ [][Next]_state
=============================================================================
