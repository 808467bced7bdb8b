----------------------------- MODULE StockBook -----------------------------
(***************************************************************************)
(* What a stock book promises, whatever the documents behind it: goods     *)
(* come in, goods that are there go out, and goods that move arrive in the *)
(* same amount they left.                                                  *)
(***************************************************************************)
EXTENDS Naturals

CONSTANT Containers

VARIABLE stock

Init == stock = [c \in Containers |-> 0]

\* One document brings goods into any number of containers.
Receive ==
    /\ stock' \in [Containers -> Nat]
    /\ \A c \in Containers : stock'[c] >= stock[c]

\* One document takes goods out, never more than a container holds.
Release ==
    /\ stock' \in [Containers -> Nat]
    /\ \A c \in Containers : stock'[c] <= stock[c]

\* Goods change container and none is lost or made on the way.
Move(from, to) ==
    \E q \in 1..stock[from] :
        stock' = [stock EXCEPT ![from] = @ - q, ![to] = @ + q]

Next ==
    \/ Receive
    \/ Release
    \/ \E from, to \in Containers : from # to /\ Move(from, to)

Spec == Init /\ [][Next]_stock
=============================================================================
