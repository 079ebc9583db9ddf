----------------------------- MODULE OrderFlow -----------------------------
(***************************************************************************)
(* What the shop promises about an order: it starts pending and each of    *)
(* its status changes is one that the transition table allows.             *)
(***************************************************************************)
EXTENDS OrderStatus

CONSTANT Orders

VARIABLE status

Init == status = [o \in Orders |-> "pending"]

Move(o, s) ==
    /\ <<status[o], s>> \in Transition
    /\ status' = [status EXCEPT ![o] = s]

Next == \E o \in Orders, s \in Status : Move(o, s)

Spec == Init /\ [][Next]_status

=============================================================================
