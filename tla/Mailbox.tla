------------------------------ MODULE Mailbox ------------------------------
(* What messaging promises each user: a message lands once, in one mailbox  *)
(* that is not its sender's, and leaves it only when that user reads it.    *)
EXTENDS Naturals, Sequences

CONSTANT Users

VARIABLES
    box,   \* the unread messages of each user
    sent   \* the senders of the messages, in the order they were sent

Init ==
    /\ box = [u \in Users |-> {}]
    /\ sent = <<>>

Deliver(from, to) ==
    /\ from # to
    /\ sent' = Append(sent, from)
    /\ box' = [box EXCEPT ![to] = @ \cup {Len(sent) + 1}]

Read(u, S) ==
    /\ box' = [box EXCEPT ![u] = @ \ S]
    /\ UNCHANGED sent

Next ==
    \/ \E from, to \in Users : Deliver(from, to)
    \/ \E u \in Users : \E S \in SUBSET box[u] : Read(u, S)

Spec == Init /\ [][Next]_<<box, sent>>
=============================================================================
