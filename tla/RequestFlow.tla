---------------------------- MODULE RequestFlow ----------------------------
(***************************************************************************)
(* What the shop promises about a custom order request: it is quoted at    *)
(* most once, the quoted price stands from then on, and it is closed at    *)
(* most once, by an answer of the customer or by the quote's expiry.       *)
(***************************************************************************)
CONSTANTS Requests, Prices, NoPrice

VARIABLES status, price

Init ==
    /\ status = [r \in Requests |-> "none"]
    /\ price = [r \in Requests |-> NoPrice]

Submit(r) ==
    /\ status[r] = "none"
    /\ status' = [status EXCEPT ![r] = "submitted"]
    /\ UNCHANGED price

Quote(r, p) ==
    /\ status[r] = "submitted"
    /\ status' = [status EXCEPT ![r] = "quoted"]
    /\ price' = [price EXCEPT ![r] = p]

Accept(r) ==
    /\ status[r] = "quoted"
    /\ status' = [status EXCEPT ![r] = "accepted"]
    /\ UNCHANGED price

Decline(r) ==
    /\ status[r] \in {"submitted", "quoted"}
    /\ status' = [status EXCEPT ![r] = "declined"]
    /\ UNCHANGED price

\* Quotes run out, several at a time.
Expire(late) ==
    /\ \A r \in late : status[r] = "quoted"
    /\ status' = [r \in Requests |-> IF r \in late THEN "expired" ELSE status[r]]
    /\ UNCHANGED price

Next ==
    \/ \E r \in Requests :
          \/ Submit(r)
          \/ \E p \in Prices : Quote(r, p)
          \/ Accept(r)
          \/ Decline(r)
    \/ \E late \in SUBSET Requests : Expire(late)

Spec == Init /\ [][Next]_<<status, price>>

=============================================================================
