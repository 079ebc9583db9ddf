--------------------------- MODULE CustomRequest ---------------------------
(***************************************************************************)
(* Custom order requests: a customer submits one, the artisan quotes a     *)
(* price, the customer accepts or declines, and a daily task expires the   *)
(* quotes nobody answered.  No handler locks the row: each one reads it,   *)
(* checks the status of its copy and then writes, the quote every column   *)
(* and the answers only the columns they name.                             *)
(***************************************************************************)
EXTENDS Naturals

CONSTANTS
    Requests,
    WebWorkers,     \* processes that serve requests
    CeleryWorkers,  \* processes that run cleanup_expired_custom_requests
    Prices, NoPrice,
    MaxCrashes      \* bound: how often a process is killed

ASSUME RequestAssumption == NoPrice \notin Prices /\ MaxCrashes \in Nat

VARIABLES
    request,  \* the committed rows
    job,      \* what each process is doing
    crashes,
    raced,    \* history: the requests two handlers had read, to answer them, at once
    requoted, \* history: the requests two quotes of which were at work at once
    agreed    \* history: the price the last acceptance that was saved had read

history == <<raced, requoted, agreed>>
vars == <<request, job, crashes, history>>

Workers == WebWorkers \cup CeleryWorkers

\* CustomOrderRequest.Status without in_progress, completed and cancelled, which
\* no code sets; "none" before the row is inserted.
Status == {"none", "submitted", "quoted", "accepted", "declined", "expired"}

\* expires_at is NULL, a moment to come, or a moment that has passed.
Row == [status : Status, quoted_price : Prices \cup {NoPrice},
        accepted_at : BOOLEAN, expires_at : {"null", "ahead", "past"}]

NewRow == [status |-> "none", quoted_price |-> NoPrice, accepted_at |-> FALSE,
           expires_at |-> "null"]

Idle == [at |-> "idle"]
QuoteJob == [at : {"quote"}, request : Requests, copy : Row, price : Prices]
\* price: the quoted price of the copy, which the response shows.
AcceptJob == [at : {"accept"}, request : Requests, price : Prices]
AnswerJob == [at : {"decline", "expire"}, request : Requests]
Job == {Idle} \cup QuoteJob \cup AcceptJob \cup AnswerJob

Init ==
    /\ request = [r \in Requests |-> NewRow]
    /\ job = [w \in Workers |-> Idle]
    /\ crashes = 0
    /\ raced = {}
    /\ requoted = {}
    /\ agreed = [r \in Requests |-> NoPrice]

\* The handlers that have read r and are going to write it.
Handlers(r) == {w \in Workers : job[w] # Idle /\ job[w].request = r}

\* A handler of r has read the row.
Begin(w, r, j) ==
    /\ job[w] = Idle
    /\ job' = [job EXCEPT ![w] = j]
    /\ raced' = IF Handlers(r) = {} THEN raced ELSE raced \cup {r}
    /\ UNCHANGED <<request, crashes, agreed>>

\* It writes the row last.
End(w) ==
    /\ job' = [job EXCEPT ![w] = Idle]
    /\ UNCHANGED <<crashes, raced, requoted>>

-----------------------------------------------------------------------------
(* Requests                                                                *)

\* POST /orders/custom-requests/: status is read-only, so the default holds.
Submit(w, r) ==
    /\ job[w] = Idle
    /\ request[r].status = "none"
    /\ request' = [request EXCEPT ![r].status = "submitted"]
    /\ UNCHANGED <<job, crashes, history>>

AtQuote(w, r) == job[w].at = "quote" /\ job[w].request = r

Bug_QuoteRead(w, r, p) ==
    /\ request[r].status \in {"submitted", "quoted"}
    /\ Begin(w, r, [at |-> "quote", request |-> r, copy |-> request[r], price |-> p])
    /\ requoted' = IF \E v \in Workers : AtQuote(v, r) THEN requoted \cup {r} ELSE requoted

QuoteRead(w, r, p) ==
    /\ request[r].status = "submitted"
    /\ Begin(w, r, [at |-> "quote", request |-> r, copy |-> request[r], price |-> p])
    /\ requoted' = IF \E v \in Workers : AtQuote(v, r) THEN requoted \cup {r} ELSE requoted

\* The assignments of CustomOrderQuoteView to its copy.
Quoted(copy, p) ==
    [copy EXCEPT !.status = "quoted", !.quoted_price = p, !.expires_at = "ahead"]

\* save(): all columns, from the copy.
QuoteSave(w) ==
    /\ job[w].at = "quote"
    /\ request' = [request EXCEPT ![job[w].request] = Quoted(job[w].copy, job[w].price)]
    /\ End(w)
    /\ UNCHANGED agreed

\* The read of the row, the check of its status, and the choice by expires_at.
AcceptRead(w, r) ==
    /\ request[r].status = "quoted"
    /\ Begin(w, r, IF request[r].expires_at = "past"
                   THEN [at |-> "expire", request |-> r]
                   ELSE [at |-> "accept", request |-> r, price |-> request[r].quoted_price])
    /\ UNCHANGED requoted

\* save(update_fields=["status", "accepted_at"]) and the commit.
AcceptSave(w) ==
    /\ job[w].at = "accept"
    /\ request' = [request EXCEPT ![job[w].request].status = "accepted",
                                  ![job[w].request].accepted_at = TRUE]
    /\ agreed' = [agreed EXCEPT ![job[w].request] = job[w].price]
    /\ End(w)

\* save(update_fields=["status"]) on an accept that came too late.
ExpireSave(w) ==
    /\ job[w].at = "expire"
    /\ request' = [request EXCEPT ![job[w].request].status = "expired"]
    /\ End(w)
    /\ UNCHANGED agreed

Bug_DeclineRead(w, r) ==
    /\ request[r].status # "none"
    /\ Begin(w, r, [at |-> "decline", request |-> r])
    /\ UNCHANGED requoted

DeclineRead(w, r) ==
    /\ request[r].status \in {"quoted", "submitted"}
    /\ Begin(w, r, [at |-> "decline", request |-> r])
    /\ UNCHANGED requoted

DeclineSave(w) ==
    /\ job[w].at = "decline"
    /\ request' = [request EXCEPT ![job[w].request].status = "declined"]
    /\ End(w)
    /\ UNCHANGED agreed

-----------------------------------------------------------------------------
(* The daily task, time and failures                                       *)

Expires(late) ==
    /\ request' = [r \in Requests |->
                      IF r \in late THEN [request[r] EXCEPT !.status = "expired"]
                                    ELSE request[r]]
    /\ raced' = raced \cup {r \in late : Handlers(r) # {}}
    /\ UNCHANGED <<job, crashes, requoted, agreed>>

Bug_Cleanup(c) ==
    /\ job[c] = Idle
    /\ Expires({r \in Requests : request[r].status = "quoted"})

\* One UPDATE ... WHERE status = 'quoted' AND expires_at < now.
Cleanup(c) ==
    /\ job[c] = Idle
    /\ Expires({r \in Requests :
                   request[r].status = "quoted" /\ request[r].expires_at = "past"})

\* The seven days of a quote run out.  Requests end within gunicorn's 120 s, so
\* no quote that was at work beside this one is still at work now; an answer
\* may be.
Lapse(r) ==
    /\ request[r].expires_at = "ahead"
    /\ \A w \in Workers : job[w].at = "quote" => job[w].request # r
    /\ request' = [request EXCEPT ![r].expires_at = "past"]
    /\ UNCHANGED <<job, crashes, history>>

\* A process is killed; what it did not save is lost.
Crash(w) ==
    /\ job[w] # Idle
    /\ crashes < MaxCrashes
    /\ crashes' = crashes + 1
    /\ job' = [job EXCEPT ![w] = Idle]
    /\ UNCHANGED <<request, history>>

-----------------------------------------------------------------------------
(* Specification                                                           *)

Start(w, r) ==
    \/ Submit(w, r)
    \/ \E p \in Prices : QuoteRead(w, r, p)
    \/ AcceptRead(w, r)
    \/ DeclineRead(w, r)

Save(w) == QuoteSave(w) \/ AcceptSave(w) \/ ExpireSave(w) \/ DeclineSave(w)

Next ==
    \/ \E w \in WebWorkers, r \in Requests : Start(w, r)
    \/ \E w \in WebWorkers : Save(w)
    \/ \E c \in CeleryWorkers : Cleanup(c)
    \/ \E r \in Requests : Lapse(r)
    \/ \E w \in Workers : Crash(w)

Spec == Init /\ [][Next]_vars

-----------------------------------------------------------------------------
(* Properties                                                              *)

\* Every variable keeps its type; no request gets one of the unused statuses.
TypeOK ==
    /\ request \in [Requests -> Row]
    /\ job \in [Workers -> Job]
    /\ crashes \in 0 .. MaxCrashes
    /\ raced \subseteq Requests
    /\ requoted \subseteq Requests
    /\ agreed \in [Requests -> Prices \cup {NoPrice}]

\* Whatever handlers overlap, an accepted request has a price and the time of
\* the acceptance, and its price is the one the customer's accept had read:
\* neither the partial save of an answer nor the full save of a late quote
\* changes the price under an acceptance.  The price of a request two artisan
\* quotes of which were at work at once may be another one.
AcceptedOnTerms ==
    \A r \in Requests :
        request[r].status = "accepted" =>
            /\ request[r].quoted_price \in Prices
            /\ request[r].accepted_at
            /\ r \notin requoted => request[r].quoted_price = agreed[r]

\* Whatever requests overlap, a request expires only when the date of its quote
\* has passed: no late write gives an expired request a new date.
ExpiredIsOverdue ==
    \A r \in Requests :
        request[r].status = "expired" => request[r].expires_at = "past"

\* As long as no two handlers have one request open at once, a request is quoted
\* once, keeps its price and is closed once, as RequestFlow promises, whatever
\* handlers of other requests, quotes running out and killed processes do.
Flow == INSTANCE RequestFlow WITH
            status <- [r \in Requests |-> request[r].status],
            price  <- [r \in Requests |-> request[r].quoted_price]
FlowUnlessRaced ==
    [][raced' = {} =>
          [Flow!Next]_<<[r \in Requests |-> request[r].status],
                        [r \in Requests |-> request[r].quoted_price]>>]_vars

=============================================================================
