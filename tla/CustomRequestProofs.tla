------------------------ MODULE CustomRequestProofs ------------------------
(***************************************************************************)
(* What is proved of CustomRequest for every set of requests and processes *)
(* and any number of failures.                                             *)
(***************************************************************************)
EXTENDS CustomRequest, TLAPS

\* A quote has its price from the moment it is saved, a request has no date before
\* it is quoted, and only a quote whose date has passed is expired.
RowSound(row) ==
    /\ row.status \in {"none", "submitted"} => row.expires_at = "null" /\ row.quoted_price = NoPrice
    /\ row.status \in {"quoted", "accepted", "expired"} => row.quoted_price \in Prices
    /\ row.status = "accepted" => row.accepted_at
    /\ row.status = "expired" => row.expires_at = "past"

HistoryOK ==
    /\ raced \subseteq Requests
    /\ requoted \subseteq Requests
    /\ agreed \in [Requests -> Prices \cup {NoPrice}]

JobSound(j, rows) ==
    /\ j.at = "quote" => rows[j.request].expires_at # "past"
    /\ j.at = "accept" => rows[j.request].quoted_price \in Prices
    /\ j.at = "expire" => rows[j.request].quoted_price \in Prices
                          /\ rows[j.request].expires_at = "past"

IInv ==
    /\ TypeOK
    /\ \A r \in Requests : RowSound(request[r])
    /\ \A w \in Workers : JobSound(job[w], request)

\* The label of a process tells which record it holds.
LEMMA JobKinds ==
    ASSUME TypeOK, NEW w \in Workers
    PROVE  /\ job[w].at = "quote" => job[w] \in QuoteJob
           /\ job[w].at = "accept" => job[w] \in AcceptJob
           /\ job[w].at \in {"decline", "expire"} => job[w] \in AnswerJob
           /\ job[w] # Idle => job[w].request \in Requests
BY DEF TypeOK, Job, Idle, QuoteJob, AcceptJob, AnswerJob

LEMMA QuotedRow ==
    ASSUME NEW copy \in Row, NEW p \in Prices
    PROVE  /\ Quoted(copy, p) \in Row
           /\ Quoted(copy, p).status = "quoted"
           /\ Quoted(copy, p).quoted_price = p
           /\ Quoted(copy, p).expires_at = "ahead"
BY DEF Quoted, Row, Status

\* A process that starts or ends a job leaves the rows alone or writes one.
LEMMA JobSteps ==
    ASSUME IInv, NEW w \in Workers, NEW j \in Job, NEW rows \in [Requests -> Row],
           request' = rows, job' = [job EXCEPT ![w] = j], UNCHANGED crashes,
           HistoryOK',
           \A r \in Requests : RowSound(rows[r]),
           JobSound(j, rows),
           \A v \in Workers \ {w} : JobSound(job[v], rows)
    PROVE  IInv'
<1>1. TypeOK'
  BY DEF IInv, TypeOK, HistoryOK
<1>2. \A r \in Requests : RowSound(request'[r])
  OBVIOUS
<1>3. \A v \in Workers : JobSound(job'[v], request')
  <2> TAKE v \in Workers
  <2>1. job'[v] = IF v = w THEN j ELSE job[v]
    BY DEF IInv, TypeOK
  <2> QED BY <2>1
<1> QED BY <1>1, <1>2, <1>3 DEF IInv, RowSound, JobSound

LEMMA InitIInv == Init => IInv
<1> SUFFICES ASSUME Init PROVE IInv
  OBVIOUS
<1>1. NewRow \in Row /\ RowSound(NewRow)
  BY DEF NewRow, Row, Status, RowSound
<1>2. TypeOK
  BY <1>1, RequestAssumption DEF Init, TypeOK, Job
<1>3. \A w \in Workers : JobSound(job[w], request)
  BY DEF Init, JobSound, Idle
<1> QED BY <1>1, <1>2, <1>3 DEF Init, IInv

LEMMA NextIInv == IInv /\ [Next]_vars => IInv'
<1> SUFFICES ASSUME IInv, [Next]_vars PROVE IInv'
  OBVIOUS
<1>0. /\ TypeOK /\ request \in [Requests -> Row] /\ HistoryOK
      /\ Idle \in Job /\ WebWorkers \subseteq Workers /\ CeleryWorkers \subseteq Workers
      /\ \A r \in Requests : request[r] \in Row /\ RowSound(request[r])
      /\ \A w \in Workers : JobSound(job[w], request)
      /\ \A rows : JobSound(Idle, rows)
  BY DEF IInv, TypeOK, HistoryOK, Job, Workers, JobSound, Idle
<1>1. ASSUME NEW w \in WebWorkers, NEW r \in Requests, Submit(w, r)
      PROVE  IInv'
  <2> DEFINE rows == [request EXCEPT ![r].status = "submitted"]
  <2>1. rows \in [Requests -> Row] /\ rows[r] = [request[r] EXCEPT !.status = "submitted"]
    BY <1>0 DEF Row, Status
  <2>2. request' = rows /\ UNCHANGED <<job, crashes, history>>
    BY <1>1 DEF Submit
  <2>3. /\ rows[r].status = "submitted"
        /\ rows[r].expires_at = request[r].expires_at
        /\ rows[r].quoted_price = request[r].quoted_price
        /\ \A x \in Requests \ {r} : rows[x] = request[x]
    BY <1>0, <2>1 DEF Row
  <2> HIDE DEF rows
  <2>4. \A x \in Requests : RowSound(rows[x])
    BY <1>0, <1>1, <2>3 DEF RowSound, Submit
  <2>5. ASSUME NEW v \in Workers PROVE JobSound(job[v], rows)
    <3>1. CASE job[v].at \in {"quote", "accept", "expire", "decline"}
      <4>1. job[v].request \in Requests
        BY <1>0, <3>1, JobKinds DEF Idle
      <4> QED BY <1>0, <2>3, <4>1, <1>1 DEF JobSound, RowSound, Submit
    <3> QED BY <3>1 DEF JobSound
  <2> QED BY <1>0, <2>1, <2>2, <2>4, <2>5 DEF IInv, TypeOK, history
<1>2. ASSUME NEW w \in WebWorkers, NEW r \in Requests, NEW p \in Prices, QuoteRead(w, r, p)
      PROVE  IInv'
  <2> DEFINE j == [at |-> "quote", request |-> r, copy |-> request[r], price |-> p]
  <2>1. j \in Job /\ w \in Workers /\ j.at = "quote" /\ j.request = r
    BY <1>0 DEF Job, QuoteJob
  <2>2. /\ request' = request /\ job' = [job EXCEPT ![w] = j] /\ UNCHANGED crashes
        /\ HistoryOK'
    BY <1>0, <1>2 DEF QuoteRead, Begin, HistoryOK
  <2> HIDE DEF j
  <2>3. JobSound(j, request)
    BY <1>0, <1>2, <2>1 DEF QuoteRead, JobSound, RowSound
  <2> QED BY <1>0, <2>1, <2>2, <2>3, JobSteps
<1>3. ASSUME NEW w \in WebWorkers, NEW r \in Requests, AcceptRead(w, r)
      PROVE  IInv'
  <2> DEFINE j == IF request[r].expires_at = "past"
                  THEN [at |-> "expire", request |-> r]
                  ELSE [at |-> "accept", request |-> r, price |-> request[r].quoted_price]
  <2>0. request[r].quoted_price \in Prices
    BY <1>0, <1>3 DEF AcceptRead, RowSound
  <2>1. /\ j \in Job /\ w \in Workers /\ j.request = r
        /\ j.at = IF request[r].expires_at = "past" THEN "expire" ELSE "accept"
    BY <1>0, <2>0 DEF Job, AcceptJob, AnswerJob
  <2>2. /\ request' = request /\ job' = [job EXCEPT ![w] = j] /\ UNCHANGED crashes
        /\ HistoryOK'
    BY <1>0, <1>3 DEF AcceptRead, Begin, HistoryOK
  <2> HIDE DEF j
  <2>3. JobSound(j, request)
    BY <1>0, <1>3, <2>1 DEF AcceptRead, JobSound, RowSound
  <2> QED BY <1>0, <2>1, <2>2, <2>3, JobSteps
<1>4. ASSUME NEW w \in WebWorkers, NEW r \in Requests, DeclineRead(w, r)
      PROVE  IInv'
  <2> DEFINE j == [at |-> "decline", request |-> r]
  <2>1. j \in Job /\ w \in Workers /\ j.request = r /\ j.at = "decline"
    BY <1>0 DEF Job, AnswerJob
  <2>2. /\ request' = request /\ job' = [job EXCEPT ![w] = j] /\ UNCHANGED crashes
        /\ HistoryOK'
    BY <1>0, <1>4 DEF DeclineRead, Begin, HistoryOK
  <2> HIDE DEF j
  <2>3. JobSound(j, request)
    BY <1>4, <2>1 DEF DeclineRead, JobSound
  <2> QED BY <1>0, <2>1, <2>2, <2>3, JobSteps
<1>5. ASSUME NEW w \in WebWorkers, QuoteSave(w)
      PROVE  IInv'
  <2> DEFINE r == job[w].request
             q == Quoted(job[w].copy, job[w].price)
             rows == [request EXCEPT ![r] = q]
  <2>1. job[w] \in QuoteJob /\ job[w].at = "quote" /\ w \in Workers
    BY <1>0, <1>5, JobKinds DEF QuoteSave
  <2>2. /\ r \in Requests /\ q \in Row
        /\ q.status = "quoted" /\ q.quoted_price \in Prices /\ q.expires_at = "ahead"
    BY <2>1, QuotedRow DEF QuoteJob
  <2>3. request[r].expires_at # "past"
    BY <1>0, <2>1 DEF JobSound
  <2>4. /\ request' = rows /\ job' = [job EXCEPT ![w] = Idle] /\ UNCHANGED crashes
        /\ HistoryOK'
    BY <1>0, <1>5 DEF QuoteSave, End, HistoryOK
  <2> HIDE DEF q
  <2>5. rows \in [Requests -> Row] /\ rows[r] = q /\ \A x \in Requests \ {r} : rows[x] = request[x]
    BY <1>0, <2>2
  <2> HIDE DEF rows, r
  <2>6. \A x \in Requests : RowSound(rows[x])
    BY <1>0, <2>2, <2>5 DEF RowSound
  <2>7. ASSUME NEW v \in Workers PROVE JobSound(job[v], rows)
    BY <1>0, <2>2, <2>3, <2>5, JobKinds DEF JobSound, Idle
  <2> QED BY <1>0, <2>1, <2>4, <2>5, <2>6, <2>7, JobSteps
\* An answer writes the status, and the time of an acceptance, of one row.
<1>a. ASSUME NEW w \in WebWorkers, NEW s \in {"accepted", "declined", "expired"},
             NEW t \in BOOLEAN,
             job[w] \in AcceptJob \cup AnswerJob,
             request' = [request EXCEPT ![job[w].request].status = s,
                                        ![job[w].request].accepted_at = t],
             job' = [job EXCEPT ![w] = Idle], UNCHANGED crashes, HistoryOK',
             s \in {"accepted", "expired"} =>
                 request[job[w].request].quoted_price \in Prices,
             s = "accepted" => t,
             s = "expired" => request[job[w].request].expires_at = "past"
      PROVE  IInv'
  <2> DEFINE r == job[w].request
             rows == [request EXCEPT ![r].status = s, ![r].accepted_at = t]
             q == [request[r] EXCEPT !.status = s, !.accepted_at = t]
  <2>1. r \in Requests /\ w \in Workers /\ request[r] \in Row
    BY <1>0, <1>a DEF AcceptJob, AnswerJob
  <2>2. /\ q \in Row
        /\ q.status = s /\ q.accepted_at = t
        /\ q.quoted_price = request[r].quoted_price /\ q.expires_at = request[r].expires_at
    BY <2>1 DEF Row, Status
  <2>3. rows \in [Requests -> Row] /\ rows[r] = q /\ \A x \in Requests \ {r} : rows[x] = request[x]
    BY <1>0, <2>1, <2>2
  <2>4. request' = rows
    BY <1>a
  <2> HIDE DEF q, rows
  <2>5. \A x \in Requests : RowSound(rows[x])
    BY <1>0, <1>a, <2>2, <2>3 DEF RowSound
  <2>6. ASSUME NEW v \in Workers PROVE JobSound(job[v], rows)
    BY <1>0, <2>2, <2>3, JobKinds DEF JobSound, Idle
  <2> QED BY <1>0, <1>a, <2>1, <2>3, <2>4, <2>5, <2>6, JobSteps
<1>6. ASSUME NEW w \in WebWorkers, AcceptSave(w)
      PROVE  IInv'
  <2>1. job[w] \in AcceptJob /\ job[w].at = "accept" /\ w \in Workers
    BY <1>0, <1>6, JobKinds DEF AcceptSave
  <2>2. request[job[w].request].quoted_price \in Prices
    BY <1>0, <2>1 DEF JobSound
  <2>3. HistoryOK'
    BY <1>0, <1>6, <2>1 DEF AcceptSave, End, HistoryOK, AcceptJob
  <2> QED BY <1>6, <1>a, <2>1, <2>2, <2>3 DEF AcceptSave, End
<1>b. ASSUME NEW r \in Requests, NEW s
      PROVE  [request EXCEPT ![r].status = s]
             = [request EXCEPT ![r].status = s, ![r].accepted_at = request[r].accepted_at]
  BY <1>0, <1>b DEF Row
<1>7. ASSUME NEW w \in WebWorkers, ExpireSave(w)
      PROVE  IInv'
  <2>1. job[w] \in AnswerJob /\ job[w].at = "expire" /\ w \in Workers
    BY <1>0, <1>7, JobKinds DEF ExpireSave
  <2>2. /\ request[job[w].request].quoted_price \in Prices
        /\ request[job[w].request].expires_at = "past"
    BY <1>0, <2>1 DEF JobSound
  <2>3. job[w].request \in Requests /\ request[job[w].request].accepted_at \in BOOLEAN
    BY <1>0, <2>1 DEF AnswerJob, Row
  <2>4. request' = [request EXCEPT
                       ![job[w].request].status = "expired",
                       ![job[w].request].accepted_at = request[job[w].request].accepted_at]
    BY <1>7, <1>b, <2>3 DEF ExpireSave
  <2>5. HistoryOK'
    BY <1>0, <1>7 DEF ExpireSave, End, HistoryOK
  <2> QED BY <1>7, <1>a, <2>1, <2>2, <2>3, <2>4, <2>5 DEF ExpireSave, End
<1>8. ASSUME NEW w \in WebWorkers, DeclineSave(w)
      PROVE  IInv'
  <2>1. job[w] \in AnswerJob /\ job[w].at = "decline" /\ w \in Workers
    BY <1>0, <1>8, JobKinds DEF DeclineSave
  <2>3. job[w].request \in Requests /\ request[job[w].request].accepted_at \in BOOLEAN
    BY <1>0, <2>1 DEF AnswerJob, Row
  <2>4. request' = [request EXCEPT
                       ![job[w].request].status = "declined",
                       ![job[w].request].accepted_at = request[job[w].request].accepted_at]
    BY <1>8, <1>b, <2>3 DEF DeclineSave
  <2>5. HistoryOK'
    BY <1>0, <1>8 DEF DeclineSave, End, HistoryOK
  <2> QED BY <1>8, <1>a, <2>1, <2>3, <2>4, <2>5 DEF DeclineSave, End
\* The task and the passing of time start and end no job.
<1>c. ASSUME NEW rows \in [Requests -> Row], request' = rows, UNCHANGED <<job, crashes>>,
             HistoryOK',
             \A x \in Requests : RowSound(rows[x]),
             \A v \in Workers : JobSound(job[v], rows)
      PROVE  IInv'
  BY <1>c DEF IInv, TypeOK, HistoryOK, RowSound, JobSound
<1>9. ASSUME NEW c \in CeleryWorkers, Cleanup(c)
      PROVE  IInv'
  <2> DEFINE late == {x \in Requests : request[x].status = "quoted"
                                       /\ request[x].expires_at = "past"}
             rows == [x \in Requests |->
                         IF x \in late THEN [request[x] EXCEPT !.status = "expired"]
                                       ELSE request[x]]
  <2>1. ASSUME NEW x \in Requests
        PROVE  /\ rows[x] \in Row /\ RowSound(rows[x])
               /\ rows[x].quoted_price = request[x].quoted_price
               /\ rows[x].expires_at = request[x].expires_at
    BY <1>0, <2>1 DEF Row, Status, RowSound
  <2>2. request' = rows /\ UNCHANGED <<job, crashes>> /\ HistoryOK'
    BY <1>0, <1>9 DEF Cleanup, Expires, HistoryOK
  <2>3. rows \in [Requests -> Row]
    BY <2>1
  <2> HIDE DEF rows
  <2>4. ASSUME NEW v \in Workers PROVE JobSound(job[v], rows)
    BY <1>0, <2>1, JobKinds DEF JobSound, Idle
  <2> QED BY <1>c, <2>1, <2>2, <2>3, <2>4
<1>10. ASSUME NEW r \in Requests, Lapse(r)
       PROVE  IInv'
  <2> DEFINE rows == [request EXCEPT ![r].expires_at = "past"]
             q == [request[r] EXCEPT !.expires_at = "past"]
  <2>1. /\ q \in Row /\ q.status = request[r].status /\ q.expires_at = "past"
        /\ q.quoted_price = request[r].quoted_price /\ q.accepted_at = request[r].accepted_at
    BY <1>0 DEF Row
  <2>2. rows \in [Requests -> Row] /\ rows[r] = q /\ \A x \in Requests \ {r} : rows[x] = request[x]
    BY <1>0, <2>1
  <2>3. /\ request' = rows /\ UNCHANGED <<job, crashes>> /\ HistoryOK'
        /\ request[r].expires_at = "ahead"
        /\ \A w \in Workers : job[w].at = "quote" => job[w].request # r
    BY <1>0, <1>10 DEF Lapse, HistoryOK, history
  <2> HIDE DEF q, rows
  <2>4. \A x \in Requests : RowSound(rows[x])
    BY <1>0, <2>1, <2>2, <2>3 DEF RowSound
  <2>5. ASSUME NEW v \in Workers PROVE JobSound(job[v], rows)
    BY <1>0, <2>1, <2>2, <2>3, JobKinds DEF JobSound, Idle
  <2> QED BY <1>c, <2>2, <2>3, <2>4, <2>5
<1>11. ASSUME NEW w \in Workers, Crash(w)
       PROVE  IInv'
  <2>1. /\ request' = request /\ job' = [job EXCEPT ![w] = Idle]
        /\ crashes' \in 0 .. MaxCrashes /\ HistoryOK'
    BY <1>0, <1>11, RequestAssumption DEF Crash, TypeOK, HistoryOK, history
  <2>2. TypeOK'
    BY <1>0, <2>1 DEF TypeOK, HistoryOK
  <2>3. ASSUME NEW v \in Workers PROVE JobSound(job'[v], request)
    <3>1. job'[v] = IF v = w THEN Idle ELSE job[v]
      BY <1>0, <2>1 DEF TypeOK
    <3> QED BY <1>0, <3>1
  <2> QED BY <1>0, <2>1, <2>2, <2>3 DEF IInv, RowSound, JobSound
<1>12. CASE UNCHANGED vars
  BY <1>12 DEF vars, history, IInv, TypeOK, RowSound, JobSound
<1> QED
  BY <1>1, <1>2, <1>3, <1>4, <1>5, <1>6, <1>7, <1>8, <1>9, <1>10, <1>11, <1>12
  DEF Next, Start, Save

\* The rows and the handlers keep their types, and no request gets one of the
\* statuses the enumeration declares and no handler uses.
THEOREM TypeCorrect == Spec => []TypeOK
<1>1. IInv => TypeOK
  BY DEF IInv
<1> QED BY InitIInv, NextIInv, <1>1, PTL DEF Spec

\* However quotes, answers, the task and failures interleave, only overdue quotes
\* expire.
THEOREM OnlyOverdueExpire == Spec => []ExpiredIsOverdue
<1>1. IInv => ExpiredIsOverdue
  BY DEF IInv, ExpiredIsOverdue, RowSound
<1> QED BY InitIInv, NextIInv, <1>1, PTL DEF Spec

-----------------------------------------------------------------------------
(* The price of an acceptance                                              *)

\* As long as no two quotes of r are at work at once: a quote is at work only on
\* a row without a price, so the price an accept has read is the row's.
Terms(r) ==
    r \notin requoted =>
        /\ \A v, w \in Workers : AtQuote(v, r) /\ AtQuote(w, r) => v = w
        /\ \A w \in Workers : AtQuote(w, r) => request[r].quoted_price = NoPrice
        /\ \A w \in Workers : job[w].at = "accept" /\ job[w].request = r =>
              job[w].price = request[r].quoted_price
        /\ request[r].status = "accepted" => agreed[r] = request[r].quoted_price

\* A step of one process that leaves the price of r alone, and does not accept r.
LEMMA TermsStay ==
    ASSUME IInv, NEW r \in Requests, Terms(r), requoted \subseteq requoted',
           NEW w \in Workers, NEW j, job' = [job EXCEPT ![w] = j],
           request'[r].quoted_price = request[r].quoted_price,
           request'[r].status = "accepted" => agreed'[r] = request[r].quoted_price,
           r \notin requoted' /\ j.at = "quote" /\ j.request = r =>
               /\ \A v \in Workers \ {w} : ~AtQuote(v, r)
               /\ request[r].quoted_price = NoPrice,
           j.at = "accept" /\ j.request = r => j.price = request[r].quoted_price
    PROVE  Terms(r)'
<1>1. \A v \in Workers : job'[v] = IF v = w THEN j ELSE job[v]
  BY DEF IInv, TypeOK
<1> SUFFICES ASSUME r \notin requoted'
             PROVE  /\ \A v, u \in Workers : AtQuote(v, r)' /\ AtQuote(u, r)' => v = u
                    /\ \A v \in Workers : AtQuote(v, r)' => request[r].quoted_price = NoPrice
                    /\ \A v \in Workers : job'[v].at = "accept" /\ job'[v].request = r =>
                          job'[v].price = request[r].quoted_price
  BY DEF Terms
<1>2. Terms(r) /\ r \notin requoted
  OBVIOUS
<1>3. ASSUME NEW v \in Workers \ {w} PROVE AtQuote(v, r)' <=> AtQuote(v, r)
  BY <1>1, <1>3 DEF AtQuote
<1>4. AtQuote(w, r)' <=> j.at = "quote" /\ j.request = r
  BY <1>1 DEF AtQuote
<1>5. \A v, u \in Workers : AtQuote(v, r)' /\ AtQuote(u, r)' => v = u
  BY <1>2, <1>3, <1>4 DEF Terms
<1>6. \A v \in Workers : AtQuote(v, r)' => request[r].quoted_price = NoPrice
  BY <1>2, <1>3, <1>4 DEF Terms
<1>7. \A v \in Workers : job'[v].at = "accept" /\ job'[v].request = r =>
         job'[v].price = request[r].quoted_price
  BY <1>1, <1>2 DEF Terms
<1> QED BY <1>5, <1>6, <1>7

LEMMA RequotedGrows == [Next]_vars => requoted \subseteq requoted'
BY DEF Next, vars, history, Start, Save, Submit, QuoteRead, AcceptRead, DeclineRead, Begin, End,
       QuoteSave, AcceptSave, ExpireSave, DeclineSave, Cleanup, Expires, Lapse, Crash

LEMMA NextTerms ==
    ASSUME IInv, [Next]_vars, NEW r \in Requests, Terms(r)
    PROVE  Terms(r)'
<1>0. /\ TypeOK /\ request \in [Requests -> Row] /\ requoted \subseteq requoted'
      /\ WebWorkers \subseteq Workers /\ CeleryWorkers \subseteq Workers
      /\ NoPrice \notin Prices
      /\ \A x \in Requests : request[x] \in Row /\ RowSound(request[x])
      /\ r \notin requoted /\ request[r].status = "accepted" =>
            agreed[r] = request[r].quoted_price
  BY RequotedGrows, RequestAssumption DEF IInv, TypeOK, Workers, Terms
<1> SUFFICES ASSUME r \notin requoted' PROVE Terms(r)'
  BY DEF Terms
\* A handler that has read a row.
<1>a. ASSUME NEW w \in Workers, NEW q \in Requests, NEW j, Begin(w, q, j), j.request = q,
             j.at = "quote" =>
                 /\ \A v \in Workers : ~AtQuote(v, q)
                 /\ request[q].status = "submitted",
             j.at = "accept" => j.price = request[q].quoted_price
      PROVE  Terms(r)'
  <2>1. /\ job' = [job EXCEPT ![w] = j] /\ request' = request /\ agreed' = agreed
    BY <1>a DEF Begin
  <2>2. j.at = "quote" => request[q].quoted_price = NoPrice
    BY <1>0, <1>a DEF RowSound
  <2>3. \A v \in Workers : j.at = "quote" /\ q = r => ~AtQuote(v, r)
    BY <1>a
  <2>4. request'[r].status = "accepted" => agreed'[r] = request[r].quoted_price
    BY <1>0, <2>1
  <2> QED BY <1>0, <1>a, <2>1, <2>2, <2>3, <2>4, TermsStay
\* One that is done and has left the price alone.
<1>b. ASSUME NEW w \in Workers, job' = [job EXCEPT ![w] = Idle],
             request'[r].quoted_price = request[r].quoted_price,
             request'[r].status = "accepted" => agreed'[r] = request[r].quoted_price
      PROVE  Terms(r)'
  <2>1. Idle.at = "idle"
    BY DEF Idle
  <2> QED BY <1>0, <1>b, <2>1, TermsStay
\* No process starts or ends a job.
<1>c. ASSUME job' = job, agreed' = agreed,
             request'[r].quoted_price = request[r].quoted_price,
             request'[r].status = "accepted" => request[r].status = "accepted"
      PROVE  Terms(r)'
  <2>1. r \notin requoted
    BY <1>0
  <2>2. \A v \in Workers : AtQuote(v, r)' <=> AtQuote(v, r)
    BY <1>c DEF AtQuote
  <2> QED BY <1>0, <1>c, <2>1, <2>2 DEF Terms
<1>1. ASSUME NEW w \in WebWorkers, NEW q \in Requests, Submit(w, q) PROVE Terms(r)'
  <2>1. job' = job /\ agreed' = agreed /\ request' = [request EXCEPT ![q].status = "submitted"]
    BY <1>1 DEF Submit, history
  <2>2. /\ request'[r].quoted_price = request[r].quoted_price
        /\ request'[r].status = "accepted" => request[r].status = "accepted"
    BY <1>0, <2>1 DEF Row
  <2> QED BY <1>c, <2>1, <2>2
<1>2. ASSUME NEW w \in WebWorkers, NEW q \in Requests, NEW p \in Prices, QuoteRead(w, q, p)
      PROVE  Terms(r)'
  <2> DEFINE j == [at |-> "quote", request |-> q, copy |-> request[q], price |-> p]
  <2>1. /\ Begin(w, q, j) /\ request[q].status = "submitted"
        /\ q \notin requoted' => \A v \in Workers : ~AtQuote(v, q)
    BY <1>2 DEF QuoteRead
  <2>2. j.at = "quote" /\ j.request = q
    OBVIOUS
  <2> HIDE DEF j
  <2>3. CASE q = r
    BY <1>0, <1>a, <2>1, <2>2, <2>3
  <2>4. CASE q # r
    <3>1. job' = [job EXCEPT ![w] = j] /\ request' = request /\ agreed' = agreed
      BY <2>1 DEF Begin
    <3>2. request'[r].status = "accepted" => agreed'[r] = request[r].quoted_price
      BY <1>0, <3>1
    <3> QED BY <1>0, <2>2, <2>4, <3>1, <3>2, TermsStay
  <2> QED BY <2>3, <2>4
<1>3. ASSUME NEW w \in WebWorkers, NEW q \in Requests, AcceptRead(w, q) PROVE Terms(r)'
  <2> DEFINE j == IF request[q].expires_at = "past"
                  THEN [at |-> "expire", request |-> q]
                  ELSE [at |-> "accept", request |-> q, price |-> request[q].quoted_price]
  <2>1. Begin(w, q, j)
    BY <1>3 DEF AcceptRead
  <2>2. /\ j.request = q /\ j.at # "quote"
        /\ j.at = "accept" => j.price = request[q].quoted_price
    OBVIOUS
  <2> HIDE DEF j
  <2> QED BY <1>0, <1>a, <2>1, <2>2
<1>4. ASSUME NEW w \in WebWorkers, NEW q \in Requests, DeclineRead(w, q) PROVE Terms(r)'
  <2> DEFINE j == [at |-> "decline", request |-> q]
  <2>1. Begin(w, q, j)
    BY <1>4 DEF DeclineRead
  <2>2. j.request = q /\ j.at = "decline"
    OBVIOUS
  <2> HIDE DEF j
  <2> QED BY <1>0, <1>a, <2>1, <2>2
<1>5. ASSUME NEW w \in WebWorkers, QuoteSave(w) PROVE Terms(r)'
  <2> DEFINE q == job[w].request
             row == Quoted(job[w].copy, job[w].price)
  <2>1. /\ job[w] \in QuoteJob /\ w \in Workers /\ q \in Requests /\ AtQuote(w, q)
        /\ job' = [job EXCEPT ![w] = Idle] /\ agreed' = agreed
        /\ request' = [request EXCEPT ![q] = row]
    BY <1>0, <1>5, JobKinds DEF QuoteSave, End, QuoteJob, AtQuote
  <2>2. row.status = "quoted"
    BY <2>1, QuotedRow DEF QuoteJob
  <2> HIDE DEF row, q
  <2>3. CASE q # r
    BY <1>0, <1>b, <2>1, <2>3
  <2>4. CASE q = r
    <3>1. r \notin requoted /\ request'[r] = row /\ AtQuote(w, r)
      BY <1>0, <2>1, <2>4
    <3>2. request[r].quoted_price = NoPrice /\ \A v \in Workers : AtQuote(v, r) => v = w
      BY <2>1, <3>1 DEF Terms
    <3>3. \A v \in Workers : job'[v] = IF v = w THEN Idle ELSE job[v]
      BY <1>0, <2>1 DEF TypeOK
    <3>4. ASSUME NEW v \in Workers PROVE ~AtQuote(v, r)'
      BY <3>2, <3>3 DEF AtQuote, Idle
    <3>5. ASSUME NEW v \in Workers, job'[v].at = "accept", job'[v].request = r PROVE FALSE
      <4>1. job[v].at = "accept" /\ job[v].request = r
        BY <3>3, <3>5 DEF Idle
      <4>2. job[v].price \in Prices /\ job[v].price = NoPrice
        BY <1>0, <3>1, <3>2, <4>1, JobKinds DEF Terms, AcceptJob
      <4> QED BY <1>0, <4>2
    <3> QED BY <2>2, <3>1, <3>4, <3>5 DEF Terms
  <2> QED BY <2>3, <2>4
<1>6. ASSUME NEW w \in WebWorkers, AcceptSave(w) PROVE Terms(r)'
  <2> DEFINE q == job[w].request
  <2>1. /\ job[w] \in AcceptJob /\ job[w].at = "accept" /\ w \in Workers /\ q \in Requests
        /\ job' = [job EXCEPT ![w] = Idle] /\ agreed' = [agreed EXCEPT ![q] = job[w].price]
        /\ request' = [request EXCEPT ![q].status = "accepted", ![q].accepted_at = TRUE]
    BY <1>0, <1>6, JobKinds DEF AcceptSave, End, AcceptJob
  <2>2. request'[r].quoted_price = request[r].quoted_price
    BY <1>0, <2>1 DEF Row
  <2>3. q # r => request'[r] = request[r] /\ agreed'[r] = agreed[r]
    BY <1>0, <2>1 DEF TypeOK
  <2>4. q = r => agreed'[r] = job[w].price
    BY <1>0, <2>1 DEF TypeOK
  <2>5. q = r => job[w].price = request[r].quoted_price
    BY <1>0, <2>1 DEF Terms
  <2> QED BY <1>0, <1>b, <2>1, <2>2, <2>3, <2>4, <2>5
<1>7. ASSUME NEW w \in WebWorkers, ExpireSave(w) \/ DeclineSave(w) PROVE Terms(r)'
  <2>1. /\ job' = [job EXCEPT ![w] = Idle] /\ agreed' = agreed /\ w \in Workers
        /\ \E s \in {"expired", "declined"} :
              request' = [request EXCEPT ![job[w].request].status = s]
    BY <1>0, <1>7 DEF ExpireSave, DeclineSave, End
  <2>2. /\ request'[r].quoted_price = request[r].quoted_price
        /\ request'[r].status = "accepted" => request[r].status = "accepted"
    BY <1>0, <2>1 DEF Row
  <2> QED BY <1>0, <1>b, <2>1, <2>2
<1>8. ASSUME NEW c \in CeleryWorkers, Cleanup(c) PROVE Terms(r)'
  <2>1. job' = job /\ agreed' = agreed
    BY <1>8 DEF Cleanup, Expires
  <2>2. request'[r] \in {request[r], [request[r] EXCEPT !.status = "expired"]}
    BY <1>0, <1>8 DEF Cleanup, Expires
  <2>3. /\ request'[r].quoted_price = request[r].quoted_price
        /\ request'[r].status = "accepted" => request[r].status = "accepted"
    BY <1>0, <2>2 DEF Row
  <2> QED BY <1>c, <2>1, <2>3
<1>9. ASSUME NEW q \in Requests, Lapse(q) PROVE Terms(r)'
  <2>1. job' = job /\ agreed' = agreed /\ request' = [request EXCEPT ![q].expires_at = "past"]
    BY <1>9 DEF Lapse, history
  <2>2. /\ request'[r].quoted_price = request[r].quoted_price
        /\ request'[r].status = "accepted" => request[r].status = "accepted"
    BY <1>0, <2>1 DEF Row
  <2> QED BY <1>c, <2>1, <2>2
<1>10. ASSUME NEW w \in Workers, Crash(w) PROVE Terms(r)'
  <2>1. job' = [job EXCEPT ![w] = Idle] /\ UNCHANGED <<request, agreed>>
    BY <1>10 DEF Crash, history
  <2> QED BY <1>0, <1>b, <2>1
<1>11. CASE UNCHANGED vars
  BY <1>11, <1>c DEF vars, history
<1> QED
  BY <1>1, <1>2, <1>3, <1>4, <1>5, <1>6, <1>7, <1>8, <1>9, <1>10, <1>11
  DEF Next, Start, Save

\* However quotes, answers, the task and failures interleave, an accepted request
\* has the time of its acceptance and the price that accept had read, unless two
\* quotes of it were at work at once: then it has one of their prices.
THEOREM AcceptancesHaveTerms == Spec => []AcceptedOnTerms
<1> DEFINE PInv == IInv /\ \A r \in Requests : Terms(r)
<1>1. Init => PInv
  BY InitIInv DEF Init, Terms, NewRow, AtQuote, Idle
<1>2. PInv /\ [Next]_vars => PInv'
  BY NextIInv, NextTerms
<1>3. PInv => AcceptedOnTerms
  BY DEF IInv, Terms, AcceptedOnTerms, RowSound
<1> QED BY <1>1, <1>2, <1>3, PTL DEF Spec

-----------------------------------------------------------------------------
(* As long as no two handlers have one request open                        *)

\* What a handler checked still holds when it writes.
JobFresh(j, rows) ==
    /\ j.at = "quote" => rows[j.request].status = "submitted"
    /\ j.at \in {"accept", "expire"} => rows[j.request].status = "quoted"
    /\ j.at = "decline" => rows[j.request].status \in {"submitted", "quoted"}

Apart ==
    /\ \A w \in Workers : JobFresh(job[w], request)
    /\ \A v, w \in Workers :
          job[v] # Idle /\ job[w] # Idle /\ job[v].request = job[w].request => v = w

SInv == IInv /\ (raced = {} => Apart)

Statuses == [r \in Requests |-> request[r].status]
PricesOf == [r \in Requests |-> request[r].quoted_price]

\* A request stays raced.
LEMMA RacedGrows == [Next]_vars => raced \subseteq raced'
BY DEF Next, vars, history, Start, Save, Submit, QuoteRead, AcceptRead, DeclineRead, Begin, End,
       QuoteSave, AcceptSave, ExpireSave, DeclineSave, Cleanup, Expires, Lapse, Crash

LEMMA ApartStep ==
    ASSUME SInv, [Next]_vars, raced' = {}
    PROVE  Apart' /\ [Flow!Next]_<<Statuses, PricesOf>>
<1>0. /\ IInv /\ IInv' /\ TypeOK /\ TypeOK' /\ Apart
      /\ WebWorkers \subseteq Workers /\ CeleryWorkers \subseteq Workers
      /\ request \in [Requests -> Row] /\ job \in [Workers -> Job]
      /\ \A rows : JobFresh(Idle, rows)
  <2>1. raced = {}
    BY RacedGrows
  <2> QED BY <2>1, NextIInv DEF SInv, IInv, Workers, TypeOK, JobFresh, Idle
\* A handler that has begun is the only one of its request.
<1>a. ASSUME NEW w \in Workers, NEW r \in Requests, NEW j, j # Idle, j.request = r,
             Begin(w, r, j), JobFresh(j, request)
      PROVE  Apart' /\ request' = request
  <2>1. request' = request /\ job' = [job EXCEPT ![w] = j] /\ Handlers(r) = {}
    BY <1>a DEF Begin
  <2>2. \A v \in Workers : job'[v] = IF v = w THEN j ELSE job[v]
    BY <1>0, <2>1
  <2>3. \A v \in Workers : job[v] # Idle => job[v].request # r
    BY <2>1 DEF Handlers
  <2> QED BY <1>0, <1>a, <2>1, <2>2, <2>3 DEF Apart
\* One that ends has written its own request.
<1>b. ASSUME NEW w \in Workers, NEW r \in Requests, NEW q, job[w] # Idle, job[w].request = r,
             request' = [request EXCEPT ![r] = q], End(w)
      PROVE  Apart'
  <2>1. \A v \in Workers : job'[v] = IF v = w THEN Idle ELSE job[v]
    BY <1>0, <1>b DEF End
  <2>2. ASSUME NEW v \in Workers PROVE JobFresh(job'[v], request')
    <3>1. CASE v # w /\ job[v].at \in {"quote", "accept", "decline", "expire"}
      <4>1. job[v] # Idle
        BY <3>1 DEF Idle
      <4>2. job[v].request \in Requests \ {r}
        BY <1>0, <1>b, <3>1, <4>1, JobKinds DEF Apart, Idle
      <4>3. request'[job[v].request] = request[job[v].request]
        BY <1>0, <1>b, <4>2
      <4> QED BY <1>0, <2>1, <3>1, <4>3 DEF Apart, JobFresh
    <3> QED BY <1>0, <2>1, <3>1 DEF JobFresh, Idle
  <2> QED BY <1>0, <2>1, <2>2 DEF Apart
<1>f. ASSUME request' = request
      PROVE  [Flow!Next]_<<Statuses, PricesOf>>
  BY <1>f DEF Statuses, PricesOf
\* Writing one row is a step of RequestFlow on its status and price.
<1>c. ASSUME NEW r \in Requests, NEW q \in Row, request' = [request EXCEPT ![r] = q]
      PROVE  /\ Statuses' = [Statuses EXCEPT ![r] = q.status]
             /\ PricesOf' = [PricesOf EXCEPT ![r] = q.quoted_price]
             /\ q.quoted_price = request[r].quoted_price => PricesOf' = PricesOf
             /\ request[r].status = Statuses[r]
  <2>1. \A x \in Requests : request'[x] = IF x = r THEN q ELSE request[x]
    BY <1>0, <1>c
  <2> QED BY <1>0, <2>1 DEF Statuses, PricesOf
<1>1. ASSUME NEW w \in WebWorkers, NEW r \in Requests, Submit(w, r)
      PROVE  Apart' /\ [Flow!Next]_<<Statuses, PricesOf>>
  <2> DEFINE q == [request[r] EXCEPT !.status = "submitted"]
  <2>1. /\ q \in Row /\ q.status = "submitted" /\ q.quoted_price = request[r].quoted_price
        /\ request[r].status = "none"
    BY <1>0, <1>1 DEF Row, Status, Submit
  <2>2. request' = [request EXCEPT ![r] = q] /\ job' = job
    BY <1>1 DEF Submit
  <2> HIDE DEF q
  <2>3. Flow!Submit(r)
    BY <1>c, <2>1, <2>2 DEF Flow!Submit, Statuses, PricesOf
  <2>4. ASSUME NEW v \in Workers PROVE JobFresh(job'[v], request')
    <3>1. CASE job[v].at \in {"quote", "accept", "decline", "expire"}
      <4>1. job[v].request \in Requests \ {r}
        BY <1>0, <2>1, <3>1, JobKinds DEF Apart, JobFresh, Idle
      <4>2. request'[job[v].request] = request[job[v].request]
        BY <1>0, <2>2, <4>1
      <4> QED BY <1>0, <2>2, <3>1, <4>2 DEF Apart, JobFresh
    <3> QED BY <2>2, <3>1 DEF JobFresh
  <2> QED BY <1>0, <2>2, <2>3, <2>4 DEF Flow!Next, Apart
<1>2. ASSUME NEW w \in WebWorkers, NEW r \in Requests, NEW p \in Prices, QuoteRead(w, r, p)
      PROVE  Apart' /\ [Flow!Next]_<<Statuses, PricesOf>>
  <2> DEFINE j == [at |-> "quote", request |-> r, copy |-> request[r], price |-> p]
  <2>1. Begin(w, r, j) /\ j # Idle /\ j.request = r
    BY <1>2 DEF QuoteRead, Idle
  <2>2. JobFresh(j, request)
    BY <1>2 DEF JobFresh, QuoteRead
  <2> HIDE DEF j
  <2> QED BY <1>0, <1>a, <1>f, <2>1, <2>2
<1>3. ASSUME NEW w \in WebWorkers, NEW r \in Requests, AcceptRead(w, r)
      PROVE  Apart' /\ [Flow!Next]_<<Statuses, PricesOf>>
  <2> DEFINE j == IF request[r].expires_at = "past"
                  THEN [at |-> "expire", request |-> r]
                  ELSE [at |-> "accept", request |-> r, price |-> request[r].quoted_price]
  <2>1. Begin(w, r, j) /\ j # Idle /\ j.request = r
    BY <1>3 DEF AcceptRead, Idle
  <2>2. JobFresh(j, request)
    BY <1>3 DEF JobFresh, AcceptRead
  <2> HIDE DEF j
  <2> QED BY <1>0, <1>a, <1>f, <2>1, <2>2
<1>4. ASSUME NEW w \in WebWorkers, NEW r \in Requests, DeclineRead(w, r)
      PROVE  Apart' /\ [Flow!Next]_<<Statuses, PricesOf>>
  <2> DEFINE j == [at |-> "decline", request |-> r]
  <2>1. Begin(w, r, j) /\ j # Idle /\ j.request = r
    BY <1>4 DEF DeclineRead, Idle
  <2>2. JobFresh(j, request)
    BY <1>4 DEF JobFresh, DeclineRead
  <2> HIDE DEF j
  <2> QED BY <1>0, <1>a, <1>f, <2>1, <2>2
<1>5. ASSUME NEW w \in WebWorkers, QuoteSave(w)
      PROVE  Apart' /\ [Flow!Next]_<<Statuses, PricesOf>>
  <2>1. /\ job[w] \in QuoteJob /\ job[w].at = "quote" /\ w \in Workers
        /\ job[w] # Idle /\ End(w)
    BY <1>0, <1>5, JobKinds DEF QuoteSave, Idle
  <2>r. PICK r \in Requests : r = job[w].request
    BY <2>1 DEF QuoteJob
  <2>p. PICK p \in Prices : p = job[w].price
    BY <2>1 DEF QuoteJob
  <2> DEFINE q == Quoted(job[w].copy, p)
  <2>2. q \in Row /\ q.status = "quoted" /\ q.quoted_price = p
    BY <2>1, QuotedRow DEF QuoteJob
  <2>3. request[r].status = "submitted"
    BY <1>0, <2>1, <2>r DEF Apart, JobFresh
  <2>4. request' = [request EXCEPT ![r] = q]
    BY <1>5, <2>r, <2>p DEF QuoteSave
  <2> HIDE DEF q
  <2>5. Flow!Quote(r, p)
    BY <1>c, <2>2, <2>3, <2>4 DEF Flow!Quote, Statuses, PricesOf
  <2>6. Apart'
    BY <1>b, <2>1, <2>r, <2>4
  <2> QED BY <2>2, <2>5, <2>6 DEF Flow!Next
<1>6. ASSUME NEW w \in WebWorkers, AcceptSave(w)
      PROVE  Apart' /\ [Flow!Next]_<<Statuses, PricesOf>>
  <2>1. /\ job[w] \in AcceptJob /\ job[w].at = "accept" /\ w \in Workers
        /\ job[w] # Idle /\ End(w)
    <3>1. job[w].at = "accept" /\ End(w) /\ w \in Workers
      BY <1>0, <1>6 DEF AcceptSave
    <3>2. job[w] \in AcceptJob /\ job[w] # Idle
      BY <1>0, <3>1, JobKinds DEF Idle
    <3> QED BY <3>1, <3>2
  <2>r. PICK r \in Requests : r = job[w].request
    BY <2>1 DEF AcceptJob
  <2> DEFINE q == [request[r] EXCEPT !.status = "accepted", !.accepted_at = TRUE]
  <2>2. /\ q \in Row /\ q.status = "accepted"
        /\ q.quoted_price = request[r].quoted_price
    <3>1. request[r] \in Row
      BY <1>0
    <3> QED BY <3>1 DEF Row, Status
  <2>3. request[r].status = "quoted"
    BY <1>0, <2>1, <2>r DEF Apart, JobFresh
  <2>4. request' = [request EXCEPT ![r] = q]
    BY <1>0, <1>6, <2>r DEF AcceptSave
  <2> HIDE DEF q
  <2>5. Flow!Accept(r)
    BY <1>c, <2>2, <2>3, <2>4 DEF Flow!Accept, Statuses, PricesOf
  <2>6. Apart'
    BY <1>b, <2>1, <2>r, <2>4
  <2> QED BY <2>2, <2>5, <2>6 DEF Flow!Next
<1>7. ASSUME NEW w \in WebWorkers, ExpireSave(w)
      PROVE  Apart' /\ [Flow!Next]_<<Statuses, PricesOf>>
  <2>1. /\ job[w] \in AnswerJob /\ job[w].at = "expire" /\ w \in Workers
        /\ job[w] # Idle /\ End(w)
    BY <1>0, <1>7, JobKinds DEF ExpireSave, Idle
  <2>r. PICK r \in Requests : r = job[w].request
    BY <2>1 DEF AnswerJob
  <2> DEFINE q == [request[r] EXCEPT !.status = "expired"]
  <2>2. /\ q \in Row /\ q.status = "expired"
        /\ q.quoted_price = request[r].quoted_price
    <3>1. request[r] \in Row
      BY <1>0
    <3> QED BY <3>1 DEF Row, Status
  <2>3. request[r].status = "quoted"
    BY <1>0, <2>1, <2>r DEF Apart, JobFresh
  <2>4. request' = [request EXCEPT ![r] = q]
    BY <1>0, <1>7, <2>r DEF ExpireSave
  <2> HIDE DEF q
  <2>5. Statuses' = [x \in Requests |-> IF x \in {r} THEN "expired" ELSE Statuses[x]]
    <3>1. \A x \in Requests : request'[x] = IF x = r THEN q ELSE request[x]
      BY <1>0, <2>4
    <3>2. \A x \in Requests :
             request'[x].status = IF x = r THEN "expired" ELSE request[x].status
      BY <2>2, <3>1
    <3> QED BY <3>2 DEF Statuses
  <2>6. Flow!Expire({r})
    BY <1>c, <2>2, <2>3, <2>4, <2>5 DEF Flow!Expire, Statuses, PricesOf
  <2>7. Apart'
    BY <1>b, <2>1, <2>r, <2>4
  <2> QED BY <2>2, <2>6, <2>7 DEF Flow!Next
<1>8. ASSUME NEW w \in WebWorkers, DeclineSave(w)
      PROVE  Apart' /\ [Flow!Next]_<<Statuses, PricesOf>>
  <2>1. /\ job[w] \in AnswerJob /\ job[w].at = "decline" /\ w \in Workers
        /\ job[w] # Idle /\ End(w)
    BY <1>0, <1>8, JobKinds DEF DeclineSave, Idle
  <2>r. PICK r \in Requests : r = job[w].request
    BY <2>1 DEF AnswerJob
  <2> DEFINE q == [request[r] EXCEPT !.status = "declined"]
  <2>2. /\ q \in Row /\ q.status = "declined"
        /\ q.quoted_price = request[r].quoted_price
    <3>1. request[r] \in Row
      BY <1>0
    <3> QED BY <3>1 DEF Row, Status
  <2>3. request[r].status \in {"submitted", "quoted"}
    BY <1>0, <2>1, <2>r DEF Apart, JobFresh
  <2>4. request' = [request EXCEPT ![r] = q]
    BY <1>0, <1>8, <2>r DEF DeclineSave
  <2> HIDE DEF q
  <2>5. Flow!Decline(r)
    <3>1. \A x \in Requests : request'[x] = IF x = r THEN q ELSE request[x]
      BY <1>0, <2>4
    <3>2. \A x \in Requests :
             /\ request'[x].status = IF x = r THEN "declined" ELSE request[x].status
             /\ request'[x].quoted_price = request[x].quoted_price
      BY <2>2, <3>1
    <3>3. Statuses' = [Statuses EXCEPT ![r] = "declined"] /\ PricesOf' = PricesOf
      BY <3>2 DEF Statuses, PricesOf
    <3> QED BY <2>3, <3>3 DEF Flow!Decline, Statuses, PricesOf
  <2>6. Apart'
    BY <1>b, <2>1, <2>r, <2>4
  <2> QED BY <2>2, <2>5, <2>6 DEF Flow!Next
<1>9. ASSUME NEW c \in CeleryWorkers, Cleanup(c)
      PROVE  Apart' /\ [Flow!Next]_<<Statuses, PricesOf>>
  <2> DEFINE lates == {x \in Requests : request[x].status = "quoted"
                                        /\ request[x].expires_at = "past"}
  <2>l. PICK late \in SUBSET Requests : late = lates
    OBVIOUS
  <2>e. Expires(late)
    BY <1>9, <2>l DEF Cleanup
  <2>1. ASSUME NEW x \in Requests
        PROVE  /\ request'[x].status = IF x \in late THEN "expired" ELSE request[x].status
               /\ request'[x].quoted_price = request[x].quoted_price
    BY <1>0, <2>1, <2>e DEF Expires, Row
  <2>2. Statuses' = [x \in Requests |-> IF x \in late THEN "expired" ELSE Statuses[x]]
    BY <2>1 DEF Statuses
  <2>3. PricesOf' = PricesOf
    BY <2>1 DEF PricesOf
  <2>4. \A x \in late : Statuses[x] = "quoted"
    BY <2>l DEF Statuses
  <2>5. Flow!Expire(late)
    BY <2>2, <2>3, <2>4 DEF Flow!Expire, Statuses, PricesOf
  <2>6. job' = job /\ \A x \in late : Handlers(x) = {}
    BY <2>e DEF Expires
  <2>7. ASSUME NEW v \in Workers PROVE JobFresh(job'[v], request')
    <3>1. CASE job[v].at \in {"quote", "accept", "decline", "expire"}
      <4>1. job[v].request \in Requests \ late
        BY <1>0, <2>6, <3>1, JobKinds DEF Handlers, Idle
      <4> QED BY <1>0, <2>1, <2>6, <3>1, <4>1 DEF Apart, JobFresh
    <3> QED BY <2>6, <3>1 DEF JobFresh
  <2> QED BY <1>0, <2>5, <2>6, <2>7 DEF Flow!Next, Apart
<1>10. ASSUME NEW r \in Requests, Lapse(r)
       PROVE  Apart' /\ [Flow!Next]_<<Statuses, PricesOf>>
  <2>1. \A x \in Requests : /\ request'[x].status = request[x].status
                            /\ request'[x].quoted_price = request[x].quoted_price
    BY <1>0, <1>10 DEF Lapse, Row
  <2>2. Statuses' = Statuses /\ PricesOf' = PricesOf
    BY <2>1 DEF Statuses, PricesOf
  <2>3. job' = job
    BY <1>10 DEF Lapse
  <2>4. ASSUME NEW v \in Workers PROVE JobFresh(job'[v], request')
    BY <1>0, <2>1, <2>3, JobKinds DEF Apart, JobFresh, Idle
  <2> QED BY <1>0, <2>2, <2>3, <2>4 DEF Apart
<1>11. ASSUME NEW w \in Workers, Crash(w)
       PROVE  Apart' /\ [Flow!Next]_<<Statuses, PricesOf>>
  <2>1. \A v \in Workers : job'[v] = IF v = w THEN Idle ELSE job[v]
    BY <1>0, <1>11 DEF Crash
  <2>2. request' = request
    BY <1>11 DEF Crash
  <2> QED BY <1>0, <1>f, <2>1, <2>2 DEF Apart
<1>12. CASE UNCHANGED vars
  <2>1. request' = request /\ job' = job
    BY <1>12 DEF vars
  <2> QED BY <1>0, <1>f, <2>1 DEF Apart
<1> QED
  BY <1>1, <1>2, <1>3, <1>4, <1>5, <1>6, <1>7, <1>8, <1>9, <1>10, <1>11, <1>12
  DEF Next, Start, Save

LEMMA InitSInv == Init => SInv
BY InitIInv DEF SInv, Init, Apart, JobFresh, Idle

LEMMA NextSInv == SInv /\ [Next]_vars => SInv'
BY ApartStep, NextIInv DEF SInv

\* As long as no two handlers have one request open at once, requests follow
\* RequestFlow: the status checks are enough, with processes killed at any point
\* and quotes lapsing at any moment.
THEOREM RequestsFollowFlow == Spec => FlowUnlessRaced
<1>1. SInv /\ [Next]_vars =>
          [raced' = {} =>
              [Flow!Next]_<<[r \in Requests |-> request[r].status],
                            [r \in Requests |-> request[r].quoted_price]>>]_vars
  BY ApartStep DEF Statuses, PricesOf
<1> QED BY <1>1, InitSInv, NextSInv, PTL DEF Spec, FlowUnlessRaced

\* Where no two handlers ever have one request open at once, custom requests
\* implement RequestFlow, step by step, whatever handlers of other requests, the
\* daily task, quotes running out and killed processes do.
THEOREM ApartRequestsFollowFlow == Spec /\ [](raced = {}) => Flow!Spec
<1>1. Init => Flow!Init
  BY DEF Init, NewRow, Flow!Init
<1>2. SInv /\ [Next]_vars /\ (raced = {})' =>
          [Flow!Next]_<<[r \in Requests |-> request[r].status],
                        [r \in Requests |-> request[r].quoted_price]>>
  BY ApartStep DEF Statuses, PricesOf
<1> QED BY <1>1, <1>2, InitSInv, NextSInv, PTL DEF Spec, Flow!Spec

=============================================================================
