--------------------------- MODULE ReviewsProofs ---------------------------
(***************************************************************************)
(* What is proved of Reviews for any products, customers, processes and    *)
(* ratings.  Two invariants: a copy in memory shows no more votes than     *)
(* were cast (Counted), and a request that overlaps no other works on what *)
(* is committed and leaves behind it ratings that are right (Lone).        *)
(***************************************************************************)
EXTENDS Reviews, TLAPS

\* The label of a process tells which record it holds.
LEMMA JobKinds ==
    ASSUME TypeOK, NEW w \in WebWorkers
    PROVE  /\ job[w] \in Job /\ (job[w].at = "idle" <=> job[w] = Idle)
           /\ job[w].at = "insert" => job[w] \in InsertJob
           /\ job[w].at = "edit" => job[w] \in EditJob
           /\ job[w].at = "delete" => job[w] \in DeleteJob
           /\ job[w].at = "reply" => job[w] \in ReplyJob
           /\ job[w].at = "vote" => job[w] \in VoteJob
           /\ job[w].at \in {"query", "store"} => job[w] \in RateJob
           /\ job[w].at = "form" => job[w] \in FormJob
<1>1. job[w] \in Job
  BY DEF TypeOK
<1> QED BY <1>1 DEF Job, Idle, InsertJob, EditJob, DeleteJob, ReplyJob, VoteJob, RateJob, FormJob

\* Two different primary keys tell a row from no row.
LEMMA Rows ==
    ASSUME TypeOK, NEW k \in Keys
    PROVE  /\ review[k] # NoRow => review[k] \in Row
           /\ review[k].id \in ReviewIds => review[k] \in Row
           /\ review[k] \in Row => review[k] # NoRow /\ review[k].id \in ReviewIds
<1>1. review[k] \in Row \cup {NoRow}
  BY DEF TypeOK
<1> QED BY <1>1, ReviewsAssumption DEF Row, NoRow

LEMMA AggregateTyped ==
    ASSUME TypeOK, NEW cell
    PROVE  Aggregate(review, cell) \in Aggregates /\ Unrated \in Aggregates
<1> DEFINE K == {q \in Keys : cell \in {q[1], Shop} /\ review[q] # NoRow}
<1>1. \A k \in K : review[k].rating \in Ratings
  BY Rows DEF Row
<1>2. Aggregate(review, cell) \in [K -> Ratings] /\ K \in SUBSET Keys
  BY <1>1 DEF Aggregate
<1>3. Unrated \in [{} -> Ratings]
  BY DEF Unrated
<1> QED BY <1>2, <1>3 DEF Aggregates

LEMMA InitTypeOK == Init => TypeOK
<1> SUFFICES ASSUME Init PROVE TypeOK
  OBVIOUS
<1>1. Unrated \in [{} -> Ratings]
  BY DEF Unrated
<1>2. Unrated \in Aggregates
  BY <1>1 DEF Aggregates
<1> QED BY <1>2, ReviewsAssumption DEF Init, TypeOK, Job

\* The requests of Start differ in the job they begin.
LEMMA StartKinds ==
    ASSUME TypeOK, NEW w \in WebWorkers, Start(w)
    PROVE  /\ \E j \in Job : Begin(w, j)
           /\ drawn' \subseteq ReviewIds /\ votes' \in [ReviewIds -> 0 .. MaxVotes]
           /\ \A i \in ReviewIds : votes[i] <= votes'[i]
<1>0. /\ drawn \subseteq ReviewIds /\ votes \in [ReviewIds -> 0 .. MaxVotes]
      /\ MaxVotes \in Nat /\ rated \in [Cells -> Aggregates]
      /\ \A i \in ReviewIds : votes[i] \in Nat /\ votes[i] <= votes[i]
  BY ReviewsAssumption DEF TypeOK
<1>1. ASSUME NEW k \in Keys, NEW r \in Ratings, NEW i \in ReviewIds, CreateRead(w, k, i, r)
      PROVE  /\ \E j \in Job : Begin(w, j)
             /\ drawn' \subseteq ReviewIds /\ votes' = votes
  <2>1. [at |-> "insert", key |-> k, id |-> i, rating |-> r] \in Job
    BY DEF Job, InsertJob
  <2> QED BY <1>0, <1>1, <2>1 DEF CreateRead
<1>2. ASSUME NEW k \in Keys, NEW r \in Ratings, EditRead(w, k, r)
      PROVE  (\E j \in Job : Begin(w, j)) /\ drawn' = drawn /\ votes' = votes
  <2>1. [at |-> "edit", key |-> k, copy |-> review[k], rating |-> r] \in Job
    BY <1>2, Rows DEF Job, EditJob, EditRead
  <2> QED BY <1>2, <2>1 DEF EditRead
<1>3. ASSUME NEW k \in Keys, DeleteRead(w, k)
      PROVE  (\E j \in Job : Begin(w, j)) /\ drawn' = drawn /\ votes' = votes
  <2>1. [at |-> "delete", key |-> k, id |-> review[k].id] \in Job
    BY <1>3, Rows DEF Job, DeleteJob, DeleteRead
  <2> QED BY <1>3, <2>1 DEF DeleteRead
<1>4. ASSUME NEW k \in Keys, NEW text \in Replies, ReplyRead(w, k, text)
      PROVE  (\E j \in Job : Begin(w, j)) /\ drawn' = drawn /\ votes' = votes
  <2>1. [at |-> "reply", key |-> k, id |-> review[k].id, reply |-> text] \in Job
    BY <1>4, Rows DEF Job, ReplyJob, ReplyRead
  <2> QED BY <1>4, <2>1 DEF ReplyRead
<1>5. ASSUME NEW k \in Keys, VoteRead(w, k)
      PROVE  /\ \E j \in Job : Begin(w, j)
             /\ drawn' = drawn /\ votes' \in [ReviewIds -> 0 .. MaxVotes]
             /\ \A i \in ReviewIds : votes[i] <= votes'[i]
  <2>1. review[k].id \in ReviewIds /\ review[k].helpful \in Nat
    BY <1>5, Rows DEF VoteRead, Row
  <2>2. [at |-> "vote", key |-> k, id |-> review[k].id, helpful |-> review[k].helpful + 1] \in Job
    <3>1. PICK n \in Nat : n = review[k].helpful + 1
      BY <2>1
    <3>2. [at |-> "vote", key |-> k, id |-> review[k].id, helpful |-> n] \in VoteJob
      BY <2>1 DEF VoteJob
    <3> QED BY <3>1, <3>2 DEF Job
  <2>3. votes' = [votes EXCEPT ![review[k].id] = votes[review[k].id] + 1]
    BY <1>5 DEF VoteRead
  <2>4. /\ votes[review[k].id] + 1 \in 0 .. MaxVotes
        /\ \A i \in ReviewIds : votes'[i] \in {votes[i], votes[i] + 1}
    BY <1>0, <1>5, <2>1, <2>3 DEF VoteRead
  <2>5. votes' \in [ReviewIds -> 0 .. MaxVotes]
    BY <1>0, <2>3, <2>4
  <2> QED BY <1>0, <1>5, <2>2, <2>4, <2>5 DEF VoteRead
<1>6. ASSUME NEW cell \in Cells, FormRead(w, cell)
      PROVE  (\E j \in Job : Begin(w, j)) /\ drawn' = drawn /\ votes' = votes
  <2>1. [at |-> "form", cell |-> cell, seen |-> rated[cell]] \in Job
    BY <1>0 DEF Job, FormJob
  <2> QED BY <1>6, <2>1 DEF FormRead
<1> QED BY <1>0, <1>1, <1>2, <1>3, <1>4, <1>5, <1>6 DEF Start

\* The jobs that follow a write.
LEMMA RateTyped ==
    ASSUME TypeOK, NEW w \in WebWorkers, NEW k \in Keys, NEW e \in BOOLEAN
    PROVE  Rate(w, k, e) \in [WebWorkers -> Job]
<1>1. k[1] \in Products
  BY DEF Keys
<1>2. [at |-> "query", product |-> k[1], stage |-> "product", edit |-> e, seen |-> Unrated] \in Job
  BY <1>1, AggregateTyped DEF Job, RateJob
<1> QED BY <1>2 DEF Rate, TypeOK

LEMMA AfterTyped ==
    ASSUME TypeOK, NEW w \in WebWorkers, job[w] \in RateJob
    PROVE  AfterRating(w) \in [WebWorkers -> Job]
<1>1. Again(job[w], "shop") \in Job /\ Again(job[w], "again") \in Job /\ Idle \in Job
  BY AggregateTyped DEF Again, Job, RateJob
<1> QED BY <1>1 DEF AfterRating, TypeOK

LEMMA NextTypeOK == TypeOK /\ [Next]_vars => TypeOK'
<1> SUFFICES ASSUME TypeOK, [Next]_vars PROVE TypeOK'
  OBVIOUS
<1>0. /\ review \in [Keys -> Row \cup {NoRow}] /\ rated \in [Cells -> Aggregates]
      /\ job \in [WebWorkers -> Job] /\ drawn \subseteq ReviewIds
      /\ votes \in [ReviewIds -> 0 .. MaxVotes] /\ disturbed \subseteq WebWorkers
      /\ Idle \in Job
  BY DEF TypeOK, Job
<1>1. ASSUME NEW w \in WebWorkers, Start(w) PROVE TypeOK'
  <2>1. PICK j \in Job : Begin(w, j)
    BY <1>1, StartKinds
  <2>2. job' \in [WebWorkers -> Job] /\ disturbed' \subseteq WebWorkers
    BY <1>0, <2>1 DEF Begin, Busy
  <2> QED BY <1>0, <1>1, <2>1, <2>2, StartKinds DEF TypeOK, Begin
<1>2. ASSUME NEW w \in WebWorkers, InsertRow(w) PROVE TypeOK'
  <2>1. job[w] \in InsertJob
    BY <1>2, JobKinds DEF InsertRow
  <2>2. [id |-> job[w].id, rating |-> job[w].rating, reply |-> NoReply, helpful |-> 0] \in Row
    BY <2>1 DEF InsertJob, Row
  <2>3. job' \in [WebWorkers -> Job]
    <3>1. job' = Rate(w, job[w].key, FALSE) \/ job' = [job EXCEPT ![w] = Idle]
      BY <1>2 DEF InsertRow, Raise
    <3>2. Rate(w, job[w].key, FALSE) \in [WebWorkers -> Job]
      BY <2>1, RateTyped DEF InsertJob
    <3> QED BY <1>0, <3>1, <3>2
  <2>4. review' \in [Keys -> Row \cup {NoRow}]
    BY <1>0, <1>2, <2>2 DEF InsertRow, Raise
  <2> QED BY <1>0, <1>2, <2>3, <2>4 DEF TypeOK, InsertRow
<1>3. ASSUME NEW w \in WebWorkers, SaveEdit(w) PROVE TypeOK'
  <2>1. job[w] \in EditJob
    BY <1>3, JobKinds DEF SaveEdit
  <2>2. [job[w].copy EXCEPT !.rating = job[w].rating] \in Row
    BY <2>1 DEF EditJob, Row
  <2>3. job' \in [WebWorkers -> Job]
    <3>1. job' = Rate(w, job[w].key, TRUE) \/ job' = [job EXCEPT ![w] = Idle]
      BY <1>3 DEF SaveEdit, Raise
    <3>2. Rate(w, job[w].key, TRUE) \in [WebWorkers -> Job]
      BY <2>1, RateTyped DEF EditJob
    <3> QED BY <1>0, <3>1, <3>2
  <2>4. review' \in [Keys -> Row \cup {NoRow}]
    BY <1>0, <1>3, <2>2 DEF SaveEdit, Raise
  <2> QED BY <1>0, <1>3, <2>3, <2>4 DEF TypeOK, SaveEdit
<1>4. ASSUME NEW w \in WebWorkers, DeleteRow(w) PROVE TypeOK'
  <2>1. job[w] \in DeleteJob
    BY <1>4, JobKinds DEF DeleteRow
  <2>2. job' \in [WebWorkers -> Job]
    BY <1>0, <1>4, <2>1, RateTyped DEF DeleteRow, DeleteJob
  <2> QED BY <1>0, <1>4, <2>2 DEF TypeOK, DeleteRow
<1>5. ASSUME NEW w \in WebWorkers, SaveReply(w) PROVE TypeOK'
  <2>1. job[w] \in ReplyJob
    BY <1>5, JobKinds DEF SaveReply
  <2>2. review[job[w].key].id = job[w].id => [review[job[w].key] EXCEPT !.reply = job[w].reply] \in Row
    BY <2>1, Rows DEF ReplyJob, Row
  <2>3. job' \in [WebWorkers -> Job]
    <3>1. job' = Rate(w, job[w].key, FALSE) \/ job' = [job EXCEPT ![w] = Idle]
      BY <1>5 DEF SaveReply, Raise
    <3>2. Rate(w, job[w].key, FALSE) \in [WebWorkers -> Job]
      BY <2>1, RateTyped DEF ReplyJob
    <3> QED BY <1>0, <3>1, <3>2
  <2>4. review' \in [Keys -> Row \cup {NoRow}]
    BY <1>0, <1>5, <2>2 DEF SaveReply, Raise
  <2> QED BY <1>0, <1>5, <2>3, <2>4 DEF TypeOK, SaveReply
<1>6. ASSUME NEW w \in WebWorkers, SaveVote(w) PROVE TypeOK'
  <2>1. job[w] \in VoteJob
    BY <1>6, JobKinds DEF SaveVote
  <2>2. review[job[w].key].id = job[w].id =>
           [review[job[w].key] EXCEPT !.helpful = job[w].helpful] \in Row
    BY <2>1, Rows DEF VoteJob, Row
  <2>3. job' \in [WebWorkers -> Job]
    <3>1. job' = Rate(w, job[w].key, FALSE) \/ job' = [job EXCEPT ![w] = Idle]
      BY <1>6 DEF SaveVote, Raise
    <3>2. Rate(w, job[w].key, FALSE) \in [WebWorkers -> Job]
      BY <2>1, RateTyped DEF VoteJob
    <3> QED BY <1>0, <3>1, <3>2
  <2>4. review' \in [Keys -> Row \cup {NoRow}]
    BY <1>0, <1>6, <2>2 DEF SaveVote, Raise
  <2> QED BY <1>0, <1>6, <2>3, <2>4 DEF TypeOK, SaveVote
<1>7. ASSUME NEW w \in WebWorkers, SaveForm(w) PROVE TypeOK'
  <2>1. job[w].seen \in Aggregates
    BY <1>7, JobKinds DEF SaveForm, FormJob
  <2> QED BY <1>0, <1>7, <2>1 DEF TypeOK, SaveForm
<1>8. ASSUME NEW w \in WebWorkers, QueryRating(w) PROVE TypeOK'
  <2>1. job[w] \in RateJob
    BY <1>8, JobKinds DEF QueryRating
  <2>2. [job[w] EXCEPT !.at = "store", !.seen = Aggregate(review, CellOf(job[w]))] \in Job
    BY <2>1, AggregateTyped DEF RateJob, Job
  <2>3. job' = [job EXCEPT ![w] = [job[w] EXCEPT !.at = "store",
                                                 !.seen = Aggregate(review, CellOf(job[w]))]]
    BY <1>0, <1>8 DEF QueryRating
  <2> QED BY <1>0, <1>8, <2>2, <2>3 DEF TypeOK, QueryRating
<1>9. ASSUME NEW w \in WebWorkers, StoreRating(w) \/ SkipShop(w) PROVE TypeOK'
  <2>1. job[w] \in RateJob
    BY <1>9, JobKinds DEF StoreRating, SkipShop
  <2>2. job' \in [WebWorkers -> Job]
    BY <1>9, <2>1, AfterTyped DEF StoreRating, SkipShop
  <2> QED BY <1>0, <1>9, <2>1, <2>2 DEF TypeOK, StoreRating, SkipShop, RateJob
<1>10. ASSUME NEW w \in WebWorkers, Crash(w) PROVE TypeOK'
  BY <1>0, <1>10 DEF TypeOK, Crash
<1>11. CASE UNCHANGED vars
  BY <1>0, <1>11 DEF vars, TypeOK
<1> QED BY <1>1, <1>2, <1>3, <1>4, <1>5, <1>6, <1>7, <1>8, <1>9, <1>10, <1>11
        DEF Next, Continue, Write

\* For any products, customers and processes, every variable keeps its type.
THEOREM TypeCorrect == Spec => []TypeOK
BY InitTypeOK, NextTypeOK, PTL DEF Spec

-----------------------------------------------------------------------------
(* Votes                                                                     *)

\* A row, and a copy that is going to be saved, shows no more votes than were cast.
Cast(i, n) == n <= votes[i]

Counted ==
    /\ \A k \in Keys : review[k] # NoRow => Cast(review[k].id, review[k].helpful)
    /\ \A w \in WebWorkers :
          /\ job[w].at = "edit" => Cast(job[w].copy.id, job[w].copy.helpful)
          /\ job[w].at = "vote" => Cast(job[w].id, job[w].helpful)

LEMMA InitCounted == Init => Counted
BY DEF Init, Counted, Idle

LEMMA NextCounted == TypeOK /\ TypeOK' /\ Counted /\ [Next]_vars => Counted'
<1> SUFFICES ASSUME TypeOK, TypeOK', Counted, [Next]_vars PROVE Counted'
  OBVIOUS
<1>0. /\ \A i \in ReviewIds : votes[i] \in Nat /\ votes'[i] \in Nat
      /\ job \in [WebWorkers -> Job] /\ review \in [Keys -> Row \cup {NoRow}]
      /\ \A k \in Keys : review[k] # NoRow =>
            review[k].id \in ReviewIds /\ review[k].helpful \in Nat
      /\ \A w \in WebWorkers :
            /\ job[w].at = "edit" => job[w].copy.id \in ReviewIds /\ job[w].copy.helpful \in Nat
            /\ job[w].at = "vote" => job[w].id \in ReviewIds /\ job[w].helpful \in Nat
  BY ReviewsAssumption, Rows, JobKinds DEF TypeOK, Row, EditJob, VoteJob
\* It is enough to look at the row that is written and at the process that moves.
<1>a. ASSUME \A i \in ReviewIds : votes[i] <= votes'[i],
             NEW w \in WebWorkers, NEW j, job' = [job EXCEPT ![w] = j],
             j.at = "edit" => j.copy.id \in ReviewIds /\ votes'[j.copy.id] >= j.copy.helpful,
             j.at = "vote" => j.id \in ReviewIds /\ votes'[j.id] >= j.helpful,
             \A k \in Keys : \/ review'[k] = review[k] \/ review'[k] = NoRow
                             \/ votes'[review'[k].id] >= review'[k].helpful
      PROVE  Counted'
  <2>1. \A v \in WebWorkers : job'[v] = IF v = w THEN j ELSE job[v]
    BY <1>0, <1>a
  <2>2. \A i \in ReviewIds, n \in Nat : n <= votes[i] => n <= votes'[i]
    BY <1>0, <1>a
  <2>3. ASSUME NEW k \in Keys, review'[k] # NoRow
        PROVE  review'[k].helpful <= votes'[review'[k].id]
    <3>1. CASE review'[k] = review[k]
      BY <1>0, <2>2, <2>3, <3>1 DEF Counted, Cast
    <3>2. review'[k].id \in ReviewIds /\ review'[k].helpful \in Nat
      BY <2>3 DEF TypeOK, Row
    <3> QED BY <1>0, <1>a, <2>3, <3>1, <3>2
  <2>4. ASSUME NEW v \in WebWorkers
        PROVE  /\ job'[v].at = "edit" => job'[v].copy.helpful <= votes'[job'[v].copy.id]
               /\ job'[v].at = "vote" => job'[v].helpful <= votes'[job'[v].id]
    <3>1. CASE v = w
      BY <1>0, <1>a, <2>1, <3>1
    <3>2. CASE v # w
      BY <1>0, <2>1, <2>2, <3>2 DEF Counted, Cast
    <3> QED BY <3>1, <3>2
  <2> QED BY <2>3, <2>4 DEF Counted, Cast
<1>1. ASSUME NEW w \in WebWorkers, Start(w) PROVE Counted'
  <2>1. \A i \in ReviewIds : votes[i] <= votes'[i]
    BY <1>1, StartKinds
  <2>2. ASSUME NEW j, Begin(w, j), j.at \notin {"edit", "vote"} PROVE Counted'
    BY <1>a, <2>1, <2>2 DEF Begin
  <2>3. ASSUME NEW k \in Keys, NEW r \in Ratings, EditRead(w, k, r) PROVE Counted'
    <3> DEFINE j == [at |-> "edit", key |-> k, copy |-> review[k], rating |-> r]
    <3>1. /\ Begin(w, j) /\ j.at = "edit" /\ j.copy = review[k] /\ review[k] # NoRow
          /\ votes' = votes
      BY <2>3 DEF EditRead
    <3> HIDE DEF j
    <3>2. j.copy.id \in ReviewIds /\ votes'[j.copy.id] >= j.copy.helpful
      BY <1>0, <3>1 DEF Counted, Cast
    <3> QED BY <1>a, <2>1, <3>1, <3>2 DEF Begin
  <2>4. ASSUME NEW k \in Keys, VoteRead(w, k) PROVE Counted'
    <3> DEFINE j == [at |-> "vote", key |-> k, id |-> review[k].id,
                     helpful |-> review[k].helpful + 1]
    <3>1. /\ Begin(w, j) /\ j.at = "vote" /\ j.id = review[k].id /\ review[k] # NoRow
          /\ j.helpful = review[k].helpful + 1
          /\ votes' = [votes EXCEPT ![j.id] = votes[j.id] + 1]
      BY <2>4 DEF VoteRead
    <3> HIDE DEF j
    <3>2. review[k].helpful <= votes[j.id] /\ j.id \in ReviewIds /\ review[k].helpful \in Nat
      BY <1>0, <3>1 DEF Counted, Cast
    <3>3. votes'[j.id] = votes[j.id] + 1
      BY <3>1, <3>2 DEF TypeOK
    <3>4. j.id \in ReviewIds /\ votes'[j.id] >= j.helpful
      BY <1>0, <3>1, <3>2, <3>3
    <3> QED BY <1>a, <2>1, <3>1, <3>4 DEF Begin
  <2>5. \/ \E k \in Keys, r \in Ratings : EditRead(w, k, r)
        \/ \E k \in Keys : VoteRead(w, k)
        \/ \E j : Begin(w, j) /\ j.at \notin {"edit", "vote"}
    <3>1. ASSUME NEW k \in Keys, NEW r \in Ratings, NEW i \in ReviewIds, CreateRead(w, k, i, r)
          PROVE  \E j : Begin(w, j) /\ j.at \notin {"edit", "vote"}
      BY <3>1 DEF CreateRead
    <3>2. ASSUME NEW k \in Keys, DeleteRead(w, k)
          PROVE  \E j : Begin(w, j) /\ j.at \notin {"edit", "vote"}
      BY <3>2 DEF DeleteRead
    <3>3. ASSUME NEW k \in Keys, NEW text \in Replies, ReplyRead(w, k, text)
          PROVE  \E j : Begin(w, j) /\ j.at \notin {"edit", "vote"}
      BY <3>3 DEF ReplyRead
    <3>4. ASSUME NEW cell \in Cells, FormRead(w, cell)
          PROVE  \E j : Begin(w, j) /\ j.at \notin {"edit", "vote"}
      BY <3>4 DEF FormRead
    <3> QED BY <1>1, <3>1, <3>2, <3>3, <3>4 DEF Start
  <2> QED BY <2>2, <2>3, <2>4, <2>5
<1>2. ASSUME NEW w \in WebWorkers, Continue(w) \/ SkipShop(w) \/ Crash(w) PROVE Counted'
  <2>0. votes' = votes /\ \A i \in ReviewIds : votes[i] <= votes'[i]
    <3>1. Write(w) => votes' = votes
      BY Zenon DEF Write, InsertRow, SaveEdit, DeleteRow, SaveReply, SaveVote, SaveForm
    <3>2. ~Write(w) => votes' = votes
      BY <1>2 DEF Continue, QueryRating, StoreRating, SkipShop, Crash
    <3> QED BY <1>0, <3>1, <3>2
  <2>1. \E j : job' = [job EXCEPT ![w] = j] /\ j.at \notin {"edit", "vote"}
    <3>1. \A k, e : \E j : Rate(w, k, e) = [job EXCEPT ![w] = j] /\ j.at \notin {"edit", "vote"}
      <4> TAKE k, e
      <4> DEFINE j == [at |-> "query", product |-> k[1], stage |-> "product", edit |-> e,
                       seen |-> Unrated]
      <4>1. Rate(w, k, e) = [job EXCEPT ![w] = j] /\ j.at = "query"
        BY DEF Rate
      <4> HIDE DEF j
      <4> QED BY <4>1
    <3>2. Idle.at \notin {"edit", "vote"}
      BY DEF Idle
    <3>3. ASSUME job[w].at = "query" \/ job[w].at = "store"
          PROVE  /\ \E j : AfterRating(w) = [job EXCEPT ![w] = j] /\ j.at \notin {"edit", "vote"}
                 /\ \A a : [job[w] EXCEPT !.at = "store", !.seen = a].at \notin {"edit", "vote"}
      <4>1. job[w] \in RateJob
        BY <3>3, JobKinds
      <4>2. \A s : Again(job[w], s).at \notin {"edit", "vote"}
        BY <4>1 DEF Again, RateJob
      <4> DEFINE j == CASE job[w].stage = "product" -> Again(job[w], "shop")
                        [] job[w].stage = "shop" /\ job[w].edit -> Again(job[w], "again")
                        [] OTHER -> Idle
      <4>3. j.at \notin {"edit", "vote"}
        BY <3>2, <4>2
      <4>4. AfterRating(w) = [job EXCEPT ![w] = j]
        BY DEF AfterRating
      <4> QED BY <4>1, <4>3, <4>4 DEF RateJob
    <3>4. CASE InsertRow(w) \/ SaveEdit(w) \/ DeleteRow(w) \/ SaveReply(w) \/ SaveVote(w)
               \/ SaveForm(w) \/ Crash(w)
      <4>1. job' = [job EXCEPT ![w] = Idle] \/ \E k, e : job' = Rate(w, k, e)
        BY <3>4 DEF InsertRow, SaveEdit, DeleteRow, SaveReply, SaveVote, SaveForm, Crash, Raise
      <4> QED BY <3>1, <3>2, <4>1
    <3>5. CASE QueryRating(w)
      <4>1. job' = [job EXCEPT ![w] = [job[w] EXCEPT !.at = "store",
                                                    !.seen = Aggregate(review, CellOf(job[w]))]]
        BY <1>0, <3>5 DEF QueryRating
      <4> QED BY <3>3, <3>5, <4>1 DEF QueryRating
    <3>6. CASE StoreRating(w) \/ SkipShop(w)
      BY <3>3, <3>6 DEF StoreRating, SkipShop
    <3> QED BY <1>2, <3>4, <3>5, <3>6 DEF Continue, Write
  <2>2. ASSUME NEW k \in Keys
        PROVE  \/ review'[k] = review[k] \/ review'[k] = NoRow
               \/ votes'[review'[k].id] >= review'[k].helpful
    <3>1. CASE InsertRow(w)
      <4>1. job[w].id \in ReviewIds
        BY <3>1, JobKinds DEF InsertRow, InsertJob
      <4>2. \/ review'[k] = review[k]
            \/ review'[k] = [id |-> job[w].id, rating |-> job[w].rating,
                             reply |-> NoReply, helpful |-> 0]
        BY <1>0, <3>1 DEF InsertRow, Raise
      <4> QED BY <1>0, <4>1, <4>2
    <3>2. CASE SaveEdit(w)
      <4>1. job[w].copy \in Row
        BY <3>2, JobKinds DEF SaveEdit, EditJob
      <4>2. \/ review'[k] = review[k]
            \/ review'[k] = [job[w].copy EXCEPT !.rating = job[w].rating]
        BY <1>0, <3>2 DEF SaveEdit, Raise
      <4>3. votes'[job[w].copy.id] >= job[w].copy.helpful
        BY <1>0, <2>0, <3>2 DEF SaveEdit, Counted, Cast
      <4> QED BY <4>1, <4>2, <4>3 DEF Row
    <3>3. CASE DeleteRow(w)
      BY <1>0, <3>3 DEF DeleteRow
    <3>4. CASE SaveReply(w)
      <4>1. \/ review'[k] = review[k]
            \/ /\ review[k].id = job[w].id /\ job[w].id \in ReviewIds
               /\ review'[k] = [review[k] EXCEPT !.reply = job[w].reply]
        BY <1>0, <3>4, JobKinds DEF SaveReply, Raise, ReplyJob
      <4>2. CASE review[k].id = job[w].id /\ job[w].id \in ReviewIds
        <5>1. review[k] \in Row /\ review[k] # NoRow
          BY <4>2, Rows
        <5>2. votes[review[k].id] >= review[k].helpful
          BY <1>0, <5>1 DEF Counted, Cast
        <5> QED BY <2>0, <4>1, <5>1, <5>2 DEF Row
      <4> QED BY <4>1, <4>2
    <3>5. CASE SaveVote(w)
      <4>1. \/ review'[k] = review[k]
            \/ /\ review[k].id = job[w].id /\ job[w].id \in ReviewIds
               /\ review'[k] = [review[k] EXCEPT !.helpful = job[w].helpful]
        BY <1>0, <3>5, JobKinds DEF SaveVote, Raise, VoteJob
      <4>2. CASE review[k].id = job[w].id /\ job[w].id \in ReviewIds
        <5>1. review[k] \in Row /\ review[k] # NoRow
          BY <4>2, Rows
        <5>2. votes[job[w].id] >= job[w].helpful
          BY <1>0, <3>5 DEF SaveVote, Counted, Cast
        <5> QED BY <2>0, <4>1, <4>2, <5>1, <5>2 DEF Row
      <4> QED BY <4>1, <4>2
    <3>6. CASE SaveForm(w) \/ QueryRating(w) \/ StoreRating(w) \/ SkipShop(w) \/ Crash(w)
      BY <3>6 DEF SaveForm, QueryRating, StoreRating, SkipShop, Crash
    <3> QED BY <1>2, <3>1, <3>2, <3>3, <3>4, <3>5, <3>6 DEF Continue, Write
  <2> QED BY <1>a, <2>0, <2>1, <2>2
<1>3. CASE UNCHANGED vars
  BY <1>3 DEF vars, Counted, Cast
<1> QED BY <1>1, <1>2, <1>3 DEF Next

\* No interleaving of votes, edits and deletions shows more helpful votes than
\* were cast for the review.
THEOREM VotesNotInvented == Spec => []HelpfulNotInflated
<1>1. Counted => HelpfulNotInflated
  BY DEF Counted, Cast, HelpfulNotInflated
<1> QED BY <1>1, InitCounted, NextCounted, TypeCorrect, PTL DEF Spec

-----------------------------------------------------------------------------
(* Requests that overlap no other                                            *)

\* What such a request holds is what is committed, and the ratings it has stored
\* so far are right.
Sound(w) ==
    LET j == job[w] IN
    /\ j.at = "insert" => review[j.key] = NoRow
    /\ j.at = "edit" => review[j.key] = j.copy
    /\ j.at \in {"delete", "reply", "vote"} => review[j.key].id = j.id
    /\ j.at = "reply" => review[j.key].reply = NoReply
    /\ j.at = "store" => j.seen = Aggregate(review, CellOf(j))
    /\ j.at \in {"query", "store"} /\ j.stage \in {"shop", "again"} =>
          rated[j.product] = Aggregate(review, j.product)
    /\ j.at \in {"query", "store"} /\ j.stage = "again" =>
          rated[Shop] = Aggregate(review, Shop)

Lone(w) ==
    job[w] # Idle /\ w \notin disturbed =>
        Sound(w) /\ \A v \in WebWorkers : v # w => job[v] = Idle

\* A process goes on: the others have nothing to rely on.
LEMMA LoneStep ==
    ASSUME TypeOK, \A v \in WebWorkers : Lone(v), NEW w \in WebWorkers, NEW j,
           job[w] # Idle, job' = [job EXCEPT ![w] = j], disturbed \subseteq disturbed',
           w \notin disturbed' /\ j # Idle => Sound(w)'
    PROVE  \A v \in WebWorkers : Lone(v)'
<1>1. \A v \in WebWorkers : job'[v] = IF v = w THEN j ELSE job[v]
  BY DEF TypeOK
<1> SUFFICES ASSUME NEW v \in WebWorkers, job'[v] # Idle, v \notin disturbed'
             PROVE  Sound(v)' /\ \A u \in WebWorkers : u # v => job'[u] = Idle
  BY DEF Lone
<1>2. v = w
  <2> SUFFICES ASSUME v # w PROVE FALSE
    OBVIOUS
  <2>1. job[v] # Idle /\ v \notin disturbed
    BY <1>1
  <2> QED BY <2>1 DEF Lone
<1>3. Sound(v)'
  BY <1>1, <1>2
<1>4. \A u \in WebWorkers : u # v => job[u] = Idle
  BY <1>2 DEF Lone
<1> QED BY <1>1, <1>2, <1>3, <1>4

\* A request begins.
LEMMA LoneBegins ==
    ASSUME TypeOK, \A v \in WebWorkers : Lone(v), NEW w \in WebWorkers, NEW j, Begin(w, j),
           /\ j.at = "insert" => review[j.key] = NoRow
           /\ j.at = "edit" => review[j.key] = j.copy
           /\ j.at \in {"delete", "reply", "vote"} => review[j.key].id = j.id
           /\ j.at = "reply" => review[j.key].reply = NoReply
           /\ j.at \notin {"query", "store"}
    PROVE  \A v \in WebWorkers : Lone(v)'
<1>1. /\ \A v \in WebWorkers : job'[v] = IF v = w THEN j ELSE job[v]
      /\ review' = review /\ job[w] = Idle
      /\ disturbed' = IF Busy = {} THEN {} ELSE disturbed \cup Busy \cup {w}
  BY DEF TypeOK, Begin
<1>2. CASE Busy = {}
  <2>1. \A v \in WebWorkers : job[v] = Idle
    BY <1>2 DEF Busy
  <2>2. Sound(w)'
    BY <1>1 DEF Sound
  <2> QED BY <1>1, <2>1, <2>2 DEF Lone
<1>3. CASE Busy # {}
  <2>1. \A v \in WebWorkers : job'[v] # Idle => v \in disturbed'
    BY <1>1, <1>3 DEF Busy
  <2> QED BY <2>1 DEF Lone
<1> QED BY <1>2, <1>3

LEMMA LoneStart ==
    ASSUME TypeOK, \A v \in WebWorkers : Lone(v), NEW w \in WebWorkers, Start(w)
    PROVE  \A v \in WebWorkers : Lone(v)'
<1>1. ASSUME NEW k \in Keys, NEW r \in Ratings, NEW i \in ReviewIds, CreateRead(w, k, i, r)
      PROVE  \A v \in WebWorkers : Lone(v)'
  <2>1. PICK j : j = [at |-> "insert", key |-> k, id |-> i, rating |-> r]
    OBVIOUS
  <2>2. Begin(w, j) /\ j.at = "insert" /\ j.key = k /\ review[k] = NoRow
    BY <1>1, <2>1 DEF CreateRead
  <2> QED BY <2>2, LoneBegins
<1>2. ASSUME NEW k \in Keys, NEW r \in Ratings, EditRead(w, k, r)
      PROVE  \A v \in WebWorkers : Lone(v)'
  <2>1. PICK j : j = [at |-> "edit", key |-> k, copy |-> review[k], rating |-> r]
    OBVIOUS
  <2>2. Begin(w, j) /\ j.at = "edit" /\ j.key = k /\ j.copy = review[k]
    BY <1>2, <2>1 DEF EditRead
  <2> QED BY <2>2, LoneBegins
<1>3. ASSUME NEW k \in Keys, DeleteRead(w, k)
      PROVE  \A v \in WebWorkers : Lone(v)'
  <2>1. PICK j : j = [at |-> "delete", key |-> k, id |-> review[k].id]
    OBVIOUS
  <2>2. Begin(w, j) /\ j.at = "delete" /\ j.key = k /\ j.id = review[k].id
    BY <1>3, <2>1 DEF DeleteRead
  <2> QED BY <2>2, LoneBegins
<1>4. ASSUME NEW k \in Keys, NEW text \in Replies, ReplyRead(w, k, text)
      PROVE  \A v \in WebWorkers : Lone(v)'
  <2>1. PICK j : j = [at |-> "reply", key |-> k, id |-> review[k].id, reply |-> text]
    OBVIOUS
  <2>2. /\ Begin(w, j) /\ j.at = "reply" /\ j.key = k /\ j.id = review[k].id
        /\ review[k].reply = NoReply
    BY <1>4, <2>1 DEF ReplyRead
  <2> QED BY <2>2, LoneBegins
<1>5. ASSUME NEW k \in Keys, VoteRead(w, k)
      PROVE  \A v \in WebWorkers : Lone(v)'
  <2>1. PICK j : j = [at |-> "vote", key |-> k, id |-> review[k].id,
                      helpful |-> review[k].helpful + 1]
    OBVIOUS
  <2>2. Begin(w, j) /\ j.at = "vote" /\ j.key = k /\ j.id = review[k].id
    BY <1>5, <2>1 DEF VoteRead
  <2> QED BY <2>2, LoneBegins
<1>6. ASSUME NEW cell \in Cells, FormRead(w, cell)
      PROVE  \A v \in WebWorkers : Lone(v)'
  <2>1. PICK j : j = [at |-> "form", cell |-> cell, seen |-> rated[cell]]
    OBVIOUS
  <2>2. Begin(w, j) /\ j.at = "form"
    BY <1>6, <2>1 DEF FormRead
  <2> QED BY <2>2, LoneBegins
<1> QED BY <1>1, <1>2, <1>3, <1>4, <1>5, <1>6 DEF Start

\* A write ends the request, or the ratings come next.
LEMMA WriteEffects ==
    ASSUME NEW w \in WebWorkers, Write(w)
    PROVE  /\ job[w] # Idle /\ disturbed' = disturbed
           /\ job' = [job EXCEPT ![w] = Idle] \/ \E k, e : job' = Rate(w, k, e)
<1>1. job[w].at \in {"insert", "edit", "delete", "reply", "vote", "form"}
  BY DEF Write, InsertRow, SaveEdit, DeleteRow, SaveReply, SaveVote, SaveForm
<1>2. job[w] # Idle
  BY <1>1 DEF Idle
<1>3. disturbed' = disturbed
  BY Zenon DEF Write, InsertRow, SaveEdit, DeleteRow, SaveReply, SaveVote, SaveForm
<1>4. job' = [job EXCEPT ![w] = Idle] \/ \E k, e : job' = Rate(w, k, e)
  BY DEF Write, InsertRow, SaveEdit, DeleteRow, SaveReply, SaveVote, SaveForm, Raise
<1> QED BY <1>2, <1>3, <1>4

\* A write is done: the ratings come next, or nothing.
LEMMA LoneWrites ==
    ASSUME TypeOK, \A v \in WebWorkers : Lone(v), NEW w \in WebWorkers, Write(w)
    PROVE  \A v \in WebWorkers : Lone(v)'
<1>1. job[w] # Idle /\ disturbed' = disturbed
  BY WriteEffects
<1>2. job' = [job EXCEPT ![w] = Idle] \/ \E k, e : job' = Rate(w, k, e)
  BY WriteEffects
<1>3. CASE job' = [job EXCEPT ![w] = Idle]
  BY <1>1, <1>3, LoneStep
<1>4. ASSUME NEW k, NEW e, job' = Rate(w, k, e) PROVE \A v \in WebWorkers : Lone(v)'
  <2>1. PICK j : j = [at |-> "query", product |-> k[1], stage |-> "product", edit |-> e,
                      seen |-> Unrated]
    OBVIOUS
  <2>2. job' = [job EXCEPT ![w] = j] /\ j.at = "query" /\ j.stage = "product"
    BY <1>4, <2>1 DEF Rate
  <2>3. job'[w] = j
    BY <2>2 DEF TypeOK
  <2>4. Sound(w)'
    BY <2>2, <2>3 DEF Sound
  <2> QED BY <1>1, <2>2, <2>4, LoneStep
<1> QED BY <1>2, <1>3, <1>4

\* What follows a rating.
LEMMA AfterKinds ==
    ASSUME TypeOK, NEW w \in WebWorkers, job[w] \in RateJob
    PROVE  \E j : /\ AfterRating(w) = [job EXCEPT ![w] = j]
                  /\ \/ j = Idle /\ (job[w].stage = "again" \/ (job[w].stage = "shop" /\ ~job[w].edit))
                     \/ /\ j.at = "query" /\ j.product = job[w].product /\ j.edit = job[w].edit
                        /\ \/ job[w].stage = "product" /\ j.stage = "shop"
                           \/ job[w].stage = "shop" /\ job[w].edit /\ j.stage = "again"
<1> DEFINE j == CASE job[w].stage = "product" -> Again(job[w], "shop")
                  [] job[w].stage = "shop" /\ job[w].edit -> Again(job[w], "again")
                  [] OTHER -> Idle
<1>1. AfterRating(w) = [job EXCEPT ![w] = j]
  BY DEF AfterRating
<1>2. \A s : /\ Again(job[w], s).at = "query" /\ Again(job[w], s).stage = s
             /\ Again(job[w], s).product = job[w].product /\ Again(job[w], s).edit = job[w].edit
  BY DEF Again, RateJob
<1>3. job[w].stage \in {"product", "shop", "again"} /\ job[w].edit \in BOOLEAN
  BY DEF RateJob
<1>4. CASE job[w].stage = "product"
  <2>1. j = Again(job[w], "shop")
    BY <1>4
  <2> HIDE DEF j
  <2> QED BY <1>1, <1>2, <1>4, <2>1
<1>5. CASE job[w].stage = "shop" /\ job[w].edit
  <2>1. j = Again(job[w], "again")
    BY <1>5
  <2> HIDE DEF j
  <2> QED BY <1>1, <1>2, <1>5, <2>1
<1>6. CASE job[w].stage = "again" \/ (job[w].stage = "shop" /\ ~job[w].edit)
  <2>1. j = Idle
    BY <1>6
  <2> HIDE DEF j
  <2> QED BY <1>1, <1>6, <2>1
<1> QED BY <1>3, <1>4, <1>5, <1>6

\* The ratings of the product and of the shop once the right one was stored.
LEMMA Stored ==
    ASSUME TypeOK, NEW w \in WebWorkers, StoreRating(w), Sound(w)
    PROVE  /\ job[w] \in RateJob
           /\ rated'[CellOf(job[w])] = Aggregate(review', CellOf(job[w]))
           /\ job[w].stage = "product" => CellOf(job[w]) = job[w].product
           /\ job[w].stage \in {"shop", "again"} =>
                 /\ rated'[job[w].product] = Aggregate(review', job[w].product)
                 /\ rated'[Shop] = Aggregate(review', Shop)
<1>1. /\ job[w] \in RateJob /\ job[w].product \in Products /\ Shop \notin Products
      /\ CellOf(job[w]) \in Cells /\ Shop \in Cells /\ job[w].product \in Cells
      /\ job[w].at = "store" /\ rated \in [Cells -> Aggregates]
  BY JobKinds, ReviewsAssumption DEF StoreRating, RateJob, CellOf, Cells, TypeOK
<1>2. review' = review /\ rated' = [rated EXCEPT ![CellOf(job[w])] = job[w].seen]
  BY DEF StoreRating
<1>3. \A c \in Cells : rated'[c] = IF c = CellOf(job[w]) THEN job[w].seen ELSE rated[c]
  BY <1>1, <1>2
<1>4. /\ job[w].seen = Aggregate(review, CellOf(job[w]))
      /\ job[w].stage \in {"shop", "again"} =>
            rated[job[w].product] = Aggregate(review, job[w].product)
      /\ job[w].stage = "again" => rated[Shop] = Aggregate(review, Shop)
  BY <1>1 DEF Sound
<1>5. /\ job[w].stage = "shop" => CellOf(job[w]) = Shop
      /\ job[w].stage \in {"product", "again"} => CellOf(job[w]) = job[w].product
  BY DEF CellOf
<1> QED BY <1>1, <1>2, <1>3, <1>4, <1>5

LEMMA NextLone ==
    TypeOK /\ (\A v \in WebWorkers : Lone(v)) /\ [Next]_vars => \A v \in WebWorkers : Lone(v)'
<1> SUFFICES ASSUME TypeOK, \A v \in WebWorkers : Lone(v), [Next]_vars
             PROVE  \A v \in WebWorkers : Lone(v)'
  OBVIOUS
<1>1. ASSUME NEW w \in WebWorkers, QueryRating(w) PROVE \A v \in WebWorkers : Lone(v)'
  <2>1. PICK j : j = [job[w] EXCEPT !.at = "store", !.seen = Aggregate(review, CellOf(job[w]))]
    OBVIOUS
  <2>2. job[w] \in RateJob /\ job[w] # Idle /\ job[w].at = "query"
    BY <1>1, JobKinds DEF QueryRating, Idle
  <2>3. /\ j.at = "store" /\ j.seen = Aggregate(review, CellOf(job[w]))
        /\ j.stage = job[w].stage /\ j.product = job[w].product /\ CellOf(j) = CellOf(job[w])
    BY <2>1, <2>2 DEF RateJob, CellOf
  <2>4. /\ job' = [job EXCEPT ![w] = j] /\ job'[w] = j
        /\ review' = review /\ rated' = rated /\ disturbed' = disturbed
    BY <1>1, <2>1 DEF QueryRating, TypeOK
  <2>5. w \notin disturbed' => Sound(w)'
    BY <2>2, <2>3, <2>4 DEF Lone, Sound
  <2> QED BY <2>2, <2>4, <2>5, LoneStep
<1>2. ASSUME NEW w \in WebWorkers, StoreRating(w) PROVE \A v \in WebWorkers : Lone(v)'
  <2>1. /\ job[w] \in RateJob /\ job[w] # Idle /\ job[w].at = "store"
        /\ review' = review /\ disturbed' = disturbed
    BY <1>2, JobKinds DEF StoreRating, Idle
  <2>2. PICK j : /\ AfterRating(w) = [job EXCEPT ![w] = j]
                 /\ \/ j = Idle
                    \/ /\ j.at = "query" /\ j.product = job[w].product
                       /\ \/ job[w].stage = "product" /\ j.stage = "shop"
                          \/ job[w].stage = "shop" /\ j.stage = "again"
    BY <2>1, AfterKinds
  <2>3. job' = [job EXCEPT ![w] = j] /\ job'[w] = j
    BY <1>2, <2>2 DEF StoreRating, TypeOK
  <2>4. ASSUME w \notin disturbed', j # Idle PROVE Sound(w)'
    <3>1. Sound(w)
      BY <2>1, <2>4 DEF Lone
    <3>2. /\ rated'[CellOf(job[w])] = Aggregate(review', CellOf(job[w]))
          /\ job[w].stage = "product" => CellOf(job[w]) = job[w].product
          /\ job[w].stage = "shop" =>
                /\ rated'[job[w].product] = Aggregate(review', job[w].product)
                /\ rated'[Shop] = Aggregate(review', Shop)
      BY <1>2, <3>1, Stored
    <3>3. rated'[j.product] = Aggregate(review', j.product)
      BY <2>2, <2>4, <3>2
    <3>4. j.stage = "again" => rated'[Shop] = Aggregate(review', Shop)
      BY <2>2, <2>4, <3>2
    <3> QED BY <2>2, <2>3, <2>4, <3>3, <3>4 DEF Sound
  <2> QED BY <2>1, <2>3, <2>4, LoneStep
<1>3. ASSUME NEW w \in WebWorkers, SkipShop(w) \/ Crash(w)
      PROVE  \A v \in WebWorkers : Lone(v)'
  <2>1. /\ job[w] # Idle /\ disturbed \subseteq disturbed' /\ w \in disturbed'
        /\ \E j : job' = [job EXCEPT ![w] = j]
    BY <1>3 DEF SkipShop, Crash, Idle, AfterRating
  <2> QED BY <2>1, LoneStep
<1>4. CASE UNCHANGED vars
  BY <1>4 DEF vars, Lone, Sound
<1> QED BY <1>1, <1>2, <1>3, <1>4, LoneStart, LoneWrites DEF Next, Continue

\* A step is of one process.
LEMMA StepOfOne ==
    ASSUME TypeOK, NEW w \in WebWorkers, Start(w) \/ Continue(w) \/ SkipShop(w) \/ Crash(w)
    PROVE  \E j : job' = [job EXCEPT ![w] = j]
<1>1. CASE Start(w)
  BY <1>1, StartKinds DEF Begin
<1>2. CASE Write(w)
  BY <1>2, WriteEffects DEF Rate
<1>3. CASE QueryRating(w)
  <2>1. job' = [job EXCEPT ![w] = [job[w] EXCEPT !.at = "store",
                                                !.seen = Aggregate(review, CellOf(job[w]))]]
    BY <1>3 DEF QueryRating, TypeOK
  <2> QED BY <2>1
<1>4. CASE StoreRating(w) \/ SkipShop(w) \/ Crash(w)
  BY <1>4 DEF StoreRating, SkipShop, Crash, AfterRating
<1> QED BY <1>1, <1>2, <1>3, <1>4 DEF Continue

\* The write of a request that overlaps no other does not fail.
LEMMA NoneRaises ==
    ASSUME TypeOK, NEW w \in WebWorkers, Sound(w), Write(w), job[w].at # "form"
    PROVE  \E k, e : job' = Rate(w, k, e)
<1>1. job[w].at = "edit" => job[w].copy.id = review[job[w].key].id
  BY DEF Sound
<1> QED BY <1>1 DEF Sound, Write, InsertRow, SaveEdit, DeleteRow, SaveReply, SaveVote, SaveForm

LInv == TypeOK /\ \A w \in WebWorkers : Lone(w)

LEMMA LoneInvariant == Spec => []LInv
<1>1. Init => LInv
  BY InitTypeOK DEF Init, LInv, Lone
<1>2. LInv /\ [Next]_vars => LInv'
  BY NextTypeOK, NextLone DEF LInv
<1> QED BY <1>1, <1>2, PTL DEF Spec

\* A request on a review that overlaps no other leaves the ratings of its product
\* and of the shop right, whatever came before it.
THEOREM RatingsAreRepaired == Spec => RatingRepaired
<1>1. ASSUME LInv, Next, NEW w \in WebWorkers, job[w] # Idle, job[w].at # "form",
             job'[w] = Idle, w \notin disturbed', NEW cell \in {ProductOf(job[w]), Shop}
      PROVE  rated'[cell] = Aggregate(review', cell)
  <2>0. TypeOK /\ Lone(w) /\ job \in [WebWorkers -> Job]
    BY <1>1 DEF LInv, TypeOK
  <2>1. PICK v \in WebWorkers : Start(v) \/ Continue(v) \/ SkipShop(v) \/ Crash(v)
    BY <1>1 DEF Next
  <2>2. v = w
    <3>1. \E j : job' = [job EXCEPT ![v] = j]
      BY <2>0, <2>1, StepOfOne
    <3> QED BY <1>1, <2>0, <3>1
  <2>3. ~Start(w) /\ ~SkipShop(w) /\ ~Crash(w)
    <3>1. ~Start(w)
      BY <1>1, <2>0, StartKinds DEF Begin
    <3>2. ~SkipShop(w) /\ ~Crash(w)
      BY <1>1 DEF SkipShop, Crash
    <3> QED BY <3>1, <3>2
  <2>4. Sound(w) /\ w \notin disturbed
    <3>1. disturbed' = disturbed
      BY <2>1, <2>2, <2>3, WriteEffects DEF Continue, QueryRating, StoreRating
    <3> QED BY <1>1, <2>0, <3>1 DEF Lone
  <2>5. CASE Write(w)
    <3>1. \E k, e : job' = Rate(w, k, e)
      BY <1>1, <2>0, <2>4, <2>5, NoneRaises
    <3>2. job'[w] # Idle
      <4>1. PICK k, e : job' = Rate(w, k, e)
        BY <3>1
      <4>2. job'[w].at = "query"
        BY <2>0, <4>1 DEF Rate
      <4> QED BY <4>2 DEF Idle
    <3> QED BY <1>1, <3>2
  <2>6. CASE QueryRating(w)
    <3>1. job'[w].at = "store"
      <4>1. job[w] \in RateJob
        BY <2>0, <2>6, JobKinds DEF QueryRating
      <4> QED BY <2>0, <2>6, <4>1 DEF QueryRating, RateJob
    <3> QED BY <1>1, <3>1 DEF Idle
  <2>7. CASE StoreRating(w)
    <3>1. /\ job[w] \in RateJob /\ ProductOf(job[w]) = job[w].product
          /\ job[w].stage \in {"shop", "again"} =>
                /\ rated'[job[w].product] = Aggregate(review', job[w].product)
                /\ rated'[Shop] = Aggregate(review', Shop)
      BY <2>0, <2>4, <2>7, Stored DEF ProductOf, StoreRating
    <3>2. job[w].stage \in {"shop", "again"}
      <4>1. PICK j : /\ AfterRating(w) = [job EXCEPT ![w] = j]
                     /\ \/ j = Idle /\ job[w].stage \in {"shop", "again"}
                        \/ j.at = "query"
        BY <2>0, <3>1, AfterKinds
      <4>2. j = Idle
        BY <1>1, <2>0, <2>7, <4>1 DEF StoreRating
      <4> QED BY <4>1, <4>2 DEF Idle
    <3> QED BY <1>1, <3>1, <3>2
  <2> QED BY <2>1, <2>2, <2>3, <2>5, <2>6, <2>7 DEF Continue
<1>2. LInv /\ [Next]_vars =>
         [\A w \in WebWorkers :
             job[w] # Idle /\ job[w].at # "form" /\ job'[w] = Idle /\ w \notin disturbed'
             => \A cell \in {ProductOf(job[w]), Shop} :
                   rated'[cell] = Aggregate(review', cell)]_vars
  BY <1>1
<1> QED BY <1>2, LoneInvariant, PTL DEF Spec, RatingRepaired

\* Only a request that overlapped another replaces a reply or brings back a
\* review that was deleted.
THEOREM NothingIsUndone == Spec => NothingUndone
<1>1. ASSUME LInv, Next, NEW w \in WebWorkers, NEW k \in Keys, job[w] # job'[w],
             review'[k] # NoRow, w \notin disturbed,
             \/ review[k] = NoRow /\ job[w].at # "insert"
             \/ /\ review[k] # NoRow /\ review'[k].id = review[k].id
                /\ review[k].reply \notin {NoReply, review'[k].reply}
      PROVE  FALSE
  <2>0. TypeOK /\ Lone(w) /\ job \in [WebWorkers -> Job] /\ review \in [Keys -> Row \cup {NoRow}]
    BY <1>1 DEF LInv, TypeOK
  <2>1. PICK v \in WebWorkers : Start(v) \/ Continue(v) \/ SkipShop(v) \/ Crash(v)
    BY <1>1 DEF Next
  <2>2. v = w
    <3>1. \E j : job' = [job EXCEPT ![v] = j]
      BY <2>0, <2>1, StepOfOne
    <3> QED BY <1>1, <2>0, <3>1
  <2>3. review'[k] # review[k]
    BY <1>1
  <2>4. InsertRow(w) \/ SaveEdit(w) \/ DeleteRow(w) \/ SaveReply(w) \/ SaveVote(w)
    <3>1. CASE Start(w)
      BY <2>0, <2>3, <3>1, StartKinds DEF Begin
    <3>2. CASE SaveForm(w) \/ QueryRating(w) \/ StoreRating(w) \/ SkipShop(w) \/ Crash(w)
      BY <2>3, <3>2 DEF SaveForm, QueryRating, StoreRating, SkipShop, Crash
    <3>3. Start(w) \/ Continue(w) \/ SkipShop(w) \/ Crash(w)
      BY <2>1, <2>2
    <3> QED BY <3>1, <3>2, <3>3 DEF Continue, Write
  <2>5. Sound(w)
    <3>1. job[w] # Idle
      BY <2>4, WriteEffects DEF Write
    <3> QED BY <1>1, <2>0, <3>1 DEF Lone
  <2>6. CASE InsertRow(w)
    BY <1>1, <2>0, <2>3, <2>5, <2>6 DEF InsertRow, Sound, Raise
  <2>7. CASE SaveEdit(w)
    <3>1. job[w].copy \in Row /\ job[w].copy = review[job[w].key]
      BY <2>0, <2>5, <2>7, JobKinds DEF SaveEdit, EditJob, Sound
    <3>2. k = job[w].key /\ review'[k] = [job[w].copy EXCEPT !.rating = job[w].rating]
      BY <2>0, <2>3, <2>7 DEF SaveEdit, Raise
    <3>3. review[k] # NoRow /\ review'[k].reply = review[k].reply
      BY <2>0, <3>1, <3>2, Rows DEF Row
    <3> QED BY <1>1, <3>3
  <2>8. CASE DeleteRow(w)
    BY <1>1, <2>0, <2>3, <2>8 DEF DeleteRow
  <2>9. CASE SaveReply(w)
    <3>1. k = job[w].key /\ review[k].id = job[w].id /\ job[w].id \in ReviewIds
      BY <2>0, <2>3, <2>9, JobKinds DEF SaveReply, Raise, ReplyJob
    <3>2. review[k] # NoRow /\ review[k].reply = NoReply
      BY <2>0, <2>5, <2>9, <3>1, Rows DEF SaveReply, Sound
    <3> QED BY <1>1, <3>2
  <2>10. CASE SaveVote(w)
    <3>1. /\ k = job[w].key /\ review[k].id = job[w].id /\ job[w].id \in ReviewIds
          /\ review'[k] = [review[k] EXCEPT !.helpful = job[w].helpful]
      BY <2>0, <2>3, <2>10, JobKinds DEF SaveVote, Raise, VoteJob
    <3>2. review[k] # NoRow /\ review'[k].reply = review[k].reply
      BY <2>0, <3>1, Rows DEF Row
    <3> QED BY <1>1, <3>2
  <2> QED BY <2>4, <2>6, <2>7, <2>8, <2>9, <2>10
<1>2. LInv /\ [Next]_vars =>
         [\A w \in WebWorkers, k \in Keys :
             LET old == review[k]
                 new == review'[k] IN
             (/\ job[w] # job'[w]
              /\ new # NoRow
              /\ \/ old = NoRow /\ job[w].at # "insert"
                 \/ old # NoRow /\ new.id = old.id /\ old.reply \notin {NoReply, new.reply})
             => w \in disturbed]_vars
  BY <1>1
<1> QED BY <1>2, LoneInvariant, PTL DEF Spec, NothingUndone

=============================================================================
