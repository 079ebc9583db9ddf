------------------------------ MODULE Reviews ------------------------------
(***************************************************************************)
(* Product reviews: a customer writes, edits and deletes one, the artisan  *)
(* replies once, anybody votes it helpful.  Every save of a review makes   *)
(* the product and then the shop recompute their rating, by an aggregate   *)
(* query and a later write.  The edit forms of the product and of the shop *)
(* save every column, the rating they were loaded with included.  Nothing  *)
(* is locked and no request runs in a transaction, so each query below is  *)
(* a step of its own.                                                      *)
(***************************************************************************)
EXTENDS Naturals

CONSTANTS
    Products, Customers,
    Shop,         \* the profile of the one artisan of all the products
    WebWorkers,   \* processes that serve requests
    ReviewIds,    \* primary keys (UUIDs); bounds the attempts to write a review
    Ratings,      \* 1..5
    Replies, NoReply,
    MaxVotes      \* bound: votes cast for one review

ASSUME ReviewsAssumption ==
    /\ Shop \notin Products
    /\ "none" \notin ReviewIds   \* the id of NoRow
    /\ NoReply \notin Replies
    /\ MaxVotes \in Nat

VARIABLES
    review,    \* the committed row of each product and customer, or NoRow
    rated,     \* the rating stored in each product and in the shop
    job,       \* what each process is doing
    drawn,     \* the primary keys given out
    votes,     \* history: the votes cast for each review
    disturbed  \* history: open requests that overlapped another, were killed or
               \* had the update of the shop raise

vars == <<review, rated, job, drawn, votes, disturbed>>

Keys == Products \X Customers   \* unique_together
Cells == Products \cup {Shop}

Row == [id : ReviewIds, rating : Ratings, reply : Replies \cup {NoReply}, helpful : Nat]
NoRow == [id |-> "none"]

\* An aggregate (average and count) is identified by the ratings it is taken over.
Aggregates == UNION {[K -> Ratings] : K \in SUBSET Keys}

Unrated == [k \in {} |-> 0]

\* The query of update_rating: the reviews of a product, or of all the artisan's.
Aggregate(rows, cell) ==
    [k \in {q \in Keys : cell \in {q[1], Shop} /\ rows[q] # NoRow} |-> rows[k].rating]

Idle == [at |-> "idle"]
InsertJob == [at : {"insert"}, key : Keys, id : ReviewIds, rating : Ratings]
EditJob == [at : {"edit"}, key : Keys, copy : Row, rating : Ratings]
DeleteJob == [at : {"delete"}, key : Keys, id : ReviewIds]
ReplyJob == [at : {"reply"}, key : Keys, id : ReviewIds, reply : Replies]
VoteJob == [at : {"vote"}, key : Keys, id : ReviewIds, helpful : Nat]
RateJob == [at : {"query", "store"}, product : Products,
            stage : {"product", "shop", "again"}, edit : BOOLEAN, seen : Aggregates]
FormJob == [at : {"form"}, cell : Cells, seen : Aggregates]
Job == {Idle} \cup InsertJob \cup EditJob \cup DeleteJob \cup ReplyJob
           \cup VoteJob \cup RateJob \cup FormJob

Init ==
    /\ review = [k \in Keys |-> NoRow]
    /\ rated = [cell \in Cells |-> Unrated]
    /\ job = [w \in WebWorkers |-> Idle]
    /\ drawn = {}
    /\ votes = [i \in ReviewIds |-> 0]
    /\ disturbed = {}

-----------------------------------------------------------------------------
(* The first query of a request, and the checks of what it read            *)

Busy == {w \in WebWorkers : job[w] # Idle}

Begin(w, j) ==
    /\ job[w] = Idle
    /\ job' = [job EXCEPT ![w] = j]
    /\ disturbed' = IF Busy = {} THEN {} ELSE disturbed \cup Busy \cup {w}
    /\ UNCHANGED <<review, rated>>

\* The serializer's check that the customer has not reviewed the product.
CreateRead(w, k, i, r) ==
    /\ review[k] = NoRow
    /\ i \notin drawn
    /\ drawn' = drawn \cup {i}
    /\ Begin(w, [at |-> "insert", key |-> k, id |-> i, rating |-> r])
    /\ UNCHANGED votes

Bug_EditRead(w, k, r) ==
    /\ Begin(w, [at |-> "edit", key |-> k, copy |-> review[k], rating |-> r])
    /\ UNCHANGED <<drawn, votes>>

EditRead(w, k, r) ==
    /\ review[k] # NoRow
    /\ Begin(w, [at |-> "edit", key |-> k, copy |-> review[k], rating |-> r])
    /\ UNCHANGED <<drawn, votes>>

DeleteRead(w, k) ==
    /\ review[k] # NoRow
    /\ Begin(w, [at |-> "delete", key |-> k, id |-> review[k].id])
    /\ UNCHANGED <<drawn, votes>>

\* An artisan replies to a review once.
ReplyRead(w, k, text) ==
    /\ review[k] # NoRow
    /\ review[k].reply = NoReply
    /\ Begin(w, [at |-> "reply", key |-> k, id |-> review[k].id, reply |-> text])
    /\ UNCHANGED <<drawn, votes>>

\* helpful_count += 1, in the copy.
VoteRead(w, k) ==
    /\ review[k] # NoRow
    /\ votes[review[k].id] < MaxVotes
    /\ Begin(w, [at |-> "vote", key |-> k, id |-> review[k].id,
                 helpful |-> review[k].helpful + 1])
    /\ votes' = [votes EXCEPT ![review[k].id] = @ + 1]
    /\ UNCHANGED drawn

\* The edit form of a product or of the shop loads the row.
FormRead(w, cell) ==
    /\ Begin(w, [at |-> "form", cell |-> cell, seen |-> rated[cell]])
    /\ UNCHANGED <<drawn, votes>>

-----------------------------------------------------------------------------
(* The write                                                               *)

\* The ratings are recomputed next: of the product, of the shop, and once more
\* of the product when the review was edited.
Rate(w, k, edit) ==
    [job EXCEPT ![w] = [at |-> "query", product |-> k[1], stage |-> "product",
                        edit |-> edit, seen |-> Unrated]]

\* The statement raises and the request ends; nothing is written.
Raise(w) ==
    /\ job' = [job EXCEPT ![w] = Idle]
    /\ UNCHANGED review

InsertRow(w) ==
    /\ job[w].at = "insert"
    /\ LET j == job[w] IN
       IF review[j.key] = NoRow
       THEN /\ review' = [review EXCEPT ![j.key] =
                    [id |-> j.id, rating |-> j.rating, reply |-> NoReply, helpful |-> 0]]
            /\ job' = Rate(w, j.key, FALSE)
       ELSE Raise(w)
    /\ UNCHANGED <<rated, drawn, votes, disturbed>>

Bug_SaveEdit(w) ==
    /\ job[w].at = "edit"
    /\ LET j == job[w] IN
       IF review[j.key] = NoRow \/ review[j.key].id = j.copy.id
       THEN /\ review' = [review EXCEPT ![j.key] =
                             [j.copy EXCEPT !.rating = j.rating, !.reply = NoReply]]
            /\ job' = Rate(w, j.key, TRUE)
       ELSE Raise(w)
    /\ UNCHANGED <<rated, drawn, votes, disturbed>>

\* Every column is written from the copy.  A row that is gone is inserted again,
\* unless the customer has written another since.
SaveEdit(w) ==
    /\ job[w].at = "edit"
    /\ LET j == job[w] IN
       IF review[j.key] = NoRow \/ review[j.key].id = j.copy.id
       THEN /\ review' = [review EXCEPT ![j.key] = [j.copy EXCEPT !.rating = j.rating]]
            /\ job' = Rate(w, j.key, TRUE)
       ELSE Raise(w)
    /\ UNCHANGED <<rated, drawn, votes, disturbed>>

Bug_DeleteRow(w) ==
    /\ job[w].at = "delete"
    /\ LET j == job[w] IN
       /\ review' = IF review[j.key].id = j.id
                    THEN [review EXCEPT ![j.key] = NoRow] ELSE review
       /\ job' = [job EXCEPT ![w] = Idle]
    /\ UNCHANGED <<rated, drawn, votes, disturbed>>

\* DELETE by primary key: deleting a row that is gone already is no error.
DeleteRow(w) ==
    /\ job[w].at = "delete"
    /\ LET j == job[w] IN
       /\ review' = IF review[j.key].id = j.id
                    THEN [review EXCEPT ![j.key] = NoRow] ELSE review
       /\ job' = Rate(w, j.key, FALSE)
    /\ UNCHANGED <<rated, drawn, votes, disturbed>>

\* save(update_fields=...): an UPDATE that finds no row raises.
SaveReply(w) ==
    /\ job[w].at = "reply"
    /\ LET j == job[w] IN
       IF review[j.key].id = j.id
       THEN /\ review' = [review EXCEPT ![j.key].reply = j.reply]
            /\ job' = Rate(w, j.key, FALSE)
       ELSE Raise(w)
    /\ UNCHANGED <<rated, drawn, votes, disturbed>>

Bug_SaveVote(w) ==
    /\ job[w].at = "vote"
    /\ LET j == job[w] IN
       IF review[j.key].id = j.id
       THEN /\ review' = [review EXCEPT ![j.key].helpful = @ + j.helpful]
            /\ job' = Rate(w, j.key, FALSE)
       ELSE Raise(w)
    /\ UNCHANGED <<rated, drawn, votes, disturbed>>

SaveVote(w) ==
    /\ job[w].at = "vote"
    /\ LET j == job[w] IN
       IF review[j.key].id = j.id
       THEN /\ review' = [review EXCEPT ![j.key].helpful = j.helpful]
            /\ job' = Rate(w, j.key, FALSE)
       ELSE Raise(w)
    /\ UNCHANGED <<rated, drawn, votes, disturbed>>

SaveForm(w) ==
    /\ job[w].at = "form"
    /\ rated' = [rated EXCEPT ![job[w].cell] = job[w].seen]
    /\ job' = [job EXCEPT ![w] = Idle]
    /\ UNCHANGED <<review, drawn, votes, disturbed>>

-----------------------------------------------------------------------------
(* update_rating, of the product and of the shop                           *)

CellOf(j) == IF j.stage = "shop" THEN Shop ELSE j.product

QueryRating(w) ==
    /\ job[w].at = "query"
    /\ job' = [job EXCEPT ![w].at = "store",
                          ![w].seen = Aggregate(review, CellOf(job[w]))]
    /\ UNCHANGED <<review, rated, drawn, votes, disturbed>>

Again(j, stage) == [j EXCEPT !.at = "query", !.stage = stage, !.seen = Unrated]

\* The product is followed by the shop, and in an edit the shop by the product.
AfterRating(w) ==
    LET j == job[w] IN
    [job EXCEPT ![w] =
        CASE j.stage = "product" -> Again(j, "shop")
          [] j.stage = "shop" /\ j.edit -> Again(j, "again")
          [] OTHER -> Idle]

StoreRating(w) ==
    /\ job[w].at = "store"
    /\ rated' = [rated EXCEPT ![CellOf(job[w])] = job[w].seen]
    /\ job' = AfterRating(w)
    /\ UNCHANGED <<review, drawn, votes, disturbed>>

\* The update of the shop raises (the artisan may have no profile): the
\* exception is swallowed.
SkipShop(w) ==
    /\ job[w].at \in {"query", "store"}
    /\ job[w].stage = "shop"
    /\ disturbed' = disturbed \cup {w}
    /\ job' = AfterRating(w)
    /\ UNCHANGED <<review, rated, drawn, votes>>

\* The process is killed between two queries.
Crash(w) ==
    /\ job[w] # Idle
    /\ job' = [job EXCEPT ![w] = Idle]
    /\ disturbed' = disturbed \cup {w}
    /\ UNCHANGED <<review, rated, drawn, votes>>

-----------------------------------------------------------------------------
(* Specification                                                           *)

Start(w) ==
    \/ \E k \in Keys :
          \/ \E r \in Ratings, i \in ReviewIds : CreateRead(w, k, i, r)
          \/ \E r \in Ratings : EditRead(w, k, r)
          \/ DeleteRead(w, k)
          \/ \E text \in Replies : ReplyRead(w, k, text)
          \/ VoteRead(w, k)
    \/ \E cell \in Cells : FormRead(w, cell)

Write(w) ==
    InsertRow(w) \/ SaveEdit(w) \/ DeleteRow(w) \/ SaveReply(w) \/ SaveVote(w) \/ SaveForm(w)

Continue(w) == Write(w) \/ QueryRating(w) \/ StoreRating(w)

Next ==
    \E w \in WebWorkers : Start(w) \/ Continue(w) \/ SkipShop(w) \/ Crash(w)

Spec == Init /\ [][Next]_vars

-----------------------------------------------------------------------------
(* Properties                                                              *)

\* Every variable keeps its type.
TypeOK ==
    /\ review \in [Keys -> Row \cup {NoRow}]
    /\ rated \in [Cells -> Aggregates]
    /\ job \in [WebWorkers -> Job]
    /\ drawn \subseteq ReviewIds
    /\ votes \in [ReviewIds -> 0 .. MaxVotes]
    /\ disturbed \subseteq WebWorkers

\* Votes are lost when requests overlap, but never invented: no interleaving of
\* votes and edits shows more helpful votes than were cast for the review.
HelpfulNotInflated ==
    \A k \in Keys :
        review[k] # NoRow => review[k].helpful <= votes[review[k].id]

ProductOf(j) == IF j.at \in {"query", "store"} THEN j.product ELSE j.key[1]

\* Overlapping requests and crashes leave ratings that are wrong for as long as
\* nothing is saved; the next request on a review that overlaps no other repairs
\* both, the product's and the shop's, whatever happened before.
RatingRepaired ==
    [][\A w \in WebWorkers :
          job[w] # Idle /\ job[w].at # "form" /\ job'[w] = Idle /\ w \notin disturbed'
          => \A cell \in {ProductOf(job[w]), Shop} :
                rated'[cell] = Aggregate(review', cell)]_vars

\* An artisan's reply and a deletion are final: only a request that overlapped
\* another replaces or erases the reply of a review, or brings back a review
\* that was deleted.
NothingUndone ==
    [][\A w \in WebWorkers, k \in Keys :
          LET old == review[k]
              new == review'[k] IN
          (/\ job[w] # job'[w]
           /\ new # NoRow
           /\ \/ old = NoRow /\ job[w].at # "insert"
              \/ old # NoRow /\ new.id = old.id /\ old.reply \notin {NoReply, new.reply})
          => w \in disturbed]_vars

=============================================================================
