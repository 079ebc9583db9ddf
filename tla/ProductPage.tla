---------------------------- MODULE ProductPage ----------------------------
(***************************************************************************)
(* What the requests about one product keep beside the product itself: a   *)
(* customer's favorites (the product in the wishlist, its shop among the   *)
(* followed shops), the images with the one that is primary, and the count *)
(* of views.  Each is written after a query that locks nothing, and no     *)
(* request runs in a transaction.                                          *)
(***************************************************************************)
EXTENDS Naturals, FiniteSets

CONSTANTS
    Favorites,    \* what the customer can save: the product, the shop
    RowIds,       \* primary keys of the rows of the wishlist and of followed shops
    ImageIds,     \* primary keys of images
    WebWorkers,
    MaxImages,    \* 10
    MaxViews,     \* bound: views that are counted
    NoRow

ASSUME PageAssumption ==
    /\ IsFiniteSet(WebWorkers) /\ WebWorkers # {}
    /\ IsFiniteSet(ImageIds)
    /\ NoRow \notin RowIds
    /\ MaxImages \in Nat \ {0}
    /\ MaxViews \in Nat
    /\ Favorites \cap {"primary", "views", "none"} = {}

VARIABLES
    saved,       \* the committed row of each favorite, or NoRow
    images,      \* the committed images: "none", "plain" or "primary"
    view_count,
    job,         \* what each process is doing
    answer,      \* history: whether the last answer about a favorite was "added"
    views,       \* history: the views that were counted
    overlapped,  \* history: open requests that worked on the same thing as another
    doubtful     \* history: things an overlapped request wrote last (or, views, ever)

vars == <<saved, images, view_count, job, answer, views, overlapped, doubtful>>

Things == Favorites \cup {"primary", "views"}

Idle == [at |-> "idle"]
SaveJob == [at : {"insert", "again", "add", "delete"}, on : Favorites, id : RowIds]
ImageJob == [at : {"demote", "image"}, on : {"primary", "none"}, id : ImageIds]
ViewJob == [at : {"view", "edit"}, on : {"views"}, count : Nat]
Job == {Idle} \cup SaveJob \cup ImageJob \cup ViewJob

Init ==
    /\ saved = [x \in Favorites |-> NoRow]
    /\ images = [i \in ImageIds |-> "none"]
    /\ view_count = 0
    /\ job = [w \in WebWorkers |-> Idle]
    /\ answer = [x \in Favorites |-> FALSE]
    /\ views = 0
    /\ overlapped = {}
    /\ doubtful = {}

On(v, thing) == job[v] # Idle /\ job[v].on = thing

Begin(w, j) ==
    LET rivals == {v \in WebWorkers : j.on \in Things /\ On(v, j.on)} IN
    /\ job[w] = Idle
    /\ job' = [job EXCEPT ![w] = j]
    /\ overlapped' = IF rivals = {} THEN overlapped \ {w} ELSE overlapped \cup rivals \cup {w}
    /\ UNCHANGED <<saved, images, view_count, answer, views, doubtful>>

\* The last step of a request, and the only one that writes (an UPDATE that
\* takes the primary mark from other images excepted).
End(w) == job' = [job EXCEPT ![w] = Idle] /\ UNCHANGED overlapped

Doubt(w, thing) == doubtful' = IF w \in overlapped THEN doubtful \cup {thing} ELSE doubtful \ {thing}

\* The statement raises: the request ends and has written nothing.
Raise(w) == End(w) /\ UNCHANGED <<saved, answer, doubtful>>

-----------------------------------------------------------------------------
(* Wishlist and followed shops                                             *)

FreshId(i) ==
    /\ \A x \in Favorites : saved[x] # i
    /\ \A v \in WebWorkers : job[v].at \in {"insert", "again", "add", "delete"} => job[v].id # i

\* get_or_create looks for the row.
Toggle(w, x, i) ==
    IF saved[x] = NoRow
    THEN FreshId(i) /\ Begin(w, [at |-> "insert", on |-> x, id |-> i])
    ELSE i = saved[x] /\ Begin(w, [at |-> "delete", on |-> x, id |-> i])

\* validate_product, validate_artisan: not a favorite yet.
Add(w, x, i) ==
    /\ saved[x] = NoRow
    /\ FreshId(i)
    /\ Begin(w, [at |-> "add", on |-> x, id |-> i])

\* get_object of the destroy view.
Remove(w, x) ==
    /\ saved[x] # NoRow
    /\ Begin(w, [at |-> "delete", on |-> x, id |-> saved[x]])

Answered(w, x, added) ==
    /\ answer' = [answer EXCEPT ![x] = added]
    /\ Doubt(w, x)
    /\ End(w)

\* unique_together: the INSERT raises when the row is there.  get_or_create then
\* looks once more, the add view gives up.
InsertRow(w) ==
    /\ job[w].at \in {"insert", "add"}
    /\ LET j == job[w] IN
       \/ /\ saved[j.on] = NoRow
          /\ saved' = [saved EXCEPT ![j.on] = j.id]
          /\ Answered(w, j.on, TRUE)
       \/ /\ saved[j.on] # NoRow /\ j.at = "add"
          /\ Raise(w)
       \/ /\ saved[j.on] # NoRow /\ j.at = "insert"
          /\ job' = [job EXCEPT ![w].at = "again"]
          /\ UNCHANGED <<saved, answer, overlapped, doubtful>>
    /\ UNCHANGED <<images, view_count, views>>

\* The row of the other request is got (and deleted next), or it is gone again.
GetAgain(w) ==
    /\ job[w].at = "again"
    /\ LET j == job[w] IN
       \/ /\ saved[j.on] # NoRow
          /\ job' = [job EXCEPT ![w].at = "delete", ![w].id = saved[j.on]]
          /\ UNCHANGED <<saved, answer, overlapped, doubtful>>
       \/ /\ saved[j.on] = NoRow
          /\ Raise(w)
    /\ UNCHANGED <<images, view_count, views>>

Bug_DeleteRow(w) ==
    /\ job[w].at = "delete"
    /\ LET j == job[w] IN Answered(w, j.on, FALSE)
    /\ UNCHANGED <<saved, images, view_count, views>>

\* DELETE by primary key: no error when the row is gone.
DeleteRow(w) ==
    /\ job[w].at = "delete"
    /\ LET j == job[w] IN
       /\ saved' = IF saved[j.on] = j.id THEN [saved EXCEPT ![j.on] = NoRow] ELSE saved
       /\ Answered(w, j.on, FALSE)
    /\ UNCHANGED <<images, view_count, views>>

-----------------------------------------------------------------------------
(* Images                                                                  *)

Stored == {i \in ImageIds : images[i] # "none"}
Primary == {i \in ImageIds : images[i] = "primary"}

FreshImage(i) ==
    /\ images[i] = "none"
    /\ \A v \in WebWorkers : job[v].at \in {"demote", "image"} => job[v].id # i

Bug_Upload(w, i, primary) ==
    /\ Cardinality(Stored) <= MaxImages
    /\ FreshImage(i)
    /\ Begin(w, IF primary THEN [at |-> "demote", on |-> "primary", id |-> i]
                           ELSE [at |-> "image", on |-> "none", id |-> i])

\* The serializer's validation: at most ten images.
Upload(w, i, primary) ==
    /\ Cardinality(Stored) < MaxImages
    /\ FreshImage(i)
    /\ Begin(w, IF primary THEN [at |-> "demote", on |-> "primary", id |-> i]
                           ELSE [at |-> "image", on |-> "none", id |-> i])

Bug_Demote(w) ==
    /\ job[w].at = "demote"
    /\ job' = [job EXCEPT ![w].at = "image"]
    /\ UNCHANGED <<saved, images, view_count, answer, views, overlapped, doubtful>>

\* ProductImage.save of a primary image: one UPDATE of the others.
Demote(w) ==
    /\ job[w].at = "demote"
    /\ images' = [i \in ImageIds |-> IF images[i] = "primary" THEN "plain" ELSE images[i]]
    /\ job' = [job EXCEPT ![w].at = "image"]
    /\ UNCHANGED <<saved, view_count, answer, views, overlapped, doubtful>>

InsertImage(w) ==
    /\ job[w].at = "image"
    /\ LET j == job[w] IN
       \/ /\ j.on = "primary"
          /\ images' = [images EXCEPT ![j.id] = "primary"]
          /\ Doubt(w, "primary")
       \/ /\ j.on = "none"
          /\ images' = [images EXCEPT ![j.id] = "plain"]
          /\ UNCHANGED doubtful
    /\ End(w)
    /\ UNCHANGED <<saved, view_count, answer, views>>

DeleteImage(i) ==
    /\ images[i] # "none"
    /\ images' = [images EXCEPT ![i] = "none"]
    /\ UNCHANGED <<saved, view_count, job, answer, views, overlapped, doubtful>>

-----------------------------------------------------------------------------
(* Views                                                                   *)

\* The product is shown, or loaded for its edit form.
LoadProduct(w, at) == Begin(w, [at |-> at, on |-> "views", count |-> view_count])

StoreCount(w, count) ==
    /\ view_count' = count
    /\ doubtful' = IF w \in overlapped THEN doubtful \cup {"views"} ELSE doubtful
    /\ End(w)
    /\ UNCHANGED <<saved, images, answer>>

Bug_CountView(w) ==
    /\ job[w].at = "view"
    /\ views < MaxViews
    /\ StoreCount(w, view_count + job[w].count + 1)
    /\ views' = views + 1

\* UPDATE of view_count to the count that was loaded, plus one.
CountView(w) ==
    /\ job[w].at = "view"
    /\ views < MaxViews
    /\ StoreCount(w, job[w].count + 1)
    /\ views' = views + 1

\* The edit form of the product saves every column.
SaveForm(w) ==
    /\ job[w].at = "edit"
    /\ StoreCount(w, job[w].count)
    /\ UNCHANGED views

\* A process is killed between two queries.
Crash(w) ==
    /\ job[w] # Idle
    /\ End(w)
    /\ UNCHANGED <<saved, images, view_count, answer, views, doubtful>>

-----------------------------------------------------------------------------
(* Specification                                                           *)

Start(w) ==
    \/ \E x \in Favorites :
          \/ Remove(w, x)
          \/ \E i \in RowIds : Toggle(w, x, i) \/ Add(w, x, i)
    \/ \E i \in ImageIds, primary \in BOOLEAN : Upload(w, i, primary)
    \/ \E at \in {"view", "edit"} : LoadProduct(w, at)

Continue(w) ==
    \/ InsertRow(w) \/ GetAgain(w) \/ DeleteRow(w)
    \/ Demote(w) \/ InsertImage(w)
    \/ CountView(w) \/ SaveForm(w)

Next ==
    \/ \E w \in WebWorkers : Start(w) \/ Continue(w) \/ Crash(w)
    \/ \E i \in ImageIds : DeleteImage(i)

Spec == Init /\ [][Next]_vars

-----------------------------------------------------------------------------
(* Properties                                                              *)

\* Every variable keeps its type.
TypeOK ==
    /\ saved \in [Favorites -> RowIds \cup {NoRow}]
    /\ images \in [ImageIds -> {"none", "plain", "primary"}]
    /\ view_count \in Nat
    /\ job \in [WebWorkers -> Job]
    /\ answer \in [Favorites -> BOOLEAN]
    /\ views \in 0 .. MaxViews
    /\ overlapped \subseteq WebWorkers
    /\ doubtful \subseteq Things

\* A favorite is what the last answer said, "added" or "removed".  Overlapping
\* requests (a double click) can answer otherwise, and the next request that
\* overlaps no other puts it right.
AnswerStands ==
    \A x \in Favorites \ doubtful : saved[x] # NoRow <=> answer[x]

\* A product has at most one primary image, unless uploads of two primary images
\* overlapped; the next that overlaps no other takes the mark from them all.
OnePrimary ==
    "primary" \notin doubtful => \A i, k \in Primary : i = k

\* The limit of ten images is checked before the upload: the requests that can be
\* open at once can exceed it, by one less than there are processes.
ImagesBounded ==
    Cardinality(Stored) <= MaxImages + Cardinality(WebWorkers) - 1

\* The count of views loses views when requests overlap and never invents one; it
\* is exact if no two requests had the product loaded at once.
ViewsCounted ==
    /\ view_count <= views
    /\ "views" \notin doubtful => view_count = views

=============================================================================
