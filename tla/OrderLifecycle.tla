--------------------------- MODULE OrderLifecycle ---------------------------
(***************************************************************************)
(* The life of orders under concurrent requests.  Gunicorn workers serve   *)
(* PATCH /orders/<pk>/status/ (autocommit) and POST /orders/<pk>/cancel/   *)
(* (one transaction); Celery workers run auto_complete_delivered_orders.   *)
(* A handler is cut where another process can interleave: at each SQL      *)
(* statement that reads or writes the order, at the broker call and at the *)
(* commit.  Isolation is READ COMMITTED, so a handler works on the copy of *)
(* the row it read first, and order.save() writes every column of it back. *)
(*                                                                         *)
(* Stock is kept here only as the number of times the units of an order    *)
(* were put back; module Inventory has the product rows.                   *)
(***************************************************************************)
EXTENDS OrderStatus, Naturals, FiniteSets

CONSTANTS
    Orders,
    WebWorkers,        \* processes that serve requests
    CeleryWorkers,     \* processes that run the daily sweep
    AutoCompleteDays,  \* settings.ORDER_AUTO_COMPLETE_DAYS
    HasProfile,        \* the orders whose artisan and customer have a profile
    MaxCrashes         \* bound: how often a process is killed, or a call raises

ASSUME LifecycleAssumption ==
    /\ AutoCompleteDays \in Nat \ {0}
    /\ HasProfile \subseteq Orders
    /\ MaxCrashes \in Nat

VARIABLES
    order,     \* the committed order rows
    job,       \* what each process is doing
    returned,  \* per order: how often its stock was put back, committed
    credit,    \* per order and party: how often a profile counted it
    queued,    \* <<o, s>>: a status mail was queued by the request that set s
    seen,      \* history: the statuses each committed row has had
    swept,     \* history: the orders the sweep completed
    raced,     \* history: the orders two processes were about to write at once
    crashes

vars == <<order, job, returned, credit, queued, seen, swept, raced, crashes>>

Workers == WebWorkers \cup CeleryWorkers
Parties == {"artisan", "customer"}

\* age: whole days since delivered_at, not counted beyond AutoCompleteDays.
Row == [status : Status, stamps : SUBSET Stamped, age : 0 .. AutoCompleteDays]

NewRow == [status |-> "pending", stamps |-> {}, age |-> 0]

Idle == [at |-> "idle"]

\* A PATCH holds its copy of the row and the status asked for; a cancel
\* request holds the row it wrote and has not committed.
PatchJob == [at : {"restore", "save", "enqueue"},
             order : Orders, copy : Row, new : Status]
CancelJob == [at : {"cancel", "cancel_mail", "cancel_commit"},
              order : Orders, copy : Row]
\* batch: the orders of the sweep's query still to be completed.
SweepJob == [at : {"sweep"}, batch : SUBSET Orders]
CreditJob == [at : {"artisan", "customer"}, batch : SUBSET Orders, order : Orders]

Job == {Idle} \cup PatchJob \cup CancelJob \cup SweepJob \cup CreditJob

Init ==
    /\ order = [o \in Orders |-> NewRow]
    /\ job = [w \in Workers |-> Idle]
    /\ returned = [o \in Orders |-> 0]
    /\ credit = [o \in Orders |-> [p \in Parties |-> 0]]
    /\ queued = {}
    /\ seen = [o \in Orders |-> {"pending"}]
    /\ swept = {}
    /\ raced = {}
    /\ crashes = 0

-----------------------------------------------------------------------------
(* Helpers                                                                 *)

Bug_OneStamp(row, new) ==
    [status |-> new, stamps |-> {new} \cap Stamped, age |-> row.age]

Bug_StampAll(row, new) ==
    [status |-> new, stamps |-> row.stamps \cup {new},
     age |-> IF new = "delivered" THEN 0 ELSE row.age]

\* OrderStatusUpdateSerializer.update: the new status and its time stamp.
Updated(row, new) ==
    [status |-> new,
     stamps |-> row.stamps \cup ({new} \cap Stamped),
     age    |-> IF new = "delivered" THEN 0 ELSE row.age]

\* The UPDATE of an uncommitted cancel holds the lock of the order row.
RowLocked(o) ==
    \E w \in Workers : job[w].at \in {"cancel_mail", "cancel_commit"} /\ job[w].order = o

\* A process with job j is going to write the row of o.
Writes(j, o) ==
    \/ /\ j.at \in {"restore", "save", "cancel", "cancel_mail", "cancel_commit"}
       /\ j.order = o
    \/ /\ j.at \in {"sweep", "artisan", "customer"}
       /\ o \in j.batch

Writers(o) == {w \in Workers : Writes(job[w], o)}

\* A process has read the rows of S, and goes on with j.
Begin(w, S, j) ==
    /\ job[w] = Idle
    /\ job' = [job EXCEPT ![w] = j]
    /\ raced' = raced \cup {o \in S : Writers(o) # {}}
    /\ UNCHANGED <<order, returned, credit, queued, seen, swept, crashes>>

\* The committed row of o becomes r.
Commit(o, r) ==
    /\ order' = [order EXCEPT ![o] = r]
    /\ seen' = [seen EXCEPT ![o] = @ \cup {r.status}]

Bug_DueAnyStatus(row) ==
    "delivered" \in row.stamps /\ row.age = AutoCompleteDays

Bug_DueAgain(row) ==
    /\ row.status \in {"delivered", "completed"}
    /\ "delivered" \in row.stamps /\ row.age = AutoCompleteDays

\* The filter of the sweep: delivered, and delivered_at <= cutoff_date.
Due(row) ==
    /\ row.status = "delivered"
    /\ "delivered" \in row.stamps
    /\ row.age = AutoCompleteDays

-----------------------------------------------------------------------------
(* PATCH /orders/<pk>/status/: every statement commits by itself           *)

\* The read of the order, the permission checks and validate_status.
PatchRead(w, o, role, new) ==
    /\ MayUpdate(role, order[o].status, new)
    /\ Begin(w, {o}, [at    |-> IF new = "cancelled" THEN "restore" ELSE "save",
                      order |-> o, copy |-> order[o], new |-> new])

\* The loop over order.items that puts the units back.
PatchRestore(w) ==
    /\ job[w].at = "restore"
    /\ returned' = [returned EXCEPT ![job[w].order] = @ + 1]
    /\ job' = [job EXCEPT ![w].at = "save"]
    /\ UNCHANGED <<order, credit, queued, seen, swept, raced, crashes>>

Bug_PatchSave(w) ==
    /\ job[w].at = "save"
    /\ ~RowLocked(job[w].order)
    /\ IF order[job[w].order] = job[w].copy
       THEN Commit(job[w].order, Updated(job[w].copy, job[w].new))
       ELSE UNCHANGED <<order, seen>>
    /\ job' = [job EXCEPT ![w].at = "enqueue"]
    /\ UNCHANGED <<returned, credit, queued, swept, raced, crashes>>

\* order.save(): all columns, from the copy.
PatchSave(w) ==
    /\ job[w].at = "save"
    /\ ~RowLocked(job[w].order)
    /\ Commit(job[w].order, Updated(job[w].copy, job[w].new))
    /\ job' = [job EXCEPT ![w].at = "enqueue"]
    /\ UNCHANGED <<returned, credit, queued, swept, raced, crashes>>

PatchEnqueue(w) ==
    /\ job[w].at = "enqueue"
    /\ queued' = queued \cup {<<job[w].order, job[w].new>>}
    /\ job' = [job EXCEPT ![w] = Idle]
    /\ UNCHANGED <<order, returned, credit, seen, swept, raced, crashes>>

-----------------------------------------------------------------------------
(* POST /orders/<pk>/cancel/: one transaction                              *)

CancelRead(w, o) ==
    /\ order[o].status \in Cancellable
    /\ MayUpdate("customer", order[o].status, "cancelled")
    /\ Begin(w, {o}, [at |-> "cancel", order |-> o, copy |-> order[o]])

\* update(): the stock and the order row are written, and not yet visible.
CancelSave(w) ==
    /\ job[w].at = "cancel"
    /\ ~RowLocked(job[w].order)
    /\ job' = [job EXCEPT ![w].at = "cancel_mail",
                          ![w].copy = Updated(@, "cancelled")]
    /\ UNCHANGED <<order, returned, credit, queued, seen, swept, raced, crashes>>

\* delay() inside the transaction: the broker has the task before the commit.
CancelEnqueue(w) ==
    /\ job[w].at = "cancel_mail"
    /\ queued' = queued \cup {<<job[w].order, "cancelled">>}
    /\ job' = [job EXCEPT ![w].at = "cancel_commit"]
    /\ UNCHANGED <<order, returned, credit, seen, swept, raced, crashes>>

Bug_CancelCommit(w) ==
    /\ job[w].at = "cancel_commit"
    /\ Commit(job[w].order, job[w].copy)
    /\ job' = [job EXCEPT ![w] = Idle]
    /\ UNCHANGED <<returned, credit, queued, swept, raced, crashes>>

CancelCommit(w) ==
    /\ job[w].at = "cancel_commit"
    /\ Commit(job[w].order, job[w].copy)
    /\ returned' = [returned EXCEPT ![job[w].order] = @ + 1]
    /\ job' = [job EXCEPT ![w] = Idle]
    /\ UNCHANGED <<credit, queued, swept, raced, crashes>>

-----------------------------------------------------------------------------
(* auto_complete_delivered_orders                                          *)

\* The query runs once; the loop works on its result.
SweepStart(c) ==
    LET batch == {o \in Orders : Due(order[o])} IN
    Begin(c, batch, IF batch = {} THEN Idle ELSE [at |-> "sweep", batch |-> batch])

Completes(c, o, r) ==
    /\ job[c].at = "sweep"
    /\ o \in job[c].batch
    /\ ~RowLocked(o)
    /\ Commit(o, r)
    /\ swept' = swept \cup {o}
    /\ job' = [job EXCEPT ![c] = [at |-> "artisan", batch |-> job[c].batch \ {o}, order |-> o]]
    /\ UNCHANGED <<returned, credit, queued, raced, crashes>>

Bug_SweepSave(c, o) == Completes(c, o, [order[o] EXCEPT !.status = "completed"])

\* save(update_fields=["status", "completed_at"]), with no look at the row.
SweepSave(c, o) ==
    Completes(c, o, [order[o] EXCEPT !.status = "completed", !.stamps = @ \cup {"completed"}])

\* A profile counts the order; a missing profile raises, and so may the query or
\* the save: the exception is dropped.
Credited(o, party) ==
    \/ /\ credit' = [credit EXCEPT ![o][party] = IF o \in HasProfile THEN @ + 1 ELSE @]
       /\ UNCHANGED crashes
    \/ /\ crashes < MaxCrashes
       /\ crashes' = crashes + 1
       /\ UNCHANGED credit

\* The loop goes on with the next order.
NextOfBatch(c) ==
    job' = [job EXCEPT ![c] = IF job[c].batch = {} THEN Idle
                              ELSE [at |-> "sweep", batch |-> job[c].batch]]

Bug_CreditArtisan(c) ==
    /\ job[c].at = "artisan"
    /\ Credited(job[c].order, "artisan")
    /\ NextOfBatch(c)
    /\ UNCHANGED <<order, returned, queued, seen, swept, raced>>

CreditArtisan(c) ==
    /\ job[c].at = "artisan"
    /\ Credited(job[c].order, "artisan")
    /\ job' = [job EXCEPT ![c].at = "customer"]
    /\ UNCHANGED <<order, returned, queued, seen, swept, raced>>

CreditCustomer(c) ==
    /\ job[c].at = "customer"
    /\ Credited(job[c].order, "customer")
    /\ NextOfBatch(c)
    /\ UNCHANGED <<order, returned, queued, seen, swept, raced>>

-----------------------------------------------------------------------------
(* Time and failures                                                       *)

\* A day passes.  Requests end within gunicorn's 120 s and the sweep runs
\* once a day, so no process is at work from one day to the next.
Tick ==
    /\ \A w \in Workers : job[w] = Idle
    /\ order' = [o \in Orders |->
                    IF "delivered" \in order[o].stamps /\ order[o].age < AutoCompleteDays
                    THEN [order[o] EXCEPT !.age = @ + 1] ELSE order[o]]
    /\ UNCHANGED <<job, returned, credit, queued, seen, swept, raced, crashes>>

\* A process is killed, or a call fails with an exception: what was committed
\* stays, an open transaction is rolled back.
Crash(w) ==
    /\ job[w] # Idle
    /\ crashes < MaxCrashes
    /\ crashes' = crashes + 1
    /\ job' = [job EXCEPT ![w] = Idle]
    /\ UNCHANGED <<order, returned, credit, queued, seen, swept, raced>>

-----------------------------------------------------------------------------
(* Specification                                                           *)

PatchStep(w) == PatchRestore(w) \/ PatchSave(w) \/ PatchEnqueue(w)
CancelStep(w) == CancelSave(w) \/ CancelEnqueue(w) \/ CancelCommit(w)
SweepStep(c) ==
    \/ \E o \in Orders : SweepSave(c, o)
    \/ CreditArtisan(c)
    \/ CreditCustomer(c)

Next ==
    \/ \E w \in WebWorkers, o \in Orders :
          \/ \E role \in Roles, new \in Status : PatchRead(w, o, role, new)
          \/ CancelRead(w, o)
    \/ \E w \in WebWorkers : PatchStep(w) \/ CancelStep(w)
    \/ \E c \in CeleryWorkers : SweepStart(c) \/ SweepStep(c)
    \/ Tick
    \/ \E w \in Workers : Crash(w)

Spec == Init /\ [][Next]_vars

-----------------------------------------------------------------------------
(* Properties                                                              *)

\* Every variable keeps its type.
TypeOK ==
    /\ order \in [Orders -> Row]
    /\ job \in [Workers -> Job]
    /\ returned \in [Orders -> Nat]
    /\ credit \in [Orders -> [Parties -> Nat]]
    /\ queued \subseteq Orders \X Status
    /\ seen \in [Orders -> SUBSET Status]
    /\ swept \subseteq Orders
    /\ raced \subseteq Orders
    /\ crashes \in 0 .. MaxCrashes

\* Whatever handlers overlap, crash or overwrite each other, an order whose
\* status has a time-stamp column has that column filled: full-row writes from
\* stale copies lose stamps, and never the one of the status they write.
StatusStamped ==
    \A o \in Orders : order[o].status \in Stamped => order[o].status \in order[o].stamps

\* Whatever overlaps, an order is only ever given a status that follows one it
\* has had: no order is delivered that was never shipped, or completed or
\* refunded that was never delivered (validate_status and the sweep's filter).
HistoryGrounded ==
    \A o \in Orders :
        /\ order[o].status \in seen[o]
        /\ \A s \in seen[o] \ {"pending"} : \E r \in seen[o] : <<r, s>> \in Transition

\* A status mail is queued only for a status the order was committed with; the
\* exception is a cancellation, which is announced before its commit.
AnnouncedHappened ==
    \A o \in Orders, s \in Status :
        <<o, s>> \in queued => s \in seen[o] \/ s = "cancelled"

\* With one sweep at a time a profile counts an order at most once, and only an
\* order that was completed, whatever requests run beside the sweep and
\* wherever it is killed.
CreditedAtMostOnce ==
    \A o \in Orders, p \in Parties :
        credit[o][p] > 0 => credit[o][p] = 1 /\ "completed" \in seen[o] /\ o \in HasProfile

\* Process w is going to count order o for party p.
WillCredit(w, o, p) ==
    /\ job[w].at \in {"artisan", p}
    /\ job[w].order = o

\* The orders the sweep completed that a profile has not counted and never will.
Forgotten ==
    {o \in swept \cap HasProfile :
        \E p \in Parties : credit[o][p] = 0 /\ \A w \in Workers : ~WillCredit(w, o, p)}

\* The sweep commits "completed" before the profiles count the order, and no
\* later query finds it again: each kill or dropped exception costs the count of
\* one order at most, whatever the rest of its batch is, and nothing else does.
LossesAreFailures ==
    IsFiniteSet(Forgotten) /\ Cardinality(Forgotten) <= crashes

\* An order that no two processes were about to write at once has its units put
\* back once when it is cancelled, by either endpoint, and never otherwise, while
\* no process was killed.
StockReturnedOnce ==
    crashes = 0 =>
        \A o \in Orders \ raced :
            Writers(o) = {} =>
                returned[o] = (IF order[o].status = "cancelled" THEN 1 ELSE 0)

\* Only overlapping writers lose a time stamp that was set.
StampsKept ==
    [][\A o \in Orders \ raced' : order[o].stamps \subseteq order'[o].stamps]_vars

\* Every status change of a committed row is one the table of validate_status
\* allows from the status the row had: the promise of OrderFlow.
Flow == INSTANCE OrderFlow WITH status <- [o \in Orders |-> order[o].status]
FlowSpec == Flow!Spec

\* An order keeps the promise of OrderFlow until two processes are about to
\* write it at once, whatever is killed and whatever overlaps on other orders.
FlowUnlessRaced ==
    [][\A o \in Orders \ raced' :
          order'[o].status # order[o].status =>
              <<order[o].status, order'[o].status>> \in Transition]_vars

=============================================================================
