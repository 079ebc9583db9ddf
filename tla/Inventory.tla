------------------------------ MODULE Inventory ------------------------------
(***************************************************************************)
(* The stock of products under concurrent requests: checkout               *)
(* (OrderCreateView, one transaction with row locks), the two ways to      *)
(* cancel an order (POST .../cancel/, one transaction without row locks on *)
(* read, and PATCH .../status/, autocommit), and the artisan's edits and   *)
(* archiving.  A handler is cut at each SQL statement that reads or writes *)
(* a product, at the broker call and at the commit.  Isolation is READ     *)
(* COMMITTED: a process sees the committed rows and its own writes, and a  *)
(* row an open transaction has locked or written cannot be locked or       *)
(* written by another.                                                     *)
(*                                                                         *)
(* What happens to an order between checkout and cancellation is in        *)
(* OrderLifecycle; here every status but cancelled is "placed".  The write *)
(* of such a status matters all the same: it can come from a copy older    *)
(* than a cancellation, and then the order lives again.                    *)
(***************************************************************************)
EXTENDS Naturals, Sequences, FiniteSets, Functions

CONSTANTS
    Products, Orders, Workers,
    NoWorker,      \* the holder of a row nobody has locked
    Carts,         \* the carts customers submit: sequences of [product, qty]
    InitStock,     \* stock of each product at the start
    EditStock,     \* stock levels an artisan enters
    Endpoints,     \* the requests customers and artisans send
    MaxUpdates,    \* bound: how often a status other than cancelled is sent
    MaxFailures    \* bound: how often a process is killed or a call fails

\* PATCH .../status/ is "patch" with CANCELLED and "update" with any other status.
EndpointNames == {"checkout", "cancel", "patch", "update", "edit", "archive"}

Line == [product : Products, qty : Nat \ {0}]

ASSUME InventoryAssumption ==
    /\ NoWorker \notin Workers
    /\ Carts \subseteq Seq(Line) \ {<<>>}
    /\ InitStock \in [Products -> Nat]
    /\ EditStock \subseteq Nat
    /\ Endpoints \subseteq EndpointNames
    /\ MaxUpdates \in Nat
    /\ MaxFailures \in Nat

VARIABLES
    product,   \* the committed product rows
    latest,    \* the rows as the holder of the lock sees them
    lock,      \* who holds the row lock of a product
    order,     \* the committed order rows
    job,       \* what each process is doing
    mailed,    \* orders whose confirmation mail was queued
    updates,   \* how many statuses other than cancelled were sent
    failures,
    restocked, \* history: products whose stock something other than a sale wrote
    miscounted \* history: products of whose stock more or less was written than
               \* an order took or gave back, and those an order came to hold again

history == <<restocked, miscounted>>
vars == <<product, latest, lock, order, job, mailed, updates, failures, history>>

ProductStatus == {"draft", "active", "sold_out", "archived"}

Row == [stock : Nat, status : ProductStatus, is_active : BOOLEAN, total_sales : Nat]

\* "placed" is every status but cancelled.
OrderRow == [status : {"none", "placed", "cancelled"}, items : Seq(Line)]

NoOrder == [status |-> "none", items |-> <<>>]

Idle == [at |-> "idle"]

CheckoutJob == [at : {"line", "mail", "commit"},
                order : Orders, cart : Seq(Line), todo : Seq(Line)]
\* todo: the items not yet restored; copy: item.product as it was fetched.
CancelJob == [at : {"fetch", "store", "close"}, atomic : BOOLEAN,
              order : Orders, todo : Seq(Line), copy : Row]
\* Someone is going to write another status into an order that had not been cancelled.
UpdateJob == [at : {"update"}, order : Orders]
EditJob == [at : {"edit"}, product : Products, copy : Row]

Job == {Idle} \cup CheckoutJob \cup CancelJob \cup UpdateJob \cup EditJob

Init ==
    /\ product = [p \in Products |->
                    [stock |-> InitStock[p],
                     status |-> IF InitStock[p] = 0 THEN "sold_out" ELSE "active",
                     is_active |-> TRUE, total_sales |-> 0]]
    /\ latest = product
    /\ lock = [p \in Products |-> NoWorker]
    /\ order = [o \in Orders |-> NoOrder]
    /\ job = [w \in Workers |-> Idle]
    /\ mailed = {}
    /\ updates = 0
    /\ failures = 0
    /\ restocked = {}
    /\ miscounted = {}

-----------------------------------------------------------------------------
(* Rows and locks                                                          *)

\* Product.save: an active product without stock becomes sold out.
Normalised(row) ==
    IF row.stock = 0 /\ row.status = "active" THEN [row EXCEPT !.status = "sold_out"] ELSE row

Bug_SoldBelowZero(row, qty) ==
    [row EXCEPT !.stock = @ - qty, !.total_sales = @ + qty,
                !.status = IF qty < row.stock THEN @ ELSE "sold_out"]

Bug_SoldInStock(row, qty) ==
    IF row.stock <= qty
    THEN [row EXCEPT !.stock = 0, !.status = "sold_out", !.total_sales = @ + row.stock]
    ELSE [row EXCEPT !.stock = @ - qty, !.total_sales = @ + qty]

\* One line of OrderCreateSerializer.create: the stock is clamped at zero.
Sold(row, qty) ==
    Normalised(
        [row EXCEPT !.stock = IF qty < @ THEN @ - qty ELSE 0,
                    !.total_sales = @ + qty,
                    !.status = IF qty < row.stock THEN @ ELSE "sold_out"])

Bug_Restored(row, copy, qty) ==
    [row EXCEPT !.stock = copy.stock + qty]

\* save(update_fields=["stock_quantity", "status"]) of a product fetched as copy.
Restored(row, copy, qty) ==
    LET saved == Normalised(
                    [copy EXCEPT !.stock = @ + qty,
                                 !.status = IF @ = "sold_out" THEN "active" ELSE @])
    IN  [row EXCEPT !.stock = saved.stock, !.status = saved.status]

Free(w, p) == lock[p] \in {NoWorker, w}

\* What a query of w returns: its own uncommitted row or the committed one.
Visible(w, p) == IF lock[p] = w THEN latest[p] ELSE product[p]

\* An open transaction of w writes row p and holds its lock to the end.
WriteInTxn(w, p, row) ==
    /\ Free(w, p)
    /\ latest' = [latest EXCEPT ![p] = row]
    /\ lock' = [lock EXCEPT ![p] = w]
    /\ UNCHANGED product

\* A statement that commits by itself waits for the lock and writes row p.
WriteNow(p, row) ==
    /\ lock[p] = NoWorker
    /\ latest' = [latest EXCEPT ![p] = row]
    /\ product' = [product EXCEPT ![p] = row]
    /\ UNCHANGED lock

Unlocked(w) == [p \in Products |-> IF lock[p] = w THEN NoWorker ELSE lock[p]]

Bug_CommitTxn(w) ==
    /\ product' = [p \in Products |-> Visible(w, p)]
    /\ UNCHANGED <<lock, latest>>

CommitTxn(w) ==
    /\ product' = [p \in Products |-> Visible(w, p)]
    /\ lock' = Unlocked(w)
    /\ UNCHANGED latest

RollbackTxn(w) ==
    /\ latest' = [p \in Products |-> IF lock[p] = w THEN product[p] ELSE latest[p]]
    /\ lock' = Unlocked(w)
    /\ job' = [job EXCEPT ![w] = Idle]
    /\ UNCHANGED <<product, order, mailed, updates, history>>

-----------------------------------------------------------------------------
(* POST /orders/create/                                                    *)

\* validate_items, for one line: one query, no lock.
Purchasable(line) ==
    /\ product[line.product].is_active
    /\ product[line.product].status = "active"
    /\ product[line.product].stock >= line.qty

\* Order.objects.create gives the order an id nobody else uses.
FreshOrder(o) ==
    /\ order[o] = NoOrder
    /\ o \notin mailed
    /\ \A v \in Workers : job[v].at \in {"line", "mail", "commit"} => job[v].order # o

CheckoutStart(w, o, cart) ==
    /\ "checkout" \in Endpoints
    /\ job[w] = Idle
    /\ FreshOrder(o)
    /\ \A line \in Range(cart) : Purchasable(line)
    /\ job' = [job EXCEPT ![w] = [at |-> "line", order |-> o, cart |-> cart, todo |-> cart]]
    /\ UNCHANGED <<product, latest, lock, order, mailed, updates, failures, history>>

\* select_for_update, the order item, and the write of the product.
CheckoutLine(w) ==
    /\ job[w].at = "line"
    /\ LET line == Head(job[w].todo) IN
          /\ WriteInTxn(w, line.product, Sold(latest[line.product], line.qty))
          /\ miscounted' = IF line.qty > latest[line.product].stock
                           THEN miscounted \cup {line.product} ELSE miscounted
    /\ job' = [job EXCEPT ![w].todo = Tail(@),
                          ![w].at = IF Len(job[w].todo) = 1 THEN "mail" ELSE "line"]
    /\ UNCHANGED <<order, mailed, updates, failures, restocked>>

\* delay() of the confirmation mail, inside the transaction.
CheckoutMail(w) ==
    /\ job[w].at = "mail"
    /\ mailed' = mailed \cup {job[w].order}
    /\ job' = [job EXCEPT ![w].at = "commit"]
    /\ UNCHANGED <<product, latest, lock, order, updates, failures, history>>

Bug_CheckoutCommit(w) ==
    /\ job[w].at \in {"mail", "commit"}
    /\ CommitTxn(w)
    /\ order' = [order EXCEPT ![job[w].order] = [status |-> "placed", items |-> job[w].cart]]
    /\ job' = [job EXCEPT ![w] = Idle]
    /\ UNCHANGED <<mailed, updates, failures, history>>

CheckoutCommit(w) ==
    /\ job[w].at = "commit"
    /\ CommitTxn(w)
    /\ order' = [order EXCEPT ![job[w].order] = [status |-> "placed", items |-> job[w].cart]]
    /\ job' = [job EXCEPT ![w] = Idle]
    /\ UNCHANGED <<mailed, updates, failures, history>>

-----------------------------------------------------------------------------
(* Cancellation: OrderStatusUpdateSerializer.update with CANCELLED         *)

\* The read of the order and its checks; endpoint is "cancel" or "patch".
CancelStart(w, o, endpoint) ==
    /\ endpoint \in Endpoints \cap {"cancel", "patch"}
    /\ job[w] = Idle
    /\ order[o].status = "placed"
    /\ job' = [job EXCEPT ![w] =
                  [at |-> "fetch", atomic |-> endpoint = "cancel", order |-> o,
                   todo |-> order[o].items,
                   copy |-> product[Head(order[o].items).product]]]
    /\ UNCHANGED <<product, latest, lock, order, mailed, updates, failures, history>>

\* item.product: the row is read without a lock.
RestoreFetch(w) ==
    /\ job[w].at = "fetch"
    /\ job' = [job EXCEPT ![w].at = "store",
                          ![w].copy = Visible(w, Head(job[w].todo).product)]
    /\ UNCHANGED <<product, latest, lock, order, mailed, updates, failures, history>>

\* Who restores the units of an order that is cancelled already, a product that
\* changed since its fetch, or a product before the order is cancelled with it.
Miscounts(j) ==
    \/ order[j.order].status # "placed"
    \/ j.copy.stock # latest[Head(j.todo).product].stock
    \/ ~j.atomic

Bug_RestoreStore(w) ==
    /\ job[w].at = "store"
    /\ LET line == Head(job[w].todo)
           row  == Restored(latest[line.product], job[w].copy, line.qty)
       IN  /\ WriteNow(line.product, row)
           /\ restocked' = restocked \cup {line.product}
           /\ miscounted' = IF Miscounts(job[w]) THEN miscounted \cup {line.product} ELSE miscounted
    /\ job' = [job EXCEPT ![w].todo = Tail(@),
                          ![w].at = IF Len(job[w].todo) = 1 THEN "close" ELSE "fetch"]
    /\ UNCHANGED <<order, mailed, updates, failures>>

\* The write of the fetched copy.
RestoreStore(w) ==
    /\ job[w].at = "store"
    /\ LET line == Head(job[w].todo)
           row  == Restored(latest[line.product], job[w].copy, line.qty)
       IN  /\ IF job[w].atomic THEN WriteInTxn(w, line.product, row)
                               ELSE WriteNow(line.product, row)
           /\ restocked' = restocked \cup {line.product}
           /\ miscounted' = IF Miscounts(job[w]) THEN miscounted \cup {line.product} ELSE miscounted
    /\ job' = [job EXCEPT ![w].todo = Tail(@),
                          ![w].at = IF Len(job[w].todo) = 1 THEN "close" ELSE "fetch"]
    /\ UNCHANGED <<order, mailed, updates, failures>>

\* order.save(), and for the cancel endpoint the commit of everything.
CancelClose(w) ==
    /\ job[w].at = "close"
    /\ CommitTxn(w)
    /\ order' = [order EXCEPT ![job[w].order].status = "cancelled"]
    /\ job' = [job EXCEPT ![w] = Idle]
    /\ UNCHANGED <<mailed, updates, failures, history>>

-----------------------------------------------------------------------------
(* Every other status of an order                                          *)

\* The read and the checks of a PATCH to another status, or the query of the
\* sweep: the order is not cancelled.
UpdateStart(w, o) ==
    /\ "update" \in Endpoints
    /\ job[w] = Idle
    /\ order[o].status = "placed"
    /\ updates < MaxUpdates
    /\ updates' = updates + 1
    /\ job' = [job EXCEPT ![w] = [at |-> "update", order |-> o]]
    /\ UNCHANGED <<product, latest, lock, order, mailed, failures, history>>

ProductsOf(items) == {line.product : line \in Range(items)}

\* order.save(), from the copy: an order cancelled in the meantime is placed
\* again, and its units stay in stock.
UpdateSave(w) ==
    /\ job[w].at = "update"
    /\ LET o == job[w].order IN
          /\ order' = [order EXCEPT ![o].status = "placed"]
          /\ miscounted' = IF order[o].status = "cancelled"
                           THEN miscounted \cup ProductsOf(order[o].items) ELSE miscounted
    /\ job' = [job EXCEPT ![w] = Idle]
    /\ UNCHANGED <<product, latest, lock, mailed, updates, failures, restocked>>

-----------------------------------------------------------------------------
(* PUT/PATCH and DELETE on /products/<slug>/                               *)

\* The form changes stock, status, both or (a new title, say) neither.
EditStart(w, p, stock, status) ==
    /\ "edit" \in Endpoints
    /\ job[w] = Idle
    /\ job' = [job EXCEPT ![w] =
                  [at |-> "edit", product |-> p,
                   copy |-> [product[p] EXCEPT !.stock = stock, !.status = status]]]
    /\ UNCHANGED <<product, latest, lock, order, mailed, updates, failures, history>>

Bug_EditSave(w) ==
    /\ job[w].at = "edit"
    /\ WriteNow(job[w].product, job[w].copy)
    /\ restocked' = restocked \cup {job[w].product}
    /\ miscounted' = miscounted \cup {job[w].product}
    /\ job' = [job EXCEPT ![w] = Idle]
    /\ UNCHANGED <<order, mailed, updates, failures>>

\* instance.save(): all columns, from the copy.
EditSave(w) ==
    /\ job[w].at = "edit"
    /\ WriteNow(job[w].product, Normalised(job[w].copy))
    /\ restocked' = restocked \cup {job[w].product}
    /\ miscounted' = miscounted \cup {job[w].product}
    /\ job' = [job EXCEPT ![w] = Idle]
    /\ UNCHANGED <<order, mailed, updates, failures>>

\* perform_destroy: save(update_fields=["status", "is_active"]).
Archive(p) ==
    /\ "archive" \in Endpoints
    /\ WriteNow(p, [latest[p] EXCEPT !.status = "archived", !.is_active = FALSE])
    /\ UNCHANGED <<order, job, mailed, updates, failures, history>>

-----------------------------------------------------------------------------
(* Failures                                                                *)

\* A process is killed or a call raises: the open transaction, if there is
\* one, is rolled back; what PATCH has committed stays.
Fail(w) ==
    /\ job[w] # Idle
    /\ failures < MaxFailures
    /\ failures' = failures + 1
    /\ RollbackTxn(w)

\* The row a transaction must lock next; PATCH and edits hold nothing.
Wants(w, p) ==
    /\ job[w].at \in {"line", "store"}
    /\ p = Head(job[w].todo).product

WaitsFor(v, w) == v # w /\ \E p \in Products : Wants(v, p) /\ lock[p] = w

\* PostgreSQL aborts a transaction that is on a cycle of waiting transactions.
DeadlockVictim(w) ==
    /\ \E cycle \in SUBSET Workers :
          /\ w \in cycle
          /\ \A v \in cycle : \E u \in cycle : WaitsFor(v, u)
          /\ \A v \in cycle : \E u \in cycle : WaitsFor(u, v)
    /\ RollbackTxn(w)
    /\ UNCHANGED failures

-----------------------------------------------------------------------------
(* Specification                                                           *)

Step(w) ==
    \/ CheckoutLine(w) \/ CheckoutMail(w) \/ CheckoutCommit(w)
    \/ RestoreFetch(w) \/ RestoreStore(w) \/ CancelClose(w)
    \/ UpdateSave(w) \/ EditSave(w)

Start(w) ==
    \/ \E o \in Orders, cart \in Carts : CheckoutStart(w, o, cart)
    \/ \E o \in Orders, endpoint \in EndpointNames : CancelStart(w, o, endpoint)
    \/ \E o \in Orders : UpdateStart(w, o)
    \/ \E p \in Products, status \in ProductStatus :
          \E stock \in EditStock \cup {product[p].stock} : EditStart(w, p, stock, status)

Next ==
    \/ \E w \in Workers : Start(w) \/ Step(w) \/ DeadlockVictim(w) \/ Fail(w)
    \/ \E p \in Products : Archive(p)

Spec == Init /\ [][Next]_vars

\* A started request goes on.  A process waiting for a row lock gets it: the
\* lock queue of PostgreSQL is first come, first served, and deadlocks are
\* detected.
FairSpec ==
    /\ Spec
    /\ \A w \in Workers : SF_vars(Step(w)) /\ WF_vars(DeadlockVictim(w))

-----------------------------------------------------------------------------
(* Properties                                                              *)

\* Every variable keeps its type.
TypeOK ==
    /\ product \in [Products -> Row]
    /\ latest \in [Products -> Row]
    /\ lock \in [Products -> Workers \cup {NoWorker}]
    /\ order \in [Orders -> OrderRow]
    /\ job \in [Workers -> Job]
    /\ mailed \subseteq Orders
    /\ updates \in 0 .. MaxUpdates
    /\ failures \in 0 .. MaxFailures
    /\ restocked \subseteq Products
    /\ miscounted \subseteq Products

\* A product on sale is in stock, whatever checkouts, cancellations, edits from
\* stale forms and failures overlap (the clamp in create, the SOLD_OUT rule of
\* Product.save, and stock_quantity and status always written together).
ActiveInStock ==
    \A p \in Products : product[p].status = "active" => product[p].stock > 0

\* As long as artisans do not edit products, a sold-out product has no stock:
\* no cancelled unit is stuck in a product customers cannot buy.
SoldOutIsEmpty ==
    \A p \in Products : product[p].status = "sold_out" => product[p].stock = 0

\* The units of p in a list of order items: unit n of line i.
Units(items, p) ==
    UNION {{i} \X (1 .. items[i].qty) : i \in {k \in DOMAIN items : items[k].product = p}}

\* The units of p in all orders with one of the given statuses, and their number.
UnitsOf(p, statuses) ==
    UNION {{o} \X Units(order[o].items, p) : o \in {x \in Orders : order[x].status \in statuses}}

Ordered(p, statuses) == Cardinality(UnitsOf(p, statuses))

\* total_sales counts exactly the units of the orders that were committed,
\* however checkouts and cancellations overlap: select_for_update makes the
\* read-modify-write of create safe (artisan edits are excluded).
SalesExact ==
    \A p \in Products : product[p].total_sales = Ordered(p, {"placed", "cancelled"})

\* As long as only sales write the stock of a product, the stock left is what
\* the sales leave of the initial stock, or nothing: no concurrent decrement is
\* lost, oversales and rolled back checkouts included.
CheckoutLedger ==
    \A p \in Products \ restocked :
        product[p].stock = IF product[p].total_sales < InitStock[p]
                           THEN InitStock[p] - product[p].total_sales ELSE 0

\* Stock and units of orders not cancelled add up to the initial stock, with
\* failures and deadlocks at any point, unless an oversale was clamped, a
\* cancellation wrote a stale copy, repeated another one or came by PATCH (which
\* a failure can cut in half), a status written from an older copy undid a
\* cancellation that had given the units back, or an artisan edited the product.
StockConserved ==
    \A p \in Products \ miscounted :
        product[p].stock + Ordered(p, {"placed"}) = InitStock[p]

\* No order is committed whose confirmation mail was not queued, wherever the
\* request fails: delay() comes before the commit.
PlacedIsConfirmed ==
    \A o \in Orders : order[o].status # "none" => o \in mailed

\* The orders that hold units of a product never hold more than there were: a
\* checkout that commits has reserved its stock (README.md:355).
ReservedWithinStock ==
    \A p \in Products : Ordered(p, {"placed"}) <= InitStock[p]

\* Every request ends: row locks are always released and deadlocks resolved.
RequestsEnd == \A w \in Workers : job[w] # Idle ~> job[w] = Idle

=============================================================================
