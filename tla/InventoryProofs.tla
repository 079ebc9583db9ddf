--------------------------- MODULE InventoryProofs ---------------------------
(***************************************************************************)
(* What is proved of Inventory for every set of products, orders,          *)
(* processes and carts.                                                    *)
(***************************************************************************)
EXTENDS Inventory, SequenceTheorems, FiniteSetTheorems, TLAPS

\* What is still to be locked or put back is there: Head(todo) is a line.  A
\* process writes a status into an order that exists.
TodoLeft ==
    /\ \A w \in Workers : job[w].at \in {"line", "fetch", "store"} => job[w].todo # <<>>
    /\ \A w \in Workers : job[w].at \in {"line", "mail", "commit"} => job[w].cart # <<>>
    /\ \A o \in Orders : order[o].status # "none" => order[o].items # <<>>
    /\ \A w \in Workers : job[w].at \in {"fetch", "store", "close", "update"} =>
          order[job[w].order].status # "none"

TypeInv == TypeOK /\ TodoLeft

LEMMA LineSeq ==
    ASSUME NEW s \in Seq(Line), s # <<>>
    PROVE  /\ Head(s) \in Line
           /\ Tail(s) \in Seq(Line)
           /\ Len(s) # 1 => Tail(s) # <<>>
<1>1. /\ Head(s) \in Line
      /\ Tail(s) \in Seq(Line)
      /\ Len(Tail(s)) = Len(s) - 1
  BY HeadTailProperties
<1>2. Len(s) \in Nat \ {0} /\ Len(<<>>) = 0
  BY EmptySeq
<1> QED BY <1>1, <1>2

\* Saving a product gives a product row, and one on sale has stock.
LEMMA Saving ==
    ASSUME NEW row \in Row
    PROVE  /\ Normalised(row) \in Row
           /\ Normalised(row).stock = row.stock
           /\ Normalised(row).total_sales = row.total_sales
           /\ Normalised(row).status = "active" => row.stock > 0
           /\ row.status # "active" => Normalised(row).status = row.status
           /\ row.stock > 0 => Normalised(row).status = row.status
BY DEF Normalised, Row, ProductStatus

LEMMA Selling ==
    ASSUME NEW row \in Row, NEW qty \in Nat \ {0}
    PROVE  /\ Sold(row, qty) \in Row
           /\ Sold(row, qty).stock = (IF qty < row.stock THEN row.stock - qty ELSE 0)
           /\ Sold(row, qty).total_sales = row.total_sales + qty
           /\ Sold(row, qty).status = "active" => Sold(row, qty).stock > 0
           /\ Sold(row, qty).status = "sold_out" =>
                 row.status = "sold_out" \/ Sold(row, qty).stock = 0
<1> DEFINE r == [row EXCEPT !.stock = IF qty < @ THEN @ - qty ELSE 0,
                            !.total_sales = @ + qty,
                            !.status = IF qty < row.stock THEN @ ELSE "sold_out"]
<1>1. /\ r.stock = (IF qty < row.stock THEN row.stock - qty ELSE 0)
      /\ r.total_sales = row.total_sales + qty
      /\ r.status = IF qty < row.stock THEN row.status ELSE "sold_out"
  BY DEF Row
<1>2. r.stock \in Nat /\ r.total_sales \in Nat /\ r.status \in ProductStatus
  BY <1>1 DEF Row, ProductStatus
<1>3. r \in Row
  BY <1>2 DEF Row
<1>4. Sold(row, qty) = Normalised(r)
  BY DEF Sold
<1> HIDE DEF r
<1>5. r.stock > 0 \/ r.status # "active"
  BY <1>1 DEF Row, ProductStatus
<1>6. Normalised(r).status = r.status
  BY <1>3, <1>5, Saving
<1> QED BY <1>1, <1>2, <1>3, <1>4, <1>5, <1>6, Saving DEF Row

LEMMA Restoring ==
    ASSUME NEW row \in Row, NEW copy \in Row, NEW qty \in Nat \ {0}
    PROVE  /\ Restored(row, copy, qty) \in Row
           /\ Restored(row, copy, qty).stock = copy.stock + qty
           /\ Restored(row, copy, qty).stock > 0
           /\ Restored(row, copy, qty).status # "sold_out"
           /\ Restored(row, copy, qty).total_sales = row.total_sales
<1> DEFINE r == [copy EXCEPT !.stock = @ + qty,
                             !.status = IF @ = "sold_out" THEN "active" ELSE @]
<1>1. /\ r.stock = copy.stock + qty
      /\ r.status = IF copy.status = "sold_out" THEN "active" ELSE copy.status
  BY DEF Row
<1>2. r.stock \in Nat /\ r.stock > 0 /\ r.status \in ProductStatus /\ r.status # "sold_out"
  BY <1>1 DEF Row, ProductStatus
<1>3. r \in Row
  BY <1>2 DEF Row
<1>4. Restored(row, copy, qty) =
        [row EXCEPT !.stock = Normalised(r).stock, !.status = Normalised(r).status]
  BY DEF Restored
<1> HIDE DEF r
<1>5. Normalised(r).stock = r.stock /\ Normalised(r).status = r.status
  BY <1>2, <1>3, Saving
<1> QED BY <1>1, <1>2, <1>4, <1>5 DEF Row

-----------------------------------------------------------------------------

\* The label of a process tells which record it holds.
LEMMA JobKinds ==
    ASSUME TypeOK, NEW w \in Workers
    PROVE  /\ job[w].at \in {"line", "mail", "commit"} => job[w] \in CheckoutJob
           /\ job[w].at \in {"fetch", "store", "close"} => job[w] \in CancelJob
           /\ job[w].at = "update" => job[w] \in UpdateJob
           /\ job[w].at = "edit" => job[w] \in EditJob
BY DEF TypeOK, Job, Idle, CheckoutJob, CancelJob, UpdateJob, EditJob

LEMMA InitTypeInv == Init => TypeInv
<1> SUFFICES ASSUME Init PROVE TypeInv
  OBVIOUS
<1>1. product \in [Products -> Row]
  BY InventoryAssumption DEF Init, Row, ProductStatus
<1>2. NoOrder \in OrderRow /\ NoOrder.status = "none"
  BY EmptySeq DEF NoOrder, OrderRow
<1> QED BY <1>1, <1>2, InventoryAssumption DEF Init, TypeInv, TypeOK, TodoLeft, Job, Idle

\* The statements that write product rows write product rows.
LEMMA WriteTypes ==
    ASSUME TypeOK, NEW w \in Workers, NEW p \in Products, NEW row \in Row,
           WriteInTxn(w, p, row) \/ WriteNow(p, row)
    PROVE  /\ product' \in [Products -> Row]
           /\ latest' \in [Products -> Row]
           /\ lock' \in [Products -> Workers \cup {NoWorker}]
BY DEF TypeOK, WriteInTxn, WriteNow

LEMMA CommitTypes ==
    ASSUME TypeOK, NEW w \in Workers, CommitTxn(w)
    PROVE  /\ product' \in [Products -> Row]
           /\ latest' \in [Products -> Row]
           /\ lock' \in [Products -> Workers \cup {NoWorker}]
BY DEF TypeOK, CommitTxn, Unlocked, Visible

LEMMA RollbackTypeInv ==
    ASSUME TypeInv, NEW w \in Workers, RollbackTxn(w), failures' \in 0 .. MaxFailures
    PROVE  TypeInv'
<1>1. /\ product' \in [Products -> Row]
      /\ latest' \in [Products -> Row]
      /\ lock' \in [Products -> Workers \cup {NoWorker}]
  BY DEF TypeInv, TypeOK, RollbackTxn, Unlocked
<1>2. job' = [job EXCEPT ![w] = Idle] /\ UNCHANGED <<order, mailed, updates, history>>
  BY DEF RollbackTxn
<1>3. job' \in [Workers -> Job]
  BY <1>2 DEF TypeInv, TypeOK, Job
<1>4. TodoLeft'
  BY <1>2 DEF TypeInv, TypeOK, TodoLeft, Idle
<1> QED BY <1>1, <1>2, <1>3, <1>4 DEF TypeInv, TypeOK, history

\* A process that takes up or goes on with a job keeps the types, when the rest
\* of the state does.
LEMMA JobTypeInv ==
    ASSUME TypeInv, NEW w \in Workers, NEW j \in Job,
           job' = [job EXCEPT ![w] = j],
           j.at \in {"line", "fetch", "store"} => j.todo # <<>>,
           j.at \in {"line", "mail", "commit"} => j.cart # <<>>,
           j.at \in {"fetch", "store", "close", "update"} => order'[j.order].status # "none",
           \A o \in Orders : order[o].status # "none" => order'[o].status # "none"
    PROVE  /\ job' \in [Workers -> Job]
           /\ \A v \in Workers : job'[v].at \in {"line", "fetch", "store"} => job'[v].todo # <<>>
           /\ \A v \in Workers : job'[v].at \in {"line", "mail", "commit"} => job'[v].cart # <<>>
           /\ \A v \in Workers : job'[v].at \in {"fetch", "store", "close", "update"} =>
                 order'[job'[v].order].status # "none"
<1>1. \A v \in Workers : job[v].at \in {"fetch", "store", "close", "update"} => job[v].order \in Orders
  BY JobKinds DEF TypeInv, CancelJob, UpdateJob
<1> QED BY <1>1 DEF TypeInv, TypeOK, TodoLeft

\* The items of an order name products.
LEMMA ItemsAreOnSale ==
    ASSUME NEW items \in Seq(Line)
    PROVE  ProductsOf(items) \subseteq Products
<1>1. ASSUME NEW i \in DOMAIN items PROVE items[i].product \in Products
  <2>1. items[i] \in Line
    BY ElementOfSeq, LenProperties
  <2> QED BY <2>1 DEF Line
<1> QED BY <1>1 DEF ProductsOf, Range

LEMMA NextTypeInv == TypeInv /\ [Next]_vars => TypeInv'
<1> SUFFICES ASSUME TypeInv, [Next]_vars PROVE TypeInv'
  OBVIOUS
<1> USE DEF TypeInv, history
<1>1. ASSUME NEW w \in Workers, NEW o \in Orders, NEW cart \in Carts, CheckoutStart(w, o, cart)
      PROVE  TypeInv'
  <2> DEFINE j == [at |-> "line", order |-> o, cart |-> cart, todo |-> cart]
  <2>1. cart \in Seq(Line) /\ cart # <<>>
    BY InventoryAssumption
  <2>2. j \in Job
    BY <2>1 DEF Job, CheckoutJob
  <2>3. job' = [job EXCEPT ![w] = j]
    BY <1>1 DEF CheckoutStart
  <2>4. UNCHANGED <<product, latest, lock, order, mailed, updates, failures, history>>
    BY <1>1 DEF CheckoutStart
  <2> QED BY <2>1, <2>2, <2>3, <2>4, JobTypeInv DEF TypeOK, TodoLeft
<1>2. ASSUME NEW w \in Workers, CheckoutLine(w)
      PROVE  TypeInv'
  <2> DEFINE line == Head(job[w].todo)
             j == [job[w] EXCEPT !.todo = Tail(@),
                                 !.at = IF Len(job[w].todo) = 1 THEN "mail" ELSE "line"]
  <2>1. job[w].at = "line" /\ job[w] \in CheckoutJob /\ job[w].todo # <<>> /\ job[w].cart # <<>>
    BY <1>2, JobKinds DEF CheckoutLine, TodoLeft
  <2>2. job[w].todo \in Seq(Line)
    BY <2>1 DEF CheckoutJob
  <2>3. line \in Line /\ Tail(job[w].todo) \in Seq(Line)
        /\ (Len(job[w].todo) # 1 => Tail(job[w].todo) # <<>>)
    BY <2>1, <2>2, LineSeq
  <2>4. j \in Job
    BY <2>1, <2>3 DEF Job, CheckoutJob
  <2>5. j.at \in {"line", "mail"} /\ (j.at = "line" => j.todo # <<>>) /\ j.cart # <<>>
    BY <2>1, <2>3 DEF CheckoutJob
  <2>6. job' = [job EXCEPT ![w] = j]
    BY <1>2 DEF CheckoutLine
  <2>7. line.product \in Products /\ line.qty \in Nat \ {0}
    BY <2>3 DEF Line
  <2>8. Sold(latest[line.product], line.qty) \in Row
    <3>1. latest[line.product] \in Row
      BY <2>7 DEF TypeOK
    <3> HIDE DEF line
    <3> QED BY <2>7, <3>1, Selling
  <2>9. WriteInTxn(w, line.product, Sold(latest[line.product], line.qty))
    BY <1>2 DEF CheckoutLine
  <2>10. UNCHANGED <<order, mailed, updates, failures>> /\ restocked' \subseteq Products
         /\ miscounted' \subseteq Products
    BY <1>2, <2>7 DEF CheckoutLine, TypeOK
  <2>11. /\ product' \in [Products -> Row]
         /\ latest' \in [Products -> Row]
         /\ lock' \in [Products -> Workers \cup {NoWorker}]
    BY <2>7, <2>8, <2>9, WriteTypes
  <2> HIDE DEF j, line
  <2> QED BY <2>4, <2>5, <2>6, <2>10, <2>11, JobTypeInv DEF TypeOK, TodoLeft
<1>3. ASSUME NEW w \in Workers, CheckoutMail(w)
      PROVE  TypeInv'
  <2> DEFINE j == [job[w] EXCEPT !.at = "commit"]
  <2>1. job[w] \in CheckoutJob /\ job[w].cart # <<>>
    BY <1>3, JobKinds DEF CheckoutMail, TodoLeft
  <2>2. j \in Job /\ j.at = "commit" /\ j.cart # <<>> /\ job[w].order \in Orders
    BY <2>1 DEF Job, CheckoutJob
  <2>3. job' = [job EXCEPT ![w] = j] /\ mailed' = mailed \cup {job[w].order}
        /\ UNCHANGED <<product, latest, lock, order, updates, failures, history>>
    BY <1>3 DEF CheckoutMail
  <2> HIDE DEF j
  <2> QED BY <2>2, <2>3, JobTypeInv DEF TypeOK, TodoLeft
<1>4. ASSUME NEW w \in Workers, CheckoutCommit(w)
      PROVE  TypeInv'
  <2>1. job[w] \in CheckoutJob /\ job[w].cart # <<>>
    BY <1>4, JobKinds DEF CheckoutCommit, TodoLeft
  <2>2. /\ job' = [job EXCEPT ![w] = Idle]
        /\ order' = [order EXCEPT ![job[w].order] = [status |-> "placed", items |-> job[w].cart]]
        /\ UNCHANGED <<mailed, updates, failures, history>>
        /\ CommitTxn(w)
    BY <1>4 DEF CheckoutCommit
  <2>3. [status |-> "placed", items |-> job[w].cart] \in OrderRow /\ job[w].order \in Orders
    BY <2>1 DEF CheckoutJob, OrderRow
  <2>4. /\ order' \in [Orders -> OrderRow]
        /\ \A o \in Orders : order'[o].status # "none" => order'[o].items # <<>>
        /\ \A o \in Orders : order[o].status # "none" => order'[o].status # "none"
    BY <2>1, <2>2, <2>3 DEF TypeOK, TodoLeft
  <2>5. Idle \in Job /\ Idle.at = "idle"
    BY DEF Job, Idle
  <2> QED BY <2>2, <2>4, <2>5, CommitTypes, JobTypeInv DEF TypeOK, TodoLeft
<1>5. ASSUME NEW w \in Workers, NEW o \in Orders, NEW endpoint \in EndpointNames,
             CancelStart(w, o, endpoint)
      PROVE  TypeInv'
  <2> DEFINE j == [at |-> "fetch", atomic |-> endpoint = "cancel", order |-> o,
                   todo |-> order[o].items,
                   copy |-> product[Head(order[o].items).product]]
  <2>1. order[o].items \in Seq(Line) /\ order[o].items # <<>> /\ order[o].status # "none"
    BY <1>5 DEF CancelStart, TypeOK, TodoLeft, OrderRow
  <2>2. Head(order[o].items).product \in Products
    BY <2>1, LineSeq DEF Line
  <2>3. product[Head(order[o].items).product] \in Row
    BY <2>2 DEF TypeOK
  <2>4. (endpoint = "cancel") \in BOOLEAN
    OBVIOUS
  <2>5. j \in CancelJob
    BY <2>1, <2>3, <2>4, Zenon DEF CancelJob
  <2>6. j \in Job /\ j.at = "fetch" /\ j.todo # <<>> /\ j.order = o
    BY <2>1, <2>5 DEF Job
  <2>7. job' = [job EXCEPT ![w] = j] /\ UNCHANGED <<product, latest, lock, order, mailed, updates, failures, history>>
    BY <1>5, Zenon DEF CancelStart
  <2> HIDE DEF j
  <2> QED BY <2>1, <2>6, <2>7, JobTypeInv DEF TypeOK, TodoLeft
<1>6. ASSUME NEW w \in Workers, RestoreFetch(w)
      PROVE  TypeInv'
  <2> DEFINE row == Visible(w, Head(job[w].todo).product)
             j == [job[w] EXCEPT !.at = "store", !.copy = row]
  <2>1. job[w] \in CancelJob /\ job[w].todo # <<>> /\ order[job[w].order].status # "none"
    BY <1>6, JobKinds DEF RestoreFetch, TodoLeft
  <2>2. Head(job[w].todo).product \in Products
    BY <2>1, LineSeq DEF CancelJob, Line
  <2>3. row \in Row
    BY <2>2 DEF TypeOK, Visible
  <2>4. job' = [job EXCEPT ![w] = j] /\ UNCHANGED <<product, latest, lock, order, mailed, updates, failures, history>>
    BY <1>6 DEF RestoreFetch
  <2> HIDE DEF row
  <2>5. j \in Job /\ j.at = "store" /\ j.todo # <<>> /\ j.order = job[w].order
    BY <2>1, <2>3 DEF Job, CancelJob
  <2> HIDE DEF j
  <2> QED BY <2>1, <2>4, <2>5, JobTypeInv DEF TypeOK, TodoLeft
<1>7. ASSUME NEW w \in Workers, RestoreStore(w)
      PROVE  TypeInv'
  <2> DEFINE line == Head(job[w].todo)
             row == Restored(latest[line.product], job[w].copy, line.qty)
             j == [job[w] EXCEPT !.todo = Tail(@),
                                 !.at = IF Len(job[w].todo) = 1 THEN "close" ELSE "fetch"]
  <2>1. job[w] \in CancelJob /\ job[w].todo # <<>> /\ order[job[w].order].status # "none"
    BY <1>7, JobKinds DEF RestoreStore, TodoLeft
  <2>2. line \in Line /\ Tail(job[w].todo) \in Seq(Line)
        /\ (Len(job[w].todo) # 1 => Tail(job[w].todo) # <<>>)
    BY <2>1, LineSeq DEF CancelJob
  <2>3. line.product \in Products /\ line.qty \in Nat \ {0}
    BY <2>2 DEF Line
  <2>4. row \in Row
    BY <2>1, <2>3, Restoring DEF TypeOK, CancelJob
  <2>5. WriteInTxn(w, line.product, row) \/ WriteNow(line.product, row)
    BY <1>7 DEF RestoreStore
  <2>6. /\ product' \in [Products -> Row]
        /\ latest' \in [Products -> Row]
        /\ lock' \in [Products -> Workers \cup {NoWorker}]
    BY <2>3, <2>4, <2>5, WriteTypes
  <2>7. job' = [job EXCEPT ![w] = j] /\ UNCHANGED <<order, mailed, updates, failures>>
    BY <1>7 DEF RestoreStore
  <2>9. restocked' \subseteq Products /\ miscounted' \subseteq Products
    BY <1>7, <2>3 DEF RestoreStore, TypeOK
  <2>8. j \in Job /\ j.at \in {"fetch", "close"} /\ (j.at = "fetch" => j.todo # <<>>)
        /\ j.order = job[w].order
    BY <2>1, <2>2 DEF Job, CancelJob
  <2> HIDE DEF line, row, j
  <2> QED BY <2>1, <2>6, <2>7, <2>8, <2>9, JobTypeInv DEF TypeOK, TodoLeft
<1>8. ASSUME NEW w \in Workers, CancelClose(w)
      PROVE  TypeInv'
  <2>1. job[w] \in CancelJob
    BY <1>8, JobKinds DEF CancelClose
  <2>2. /\ job' = [job EXCEPT ![w] = Idle]
        /\ order' = [order EXCEPT ![job[w].order].status = "cancelled"]
        /\ UNCHANGED <<mailed, updates, failures, history>>
        /\ CommitTxn(w)
    BY <1>8 DEF CancelClose
  <2>3. /\ order' \in [Orders -> OrderRow]
        /\ \A o \in Orders : order'[o].status # "none" => order'[o].items # <<>>
        /\ \A o \in Orders : order[o].status # "none" => order'[o].status # "none"
    <3> DEFINE x == job[w].order
    <3>1. x \in Orders /\ order[x].status # "none" /\ order[x] \in OrderRow
      BY <2>1, <1>8 DEF TypeOK, CancelJob, TodoLeft, CancelClose
    <3> QED BY <2>2, <3>1 DEF TypeOK, TodoLeft, OrderRow
  <2>4. Idle \in Job /\ Idle.at = "idle"
    BY DEF Job, Idle
  <2> QED BY <2>2, <2>3, <2>4, CommitTypes, JobTypeInv DEF TypeOK, TodoLeft
<1>9. ASSUME NEW w \in Workers, NEW p \in Products, NEW status \in ProductStatus,
             NEW stock \in EditStock \cup {product[p].stock}, EditStart(w, p, stock, status)
      PROVE  TypeInv'
  <2> DEFINE row == [product[p] EXCEPT !.stock = stock, !.status = status]
             j == [at |-> "edit", product |-> p, copy |-> row]
  <2>1. stock \in Nat
    BY InventoryAssumption DEF TypeOK, Row
  <2>2. row \in Row
    BY <2>1 DEF TypeOK, Row
  <2>3. job' = [job EXCEPT ![w] = j] /\ UNCHANGED <<product, latest, lock, order, mailed, updates, failures, history>>
    BY <1>9 DEF EditStart
  <2> HIDE DEF row
  <2>4. j \in Job /\ j.at = "edit"
    BY <2>2 DEF Job, EditJob
  <2> HIDE DEF j
  <2> QED BY <2>3, <2>4, JobTypeInv DEF TypeOK, TodoLeft
<1>10. ASSUME NEW w \in Workers, EditSave(w)
       PROVE  TypeInv'
  <2>1. job[w].product \in Products /\ job[w].copy \in Row
    BY <1>10, JobKinds DEF EditSave, EditJob
  <2>2. Normalised(job[w].copy) \in Row
    BY <2>1, Saving
  <2>3. /\ job' = [job EXCEPT ![w] = Idle] /\ UNCHANGED <<order, mailed, updates, failures>>
        /\ WriteNow(job[w].product, Normalised(job[w].copy))
        /\ restocked' \subseteq Products /\ miscounted' \subseteq Products
    BY <1>10, <2>1 DEF EditSave, TypeOK
  <2>4. /\ product' \in [Products -> Row]
        /\ latest' \in [Products -> Row]
        /\ lock' \in [Products -> Workers \cup {NoWorker}]
    BY <2>1, <2>2, <2>3, WriteTypes
  <2>5. Idle \in Job /\ Idle.at = "idle"
    BY DEF Job, Idle
  <2> QED BY <2>3, <2>4, <2>5, JobTypeInv DEF TypeOK, TodoLeft
<1>11. ASSUME NEW p \in Products, Archive(p)
       PROVE  TypeInv'
  <2>1. [latest[p] EXCEPT !.status = "archived", !.is_active = FALSE] \in Row
    BY DEF TypeOK, Row, ProductStatus
  <2> QED BY <1>11, <2>1 DEF Archive, WriteNow, TypeOK, TodoLeft
<1>12. ASSUME NEW w \in Workers, Fail(w)
       PROVE  TypeInv'
  <2>1. failures' \in 0 .. MaxFailures
    BY <1>12, InventoryAssumption DEF Fail, TypeOK
  <2> QED BY <1>12, <2>1, RollbackTypeInv DEF Fail
<1>13. ASSUME NEW w \in Workers, DeadlockVictim(w)
       PROVE  TypeInv'
  BY <1>13, RollbackTypeInv DEF DeadlockVictim, TypeOK
<1>14. CASE UNCHANGED vars
  BY <1>14 DEF vars, TypeOK, TodoLeft
<1>15. ASSUME NEW w \in Workers, NEW o \in Orders, UpdateStart(w, o)
       PROVE  TypeInv'
  <2> DEFINE j == [at |-> "update", order |-> o]
  <2>1. j \in Job /\ j.at = "update" /\ j.order = o
    BY DEF Job, UpdateJob
  <2>2. /\ job' = [job EXCEPT ![w] = j] /\ order[o].status # "none"
        /\ UNCHANGED <<product, latest, lock, order, mailed, failures, history>>
        /\ updates' \in 0 .. MaxUpdates
    BY <1>15, InventoryAssumption DEF UpdateStart, TypeOK
  <2> HIDE DEF j
  <2> QED BY <2>1, <2>2, JobTypeInv DEF TypeOK, TodoLeft
<1>16. ASSUME NEW w \in Workers, UpdateSave(w)
       PROVE  TypeInv'
  <2> DEFINE o == job[w].order
  <2>1. o \in Orders /\ order[o].status # "none" /\ order[o].items \in Seq(Line)
    BY <1>16, JobKinds DEF UpdateSave, UpdateJob, TodoLeft, TypeOK, OrderRow
  <2>2. /\ job' = [job EXCEPT ![w] = Idle]
        /\ order' = [order EXCEPT ![o].status = "placed"]
        /\ UNCHANGED <<product, latest, lock, mailed, updates, failures, restocked>>
        /\ miscounted' \in {miscounted, miscounted \cup ProductsOf(order[o].items)}
    BY <1>16 DEF UpdateSave
  <2>3. ProductsOf(order[o].items) \subseteq Products
    BY <2>1, ItemsAreOnSale
  <2> HIDE DEF o
  <2>4. /\ order' \in [Orders -> OrderRow]
        /\ \A x \in Orders : order'[x].status # "none" => order'[x].items # <<>>
        /\ \A x \in Orders : order[x].status # "none" => order'[x].status # "none"
    BY <2>1, <2>2 DEF TypeOK, TodoLeft, OrderRow
  <2>5. Idle \in Job /\ Idle.at = "idle"
    BY DEF Job, Idle
  <2> QED BY <2>2, <2>3, <2>4, <2>5, JobTypeInv DEF TypeOK, TodoLeft
<1> QED
  BY <1>1, <1>2, <1>3, <1>4, <1>5, <1>6, <1>7, <1>8, <1>9, <1>10, <1>11, <1>12, <1>13, <1>14,
     <1>15, <1>16
  DEF Next, Start, Step

\* Every reachable state is well typed, for any number of products, orders and
\* processes and any carts.
THEOREM TypeCorrect == Spec => []TypeOK
<1>1. Spec => []TypeInv
  BY InitTypeInv, NextTypeInv, PTL DEF Spec
<1>2. TypeInv => TypeOK
  BY DEF TypeInv
<1> QED BY <1>1, <1>2, PTL

-----------------------------------------------------------------------------
(* Facts about single rows.  Good is a set of rows.  The rows of a product   *)
(* stay good when the rows the code writes are good: the committed one and   *)
(* the one an open transaction has written, since a commit publishes it.     *)

RowsIn(Good, p) == product[p] \in Good /\ latest[p] \in Good

\* Only requests of an enabled endpoint are at work.
JobsAllowed ==
    \A w \in Workers :
        /\ job[w].at \in {"fetch", "store", "close"} => Endpoints \cap {"cancel", "patch"} # {}
        /\ job[w].at = "edit" => "edit" \in Endpoints

LEMMA NextJobsAllowed == TypeInv /\ JobsAllowed /\ [Next]_vars => JobsAllowed'
<1> SUFFICES ASSUME TypeInv, JobsAllowed, [Next]_vars PROVE JobsAllowed'
  OBVIOUS
<1> USE DEF TypeInv, TypeOK, JobsAllowed
<1>1. ASSUME NEW w \in Workers, Start(w) PROVE JobsAllowed'
  <2>1. ASSUME NEW o \in Orders, NEW cart \in Carts, CheckoutStart(w, o, cart) PROVE JobsAllowed'
    BY <2>1 DEF CheckoutStart
  <2>2. ASSUME NEW o \in Orders, NEW endpoint \in EndpointNames, CancelStart(w, o, endpoint)
        PROVE  JobsAllowed'
    BY <2>2 DEF CancelStart
  <2>3. ASSUME NEW p \in Products, NEW status \in ProductStatus,
               NEW stock \in EditStock \cup {product[p].stock}, EditStart(w, p, stock, status)
        PROVE  JobsAllowed'
    BY <2>3 DEF EditStart
  <2>4. ASSUME NEW o \in Orders, UpdateStart(w, o) PROVE JobsAllowed'
    BY <2>4 DEF UpdateStart
  <2> QED BY <1>1, <2>1, <2>2, <2>3, <2>4 DEF Start
<1>2. ASSUME NEW w \in Workers, Step(w) PROVE JobsAllowed'
  <2>1. CASE CheckoutLine(w)
    <3>1. job[w] \in CheckoutJob /\ DOMAIN job = Workers
      BY <2>1, JobKinds DEF CheckoutLine
    <3>2. job' = [job EXCEPT ![w] = [job[w] EXCEPT
              !.todo = Tail(@), !.at = IF Len(job[w].todo) = 1 THEN "mail" ELSE "line"]]
      BY <2>1 DEF CheckoutLine
    <3>3. job'[w].at \in {"mail", "line"}
      BY <3>1, <3>2 DEF CheckoutJob
    <3> QED BY <3>2, <3>3
  <2>2. CASE CheckoutMail(w)
    <3>1. job[w] \in CheckoutJob
      BY <2>2, JobKinds DEF CheckoutMail
    <3>2. job' = [job EXCEPT ![w] = [job[w] EXCEPT !.at = "commit"]]
      BY <2>2 DEF CheckoutMail
    <3> QED BY <3>1, <3>2 DEF CheckoutJob
  <2>3. CASE CheckoutCommit(w)
    BY <2>3 DEF CheckoutCommit, Idle
  <2>4. CASE RestoreFetch(w)
    BY <2>4 DEF RestoreFetch
  <2>5. CASE RestoreStore(w)
    BY <2>5 DEF RestoreStore
  <2>6. CASE CancelClose(w)
    BY <2>6 DEF CancelClose, Idle
  <2>7. CASE EditSave(w)
    BY <2>7 DEF EditSave, Idle
  <2>8. CASE UpdateSave(w)
    BY <2>8 DEF UpdateSave, Idle
  <2> QED BY <1>2, <2>1, <2>2, <2>3, <2>4, <2>5, <2>6, <2>7, <2>8 DEF Step
<1>3. ASSUME NEW w \in Workers, RollbackTxn(w) PROVE JobsAllowed'
  BY <1>3 DEF RollbackTxn, Idle
<1>4. ASSUME NEW p \in Products, Archive(p) PROVE JobsAllowed'
  BY <1>4 DEF Archive
<1>5. CASE UNCHANGED vars
  BY <1>5 DEF vars
<1> QED BY <1>1, <1>2, <1>3, <1>4, <1>5 DEF Next, Fail, DeadlockVictim

\* A product something other than a sale has written stays one.
LEMMA RestockedGrows == [Next]_vars => restocked \subseteq restocked'
BY DEF Next, Start, Step, CheckoutStart, CheckoutLine, CheckoutMail, CheckoutCommit,
       CancelStart, RestoreFetch, RestoreStore, CancelClose, UpdateStart, UpdateSave,
       EditStart, EditSave, Archive, Fail, DeadlockVictim, RollbackTxn, vars, history

LEMMA RowsStay ==
    ASSUME NEW p \in Products, NEW Good \in SUBSET Row,
           TypeInv, JobsAllowed, RowsIn(Good, p), [Next]_vars,
           \A row \in Good, qty \in Nat \ {0} : Sold(row, qty) \in Good,
           p \in restocked' /\ Endpoints \cap {"cancel", "patch"} # {} =>
              \A row \in Good, copy \in Row, qty \in Nat \ {0} :
                 Restored(row, copy, qty) \in Good,
           p \in restocked' /\ "edit" \in Endpoints =>
              \A copy \in Row : Normalised(copy) \in Good,
           \A row \in Good :
              [row EXCEPT !.status = "archived", !.is_active = FALSE] \in Good
    PROVE  RowsIn(Good, p)'
<1> USE DEF TypeInv, TypeOK
<1>1. ASSUME NEW w \in Workers, NEW q \in Products, NEW row \in Row,
             WriteInTxn(w, q, row) \/ WriteNow(q, row), p = q => row \in Good
      PROVE  RowsIn(Good, p)'
  BY <1>1 DEF WriteInTxn, WriteNow, RowsIn
<1>2. ASSUME NEW w \in Workers, CommitTxn(w)
      PROVE  RowsIn(Good, p)'
  BY <1>2 DEF CommitTxn, Visible, RowsIn
<1>3. ASSUME NEW w \in Workers, RollbackTxn(w)
      PROVE  RowsIn(Good, p)'
  BY <1>3 DEF RollbackTxn, RowsIn
<1>4. ASSUME UNCHANGED <<product, latest>>
      PROVE  RowsIn(Good, p)'
  BY <1>4 DEF RowsIn
<1>5. ASSUME NEW w \in Workers, job[w].at \in {"line", "store"}
      PROVE  /\ Head(job[w].todo).product \in Products
             /\ Head(job[w].todo).qty \in Nat \ {0}
  <2>1. job[w].todo \in Seq(Line) /\ job[w].todo # <<>>
    BY <1>5, JobKinds DEF CheckoutJob, CancelJob, TodoLeft
  <2> QED BY <2>1, LineSeq DEF Line
<1>6. ASSUME NEW w \in Workers, Start(w) PROVE RowsIn(Good, p)'
  BY <1>4, <1>6 DEF Start, CheckoutStart, CancelStart, UpdateStart, EditStart
<1>7. ASSUME NEW w \in Workers, Step(w) PROVE RowsIn(Good, p)'
  <2>1. CASE CheckoutLine(w)
    <3> DEFINE line == Head(job[w].todo)
               row == Sold(latest[line.product], line.qty)
    <3>1. line.product \in Products /\ line.qty \in Nat \ {0}
      BY <2>1, <1>5 DEF CheckoutLine
    <3>2. row \in Row /\ (p = line.product => row \in Good)
      BY <3>1, Selling DEF RowsIn
    <3>3. WriteInTxn(w, line.product, row)
      BY <2>1 DEF CheckoutLine
    <3> HIDE DEF line, row
    <3> QED BY <3>1, <3>2, <3>3, <1>1
  <2>2. CASE RestoreStore(w)
    <3> DEFINE line == Head(job[w].todo)
               row == Restored(latest[line.product], job[w].copy, line.qty)
    <3>1. line.product \in Products /\ line.qty \in Nat \ {0}
      BY <2>2, <1>5 DEF RestoreStore
    <3>2. job[w].copy \in Row /\ Endpoints \cap {"cancel", "patch"} # {}
      BY <2>2, JobKinds DEF RestoreStore, CancelJob, JobsAllowed
    <3>3. row \in Row
      BY <3>1, <3>2, Restoring
    <3>4. p = line.product => p \in restocked'
      BY <2>2 DEF RestoreStore
    <3>5. p = line.product => row \in Good
      BY <3>1, <3>2, <3>4 DEF RowsIn
    <3>6. WriteInTxn(w, line.product, row) \/ WriteNow(line.product, row)
      BY <2>2 DEF RestoreStore
    <3> HIDE DEF line, row
    <3> QED BY <3>1, <3>3, <3>5, <3>6, <1>1
  <2>3. CASE EditSave(w)
    <3>1. job[w].product \in Products /\ job[w].copy \in Row /\ "edit" \in Endpoints
      BY <2>3, JobKinds DEF EditSave, EditJob, JobsAllowed
    <3>2. Normalised(job[w].copy) \in Row /\ (p = job[w].product => Normalised(job[w].copy) \in Good)
      BY <2>3, <3>1, Saving DEF EditSave
    <3> QED BY <2>3, <3>1, <3>2, <1>1 DEF EditSave
  <2>4. CASE CheckoutMail(w) \/ RestoreFetch(w) \/ UpdateSave(w)
    BY <2>4, <1>4 DEF CheckoutMail, RestoreFetch, UpdateSave
  <2>5. CASE CheckoutCommit(w) \/ CancelClose(w)
    BY <2>5, <1>2 DEF CheckoutCommit, CancelClose
  <2> QED BY <1>7, <2>1, <2>2, <2>3, <2>4, <2>5 DEF Step
<1>8. ASSUME NEW q \in Products, Archive(q) PROVE RowsIn(Good, p)'
  BY <1>8 DEF Archive, WriteNow, RowsIn
<1>9. CASE UNCHANGED vars
  BY <1>9, <1>4 DEF vars
<1> QED BY <1>3, <1>6, <1>7, <1>8, <1>9 DEF Next, Fail, DeadlockVictim

LEMMA InitJobsAllowed == Init => JobsAllowed
BY DEF Init, JobsAllowed, Idle

-----------------------------------------------------------------------------

OnSaleInStock == {row \in Row : row.status = "active" => row.stock > 0}

SoldOutEmpty == {row \in Row : row.status = "sold_out" => row.stock = 0}

Balanced(p) ==
    {row \in Row : row.stock = IF row.total_sales < InitStock[p]
                               THEN InitStock[p] - row.total_sales ELSE 0}

\* The rows of the start are well typed, and those of latest are the same.
LEMMA InitRows ==
    ASSUME Init, NEW p \in Products
    PROVE  /\ product[p] \in Row /\ latest[p] = product[p]
           /\ product[p].stock = InitStock[p] /\ product[p].total_sales = 0
           /\ product[p].status = IF InitStock[p] = 0 THEN "sold_out" ELSE "active"
BY InventoryAssumption DEF Init, Row, ProductStatus

\* For any number of products, orders and processes: a product on sale is in
\* stock, whatever checkouts, cancellations, edits and failures overlap.
THEOREM OnSaleHasStock == Spec => []ActiveInStock
<1> DEFINE IInv == TypeInv /\ JobsAllowed /\ \A p \in Products : RowsIn(OnSaleInStock, p)
<1>1. Init => IInv
  BY InitTypeInv, InitJobsAllowed, InitRows, InventoryAssumption DEF RowsIn, OnSaleInStock
<1>2. IInv /\ [Next]_vars => IInv'
  <2> SUFFICES ASSUME IInv, [Next]_vars, NEW p \in Products PROVE RowsIn(OnSaleInStock, p)'
    BY NextTypeInv, NextJobsAllowed
  <2>1. OnSaleInStock \in SUBSET Row
    BY DEF OnSaleInStock
  <2>2. \A row \in OnSaleInStock, qty \in Nat \ {0} : Sold(row, qty) \in OnSaleInStock
    BY Selling DEF OnSaleInStock
  <2>3. \A row \in OnSaleInStock, copy \in Row, qty \in Nat \ {0} :
           Restored(row, copy, qty) \in OnSaleInStock
    BY Restoring DEF OnSaleInStock
  <2>4. \A copy \in Row : Normalised(copy) \in OnSaleInStock
    BY Saving DEF OnSaleInStock
  <2>5. \A row \in OnSaleInStock :
           [row EXCEPT !.status = "archived", !.is_active = FALSE] \in OnSaleInStock
    BY DEF OnSaleInStock, Row, ProductStatus
  <2> QED BY <2>1, <2>2, <2>3, <2>4, <2>5, RowsStay
<1>3. IInv => ActiveInStock
  BY DEF RowsIn, OnSaleInStock, ActiveInStock
<1> QED BY <1>1, <1>2, <1>3, PTL DEF Spec

\* Without artisan edits a sold-out product has no stock, however checkouts and
\* both kinds of cancellation overlap and fail.
THEOREM SoldOutHasNone ==
    ASSUME "edit" \notin Endpoints
    PROVE  Spec => []SoldOutIsEmpty
<1> DEFINE IInv == TypeInv /\ JobsAllowed /\ \A p \in Products : RowsIn(SoldOutEmpty, p)
<1>1. Init => IInv
  BY InitTypeInv, InitJobsAllowed, InitRows, InventoryAssumption DEF RowsIn, SoldOutEmpty
<1>2. IInv /\ [Next]_vars => IInv'
  <2> SUFFICES ASSUME IInv, [Next]_vars, NEW p \in Products PROVE RowsIn(SoldOutEmpty, p)'
    BY NextTypeInv, NextJobsAllowed
  <2>1. SoldOutEmpty \in SUBSET Row
    BY DEF SoldOutEmpty
  <2>2. \A row \in SoldOutEmpty, qty \in Nat \ {0} : Sold(row, qty) \in SoldOutEmpty
    BY Selling DEF SoldOutEmpty, Row
  <2>3. \A row \in SoldOutEmpty, copy \in Row, qty \in Nat \ {0} :
           Restored(row, copy, qty) \in SoldOutEmpty
    BY Restoring DEF SoldOutEmpty
  <2>4. \A row \in SoldOutEmpty :
           [row EXCEPT !.status = "archived", !.is_active = FALSE] \in SoldOutEmpty
    BY DEF SoldOutEmpty, Row, ProductStatus
  <2> QED BY <2>1, <2>2, <2>3, <2>4, RowsStay
<1>3. IInv => SoldOutIsEmpty
  BY DEF RowsIn, SoldOutEmpty, SoldOutIsEmpty
<1> QED BY <1>1, <1>2, <1>3, PTL DEF Spec

\* As long as only sales write a product's stock, no decrement of it and no
\* increment of total_sales is ever lost, for any number of concurrent checkouts
\* of any carts beside requests of any kind on other products.
THEOREM NoLostDecrement == Spec => []CheckoutLedger
<1> DEFINE IInv == TypeInv /\ JobsAllowed
                   /\ \A p \in Products \ restocked : RowsIn(Balanced(p), p)
<1>1. Init => IInv
  BY InitTypeInv, InitJobsAllowed, InitRows, InventoryAssumption DEF RowsIn, Balanced
<1>2. IInv /\ [Next]_vars => IInv'
  <2> SUFFICES ASSUME IInv, [Next]_vars, NEW p \in Products, p \notin restocked'
               PROVE RowsIn(Balanced(p), p)'
    BY NextTypeInv, NextJobsAllowed
  <2>1. Balanced(p) \in SUBSET Row
    BY DEF Balanced
  <2>2. \A row \in Balanced(p), qty \in Nat \ {0} : Sold(row, qty) \in Balanced(p)
    <3> SUFFICES ASSUME NEW row \in Balanced(p), NEW qty \in Nat \ {0}
                 PROVE  Sold(row, qty) \in Balanced(p)
      OBVIOUS
    <3>1. row \in Row /\ row.stock = IF row.total_sales < InitStock[p]
                                    THEN InitStock[p] - row.total_sales ELSE 0
      BY DEF Balanced
    <3>2. row.stock \in Nat /\ row.total_sales \in Nat /\ InitStock[p] \in Nat
      BY <3>1, InventoryAssumption DEF Row
    <3>3. /\ Sold(row, qty) \in Row
          /\ Sold(row, qty).stock = (IF qty < row.stock THEN row.stock - qty ELSE 0)
          /\ Sold(row, qty).total_sales = row.total_sales + qty
      BY <3>1, Selling
    <3>4. Sold(row, qty).stock = IF Sold(row, qty).total_sales < InitStock[p]
                                 THEN InitStock[p] - Sold(row, qty).total_sales ELSE 0
      BY <3>1, <3>2, <3>3
    <3> QED BY <3>3, <3>4 DEF Balanced
  <2>3. \A row \in Balanced(p) :
           [row EXCEPT !.status = "archived", !.is_active = FALSE] \in Balanced(p)
    BY DEF Balanced, Row, ProductStatus
  <2>4. RowsIn(Balanced(p), p)
    BY RestockedGrows
  <2> HIDE DEF IInv
  <2>5. TypeInv /\ JobsAllowed
    BY DEF IInv
  <2> QED BY <2>1, <2>2, <2>3, <2>4, <2>5, RowsStay
<1>3. IInv => CheckoutLedger
  BY DEF RowsIn, Balanced, CheckoutLedger
<1> QED BY <1>1, <1>2, <1>3, PTL DEF Spec

-----------------------------------------------------------------------------

\* Who can still commit, cancel or change an order has queued its confirmation mail.
Confirmed ==
    /\ PlacedIsConfirmed
    /\ \A w \in Workers :
          job[w].at \in {"commit", "fetch", "store", "close", "update"} => job[w].order \in mailed

\* No order is ever committed whose confirmation mail was not queued, for any
\* number of orders and processes and wherever they fail.
THEOREM OrdersAreConfirmed == Spec => []PlacedIsConfirmed
<1> DEFINE IInv == TypeInv /\ Confirmed
<1>1. Init => IInv
  BY InitTypeInv DEF Init, Confirmed, PlacedIsConfirmed, NoOrder, Idle
<1>2. IInv /\ [Next]_vars => IInv'
  <2> SUFFICES ASSUME TypeInv, Confirmed, [Next]_vars PROVE Confirmed'
    BY NextTypeInv
  <2> USE DEF TypeInv, TypeOK, Confirmed, PlacedIsConfirmed
  <2>1. ASSUME NEW w \in Workers, Start(w) PROVE Confirmed'
    <3>1. ASSUME NEW o \in Orders, NEW cart \in Carts, CheckoutStart(w, o, cart) PROVE Confirmed'
      BY <3>1 DEF CheckoutStart
    <3>2. ASSUME NEW o \in Orders, NEW endpoint \in EndpointNames, CancelStart(w, o, endpoint)
          PROVE  Confirmed'
      BY <3>2 DEF CancelStart
    <3>3. ASSUME NEW p \in Products, NEW status \in ProductStatus,
                 NEW stock \in EditStock \cup {product[p].stock}, EditStart(w, p, stock, status)
          PROVE  Confirmed'
      BY <3>3 DEF EditStart
    <3>4. ASSUME NEW o \in Orders, UpdateStart(w, o) PROVE Confirmed'
      BY <3>4 DEF UpdateStart
    <3> QED BY <2>1, <3>1, <3>2, <3>3, <3>4 DEF Start
  <2>2. ASSUME NEW w \in Workers, Step(w) PROVE Confirmed'
    <3>1. CASE CheckoutLine(w)
      <4>1. job[w] \in CheckoutJob
        BY <3>1, JobKinds DEF CheckoutLine
      <4>2. job' = [job EXCEPT ![w] = [job[w] EXCEPT
                !.todo = Tail(@), !.at = IF Len(job[w].todo) = 1 THEN "mail" ELSE "line"]]
            /\ UNCHANGED <<order, mailed>>
        BY <3>1 DEF CheckoutLine
      <4>3. job'[w].at \in {"mail", "line"}
        BY <4>1, <4>2 DEF CheckoutJob
      <4> QED BY <4>2, <4>3
    <3>2. CASE CheckoutMail(w)
      <4>1. job[w] \in CheckoutJob
        BY <3>2, JobKinds DEF CheckoutMail
      <4> QED BY <3>2, <4>1 DEF CheckoutMail, CheckoutJob
    <3>3. CASE CheckoutCommit(w)
      <4>1. job[w] \in CheckoutJob
        BY <3>3, JobKinds DEF CheckoutCommit
      <4> QED BY <3>3, <4>1 DEF CheckoutCommit, CheckoutJob, Idle
    <3>4. CASE RestoreFetch(w)
      <4>1. job[w] \in CancelJob
        BY <3>4, JobKinds DEF RestoreFetch
      <4> QED BY <3>4, <4>1 DEF RestoreFetch, CancelJob
    <3>5. CASE RestoreStore(w)
      <4>1. job[w] \in CancelJob
        BY <3>5, JobKinds DEF RestoreStore
      <4> QED BY <3>5, <4>1 DEF RestoreStore, CancelJob
    <3>6. CASE CancelClose(w)
      <4>1. job[w] \in CancelJob
        BY <3>6, JobKinds DEF CancelClose
      <4> QED BY <3>6, <4>1 DEF CancelClose, CancelJob, Idle, OrderRow
    <3>7. CASE EditSave(w)
      BY <3>7 DEF EditSave, Idle
    <3>8. CASE UpdateSave(w)
      <4>1. job[w] \in UpdateJob
        BY <3>8, JobKinds DEF UpdateSave
      <4>2. /\ job' = [job EXCEPT ![w] = Idle] /\ UNCHANGED mailed
            /\ order' = [order EXCEPT ![job[w].order].status = "placed"]
        BY <3>8 DEF UpdateSave
      <4> QED BY <3>8, <4>1, <4>2 DEF UpdateSave, UpdateJob, Idle, OrderRow
    <3> QED BY <2>2, <3>1, <3>2, <3>3, <3>4, <3>5, <3>6, <3>7, <3>8 DEF Step
  <2>3. ASSUME NEW w \in Workers, RollbackTxn(w) PROVE Confirmed'
    BY <2>3 DEF RollbackTxn, Idle
  <2>4. ASSUME NEW p \in Products, Archive(p) PROVE Confirmed'
    BY <2>4 DEF Archive
  <2>5. CASE UNCHANGED vars
    BY <2>5 DEF vars
  <2> QED BY <2>1, <2>2, <2>3, <2>4, <2>5 DEF Next, Fail, DeadlockVictim
<1>3. IInv => PlacedIsConfirmed
  BY DEF Confirmed
<1> QED BY <1>1, <1>2, <1>3, PTL DEF Spec

-----------------------------------------------------------------------------
(* Counting units                                                          *)

\* The units of p in the first n items of a list.
FirstUnits(items, n, p) ==
    UNION {{i} \X (1 .. items[i].qty) : i \in {k \in 1 .. n : items[k].product = p}}

\* A line of qty units is qty pairs.
LEMMA BlockSize ==
    ASSUME NEW x, NEW S, IsFiniteSet(S)
    PROVE  IsFiniteSet({x} \X S) /\ Cardinality({x} \X S) = Cardinality(S)
<1>1. IsFiniteSet({x}) /\ Cardinality({x}) = 1
  BY FS_Singleton
<1>2. Cardinality(S) \in Nat
  BY FS_CardinalityType
<1> QED BY <1>1, <1>2, FS_Product

LEMMA LineSize ==
    ASSUME NEW x, NEW qty \in Nat
    PROVE  IsFiniteSet({x} \X (1 .. qty)) /\ Cardinality({x} \X (1 .. qty)) = qty
<1>1. IsFiniteSet(1 .. qty) /\ Cardinality(1 .. qty) = IF 1 > qty THEN 0 ELSE qty - 1 + 1
  BY FS_Interval
<1>2. Cardinality(1 .. qty) = qty
  BY <1>1
<1> QED BY <1>1, <1>2, BlockSize

LEMMA ItemOfLine ==
    ASSUME NEW items \in Seq(Line), NEW i \in 1 .. Len(items)
    PROVE  items[i].product \in Products /\ items[i].qty \in Nat \ {0}
<1>1. items[i] \in Line
  BY ElementOfSeq
<1> QED BY <1>1 DEF Line

LEMMA FirstUnitsFinite ==
    ASSUME NEW items \in Seq(Line), NEW n \in 0 .. Len(items), NEW p
    PROVE  /\ IsFiniteSet(FirstUnits(items, n, p))
           /\ Cardinality(FirstUnits(items, n, p)) \in Nat
<1> DEFINE K == {k \in 1 .. n : items[k].product = p}
           f == [i \in K |-> {i} \X (1 .. items[i].qty)]
<1>1. Len(items) \in Nat /\ n \in Int
  BY LenProperties
<1>2. IsFiniteSet(1 .. n) /\ K \in SUBSET (1 .. n)
  BY <1>1, FS_Interval
<1>3. IsFiniteSet(K)
  BY <1>2, FS_Subset
<1>4. f \in [K -> Range(f)] /\ \A T \in Range(f) : \E i \in K : f[i] = T
  BY DEF Range
<1>5. f \in Surjection(K, Range(f))
  BY <1>4 DEF Surjection
<1>6. IsFiniteSet(Range(f))
  BY <1>3, <1>5, FS_Surjection
<1>7. \A T \in Range(f) : IsFiniteSet(T)
  <2> SUFFICES ASSUME NEW i \in K PROVE IsFiniteSet(f[i])
    BY DEF Range
  <2>1. items[i].qty \in Nat
    BY <1>1, ItemOfLine
  <2> QED BY <2>1, LineSize
<1>8. FirstUnits(items, n, p) = UNION Range(f)
  BY DEF FirstUnits, Range
<1>9. IsFiniteSet(FirstUnits(items, n, p))
  BY <1>6, <1>7, <1>8, FS_UNION
<1> QED BY <1>9, FS_CardinalityType

\* One more item of p adds its units, one of another product none.
LEMMA FirstUnitsGrow ==
    ASSUME NEW items \in Seq(Line), NEW n \in Nat, n < Len(items), NEW p
    PROVE  /\ FirstUnits(items, 0, p) = {}
           /\ items[n + 1].product # p => FirstUnits(items, n + 1, p) = FirstUnits(items, n, p)
           /\ Cardinality(FirstUnits(items, n + 1, p)) = Cardinality(FirstUnits(items, n, p))
                 + IF items[n + 1].product = p THEN items[n + 1].qty ELSE 0
<1> DEFINE S == FirstUnits(items, n, p)
           T == {n + 1} \X (1 .. items[n + 1].qty)
<1>0. Len(items) \in Nat
  BY LenProperties
<1>1. FirstUnits(items, 0, p) = {}
  BY DEF FirstUnits
<1>2. (1 .. n + 1) = (1 .. n) \cup {n + 1}
  OBVIOUS
<1>3. CASE items[n + 1].product # p
  <2>1. {k \in 1 .. n + 1 : items[k].product = p} = {k \in 1 .. n : items[k].product = p}
    BY <1>2, <1>3
  <2>2. FirstUnits(items, n + 1, p) = S
    BY <2>1 DEF FirstUnits
  <2>3. Cardinality(S) \in Nat
    BY <1>0, FirstUnitsFinite
  <2> QED BY <1>1, <1>3, <2>2, <2>3
<1>4. CASE items[n + 1].product = p
  <2>1. {k \in 1 .. n + 1 : items[k].product = p} = {k \in 1 .. n : items[k].product = p} \cup {n + 1}
    BY <1>2, <1>4
  <2>2. FirstUnits(items, n + 1, p) = S \cup T
    BY <2>1 DEF FirstUnits
  <2>3. S \cap T = {}
    BY DEF FirstUnits
  <2>4. items[n + 1].qty \in Nat
    BY <1>0, ItemOfLine
  <2>5. IsFiniteSet(T) /\ Cardinality(T) = items[n + 1].qty
    BY <2>4, LineSize
  <2>6. IsFiniteSet(S) /\ Cardinality(S) \in Nat
    BY <1>0, FirstUnitsFinite
  <2> HIDE DEF S, T
  <2>7. Cardinality(S \cup T) = Cardinality(S) + Cardinality(T) - Cardinality({})
    BY <2>3, <2>5, <2>6, FS_Union
  <2>8. Cardinality({}) = 0
    BY FS_EmptySet
  <2>9. Cardinality(S \cup T) = Cardinality(S) + items[n + 1].qty
    BY <2>4, <2>5, <2>6, <2>7, <2>8
  <2> QED BY <1>1, <1>4, <2>2, <2>9 DEF S
<1> QED BY <1>3, <1>4

LEMMA UnitsAreFirstUnits ==
    ASSUME NEW items \in Seq(Line), NEW p
    PROVE  Units(items, p) = FirstUnits(items, Len(items), p)
BY LenProperties DEF Units, FirstUnits

\* The units of p in the orders of a table with one of the given statuses.
UnitsIn(orders, p, statuses) ==
    UNION {{o} \X Units(orders[o].items, p) : o \in {x \in Orders : orders[x].status \in statuses}}

\* An order that comes to be counted adds its units.
LEMMA UnitsAdded ==
    ASSUME NEW before, NEW after, NEW o \in Orders, NEW p, NEW statuses,
           \A x \in Orders \ {o} : after[x] = before[x],
           before[o].status \notin statuses, after[o].status \in statuses,
           IsFiniteSet(UnitsIn(before, p, statuses)) \/ IsFiniteSet(UnitsIn(after, p, statuses)),
           IsFiniteSet(Units(after[o].items, p))
    PROVE  /\ IsFiniteSet(UnitsIn(before, p, statuses))
           /\ IsFiniteSet(UnitsIn(after, p, statuses))
           /\ Cardinality(UnitsIn(before, p, statuses)) \in Nat
           /\ Cardinality(UnitsIn(after, p, statuses)) =
                 Cardinality(UnitsIn(before, p, statuses)) + Cardinality(Units(after[o].items, p))
<1> DEFINE S == UnitsIn(before, p, statuses)
           T == {o} \X Units(after[o].items, p)
<1>1. {x \in Orders : after[x].status \in statuses} =
         {x \in Orders : before[x].status \in statuses} \cup {o}
  OBVIOUS
<1>2. UnitsIn(after, p, statuses) = S \cup T
  BY <1>1 DEF UnitsIn
<1>3. S \cap T = {}
  BY DEF UnitsIn
<1>4. IsFiniteSet(T) /\ Cardinality(T) = Cardinality(Units(after[o].items, p))
  BY BlockSize
<1> HIDE DEF T
<1>5. IsFiniteSet(S)
  BY <1>2, FS_Subset
<1> HIDE DEF S
<1>6. /\ IsFiniteSet(S \cup T)
      /\ Cardinality(S \cup T) = Cardinality(S) + Cardinality(T) - Cardinality({})
  BY <1>3, <1>4, <1>5, FS_Union
<1>7. Cardinality({}) = 0 /\ Cardinality(S) \in Nat /\ Cardinality(T) \in Nat
  BY <1>4, <1>5, FS_EmptySet, FS_CardinalityType
<1> QED BY <1>2, <1>4, <1>5, <1>6, <1>7 DEF S

-----------------------------------------------------------------------------
(* Orders on their way                                                     *)

\* What is left of a list of items when its first ones are done.
Suffix(rest, items) ==
    /\ Len(rest) <= Len(items)
    /\ \A i \in 1 .. Len(rest) : rest[i] = items[Len(items) - Len(rest) + i]

AtCheckout(w) == job[w].at \in {"line", "mail", "commit"}
AtCancel(w) == job[w].at \in {"fetch", "store", "close"}

\* The units of p a checkout has taken, and a cancellation has put back, so far.
Taken(w, p) ==
    IF AtCheckout(w)
    THEN FirstUnits(job[w].cart, Len(job[w].cart) - Len(job[w].todo), p) ELSE {}

PutBack(w, p) ==
    IF AtCancel(w)
    THEN LET items == order[job[w].order].items
         IN  FirstUnits(items, Len(items) - Len(job[w].todo), p)
    ELSE {}

\* A checkout goes through its cart for an order that does not exist yet and is
\* its own; a cancellation goes through the items of an order that does.
CheckoutOnItsWay(w) ==
    AtCheckout(w) =>
        /\ Suffix(job[w].todo, job[w].cart)
        /\ job[w].at # "line" => job[w].todo = <<>>
        /\ order[job[w].order] = NoOrder
        /\ \A v \in Workers : AtCheckout(v) /\ job[v].order = job[w].order => v = w

CancelOnItsWay(w) ==
    AtCancel(w) =>
        /\ Suffix(job[w].todo, order[job[w].order].items)
        /\ job[w].at = "close" => job[w].todo = <<>>
        /\ order[job[w].order].status # "none"

OnItsWay == \A w \in Workers : CheckoutOnItsWay(w) /\ CancelOnItsWay(w)

LEMMA SuffixStep ==
    ASSUME NEW items \in Seq(Line), NEW rest \in Seq(Line), Suffix(rest, items), rest # <<>>
    PROVE  /\ Len(items) - Len(rest) \in Nat
           /\ Len(items) - Len(rest) < Len(items)
           /\ Head(rest) = items[Len(items) - Len(rest) + 1]
           /\ Suffix(Tail(rest), items)
           /\ Len(items) - Len(Tail(rest)) = Len(items) - Len(rest) + 1
           /\ Len(rest) = 1 => Tail(rest) = <<>>
<1>1. /\ Tail(rest) \in Seq(Line)
      /\ Len(Tail(rest)) = Len(rest) - 1
      /\ \A i \in 1 .. Len(Tail(rest)) : Tail(rest)[i] = rest[i + 1]
  BY HeadTailProperties
<1>2. Len(rest) \in Nat \ {0} /\ Len(items) \in Nat /\ Len(rest) <= Len(items)
  BY EmptySeq, LenProperties DEF Suffix
<1>3. Head(rest) = rest[1]
  OBVIOUS
<1>4. rest[1] = items[Len(items) - Len(rest) + 1]
  BY <1>2 DEF Suffix
<1>5. Suffix(Tail(rest), items)
  <2>1. ASSUME NEW i \in 1 .. Len(Tail(rest))
        PROVE  Tail(rest)[i] = items[Len(items) - Len(Tail(rest)) + i]
    <3>1. Tail(rest)[i] = rest[i + 1] /\ i + 1 \in 1 .. Len(rest)
      BY <1>1, <1>2
    <3>2. rest[i + 1] = items[Len(items) - Len(rest) + (i + 1)]
      BY <3>1 DEF Suffix
    <3>3. Len(items) - Len(rest) + (i + 1) = Len(items) - Len(Tail(rest)) + i
      BY <1>1, <1>2
    <3> QED BY <3>1, <3>2, <3>3
  <2> QED BY <1>1, <1>2, <2>1 DEF Suffix
<1>6. Tail(rest) # <<>> => Len(Tail(rest)) \in Nat \ {0}
  BY <1>1, EmptySeq
<1> QED BY <1>1, <1>2, <1>3, <1>4, <1>5, <1>6

LEMMA SuffixStart ==
    ASSUME NEW items \in Seq(Line)
    PROVE  Suffix(items, items) /\ Len(items) - Len(items) = 0
BY LenProperties DEF Suffix

\* The typed parts of a job.
LEMMA JobParts ==
    ASSUME TypeInv, NEW w \in Workers
    PROVE  /\ AtCheckout(w) => /\ job[w] \in CheckoutJob
                               /\ job[w].order \in Orders
                               /\ job[w].cart \in Seq(Line) /\ job[w].todo \in Seq(Line)
           /\ AtCancel(w) => /\ job[w] \in CancelJob
                             /\ job[w].order \in Orders /\ job[w].copy \in Row
                             /\ order[job[w].order].items \in Seq(Line)
                             /\ job[w].todo \in Seq(Line)
           /\ job[w].at \in {"line", "fetch", "store"} => job[w].todo # <<>>
BY JobKinds DEF TypeInv, TypeOK, TodoLeft, AtCheckout, AtCancel, CheckoutJob, CancelJob, OrderRow

\* What a process has taken and put back can be counted.
LEMMA CountsAreNumbers ==
    ASSUME TypeInv, OnItsWay, NEW w \in Workers, NEW p
    PROVE  /\ IsFiniteSet(Taken(w, p)) /\ Cardinality(Taken(w, p)) \in Nat
           /\ IsFiniteSet(PutBack(w, p)) /\ Cardinality(PutBack(w, p)) \in Nat
<1>0. IsFiniteSet({}) /\ Cardinality({}) = 0
  BY FS_EmptySet
<1>1. ASSUME NEW items \in Seq(Line), NEW rest \in Seq(Line), Suffix(rest, items)
      PROVE  Len(items) - Len(rest) \in 0 .. Len(items)
  BY <1>1, LenProperties DEF Suffix
<1>2. IsFiniteSet(Taken(w, p)) /\ Cardinality(Taken(w, p)) \in Nat
  <2>1. CASE ~AtCheckout(w)
    BY <1>0, <2>1 DEF Taken
  <2>2. CASE AtCheckout(w)
    <3>1. job[w].cart \in Seq(Line) /\ job[w].todo \in Seq(Line) /\ Suffix(job[w].todo, job[w].cart)
      BY <2>2, JobParts DEF OnItsWay, CheckoutOnItsWay
    <3> QED BY <1>1, <2>2, <3>1, FirstUnitsFinite DEF Taken
  <2> QED BY <2>1, <2>2
<1>3. IsFiniteSet(PutBack(w, p)) /\ Cardinality(PutBack(w, p)) \in Nat
  <2>1. CASE ~AtCancel(w)
    BY <1>0, <2>1 DEF PutBack
  <2>2. CASE AtCancel(w)
    <3> DEFINE items == order[job[w].order].items
    <3>1. items \in Seq(Line) /\ job[w].todo \in Seq(Line) /\ Suffix(job[w].todo, items)
      BY <2>2, JobParts DEF OnItsWay, CancelOnItsWay
    <3> HIDE DEF items
    <3>2. IsFiniteSet(FirstUnits(items, Len(items) - Len(job[w].todo), p))
          /\ Cardinality(FirstUnits(items, Len(items) - Len(job[w].todo), p)) \in Nat
      BY <1>1, <3>1, FirstUnitsFinite
    <3> QED BY <2>2, <3>2 DEF PutBack, items
  <2> QED BY <2>1, <2>2
<1> QED BY <1>2, <1>3

\* The orders the other processes are at stay what they are to them.
OrdersKept(w) ==
    \A v \in Workers \ {w} :
        /\ AtCheckout(v) => order'[job[v].order] = order[job[v].order]
        /\ AtCancel(v) => /\ order'[job[v].order].items = order[job[v].order].items
                          /\ order'[job[v].order].status # "none"

LEMMA OthersCount ==
    ASSUME NEW w \in Workers, NEW v \in Workers \ {w}, NEW p, OrdersKept(w), job'[v] = job[v]
    PROVE  Taken(v, p)' = Taken(v, p) /\ PutBack(v, p)' = PutBack(v, p)
BY DEF OrdersKept, Taken, PutBack, AtCheckout, AtCancel

LEMMA OrdersUntouched ==
    ASSUME OnItsWay, NEW w \in Workers, order' = order
    PROVE  OrdersKept(w)
BY DEF OrdersKept, OnItsWay, CancelOnItsWay

LEMMA JobMovesOn ==
    ASSUME TypeInv, OnItsWay, NEW w \in Workers, NEW j, job' = [job EXCEPT ![w] = j],
           OrdersKept(w), CheckoutOnItsWay(w)', CancelOnItsWay(w)'
    PROVE  OnItsWay'
<1>1. job'[w] = j /\ \A v \in Workers \ {w} : job'[v] = job[v]
  BY DEF TypeInv, TypeOK
<1>2. ASSUME NEW v \in Workers \ {w} PROVE CancelOnItsWay(v)'
  BY <1>1, <1>2 DEF OnItsWay, CancelOnItsWay, OrdersKept, AtCancel
<1>3. ASSUME NEW v \in Workers \ {w} PROVE CheckoutOnItsWay(v)'
  <2> SUFFICES ASSUME AtCheckout(v)' PROVE CheckoutOnItsWay(v)'
    BY DEF CheckoutOnItsWay
  <2>1. AtCheckout(v) /\ job'[v] = job[v] /\ order'[job[v].order] = order[job[v].order]
    BY <1>1 DEF AtCheckout, OrdersKept
  <2>2. ASSUME NEW u \in Workers, AtCheckout(u)', job'[u].order = job'[v].order PROVE u = v
    <3>1. u # w
      BY <2>2 DEF CheckoutOnItsWay
    <3>2. AtCheckout(u) /\ job[u].order = job[v].order
      BY <1>1, <2>1, <2>2, <3>1 DEF AtCheckout
    <3> QED BY <2>1, <3>2 DEF OnItsWay, CheckoutOnItsWay
  <2> QED BY <2>1, <2>2 DEF OnItsWay, CheckoutOnItsWay
<1> QED BY <1>2, <1>3 DEF OnItsWay

\* A process that takes up a request has counted nothing.
LEMMA StartMoves ==
    ASSUME TypeInv, OnItsWay, NEW w \in Workers, Start(w)
    PROVE  /\ OnItsWay'
           /\ UNCHANGED <<product, latest, lock, order, miscounted>>
           /\ \A v \in Workers \ {w} : job'[v] = job[v]
           /\ \A v \in Workers, p \in Products : Taken(v, p)' = Taken(v, p) /\ PutBack(v, p)' = PutBack(v, p)
           /\ \A p \in Products : PutBack(w, p) = {}
<1>0. job[w] = Idle
  BY DEF Start, CheckoutStart, CancelStart, UpdateStart, EditStart
<1>1. UNCHANGED <<product, latest, lock, order, miscounted>>
  BY DEF Start, CheckoutStart, CancelStart, UpdateStart, EditStart, history
<1>2. OrdersKept(w)
  BY <1>1, OrdersUntouched
<1>3. \A p \in Products : Taken(w, p) = {} /\ PutBack(w, p) = {}
  BY <1>0 DEF Taken, PutBack, AtCheckout, AtCancel, Idle
<1>4. PICK j : /\ job' = [job EXCEPT ![w] = j]
               /\ CheckoutOnItsWay(w)' /\ CancelOnItsWay(w)'
               /\ \A p \in Products : Taken(w, p)' = {} /\ PutBack(w, p)' = {}
  <2>1. ASSUME NEW o \in Orders, NEW cart \in Carts, CheckoutStart(w, o, cart)
        PROVE  \E j : /\ job' = [job EXCEPT ![w] = j]
                      /\ CheckoutOnItsWay(w)' /\ CancelOnItsWay(w)'
                      /\ \A p \in Products : Taken(w, p)' = {} /\ PutBack(w, p)' = {}
    <3> DEFINE j == [at |-> "line", order |-> o, cart |-> cart, todo |-> cart]
    <3>1. job' = [job EXCEPT ![w] = j] /\ FreshOrder(o)
      BY <2>1 DEF CheckoutStart
    <3>2. job'[w] = j /\ \A v \in Workers \ {w} : job'[v] = job[v]
      BY <3>1 DEF TypeInv, TypeOK
    <3>3. cart \in Seq(Line) /\ cart # <<>>
      BY InventoryAssumption
    <3>4. Suffix(cart, cart) /\ Len(cart) - Len(cart) = 0
      BY <3>3, SuffixStart
    <3>5. order'[o] = NoOrder /\ \A v \in Workers : AtCheckout(v) => job[v].order # o
      BY <1>1, <3>1 DEF FreshOrder, AtCheckout
    <3>6. CheckoutOnItsWay(w)' /\ CancelOnItsWay(w)'
      BY <3>2, <3>4, <3>5 DEF CheckoutOnItsWay, CancelOnItsWay, AtCheckout, AtCancel
    <3>7. ASSUME NEW p \in Products PROVE Taken(w, p)' = {} /\ PutBack(w, p)' = {}
      BY <3>2, <3>4 DEF Taken, PutBack, AtCheckout, AtCancel, FirstUnits
    <3> QED BY <3>1, <3>6, <3>7
  <2>2. ASSUME NEW o \in Orders, NEW endpoint \in EndpointNames, CancelStart(w, o, endpoint)
        PROVE  \E j : /\ job' = [job EXCEPT ![w] = j]
                      /\ CheckoutOnItsWay(w)' /\ CancelOnItsWay(w)'
                      /\ \A p \in Products : Taken(w, p)' = {} /\ PutBack(w, p)' = {}
    <3> DEFINE j == [at |-> "fetch", atomic |-> endpoint = "cancel", order |-> o,
                     todo |-> order[o].items,
                     copy |-> product[Head(order[o].items).product]]
    <3>1. job' = [job EXCEPT ![w] = j] /\ order[o].status = "placed" /\ order' = order
      BY <2>2, <1>1, Zenon DEF CancelStart
    <3>2. j.at = "fetch" /\ j.order = o /\ j.todo = order[o].items
      BY Zenon
    <3> HIDE DEF j
    <3>3. job'[w] = j
      BY <3>1 DEF TypeInv, TypeOK
    <3>4. order[o].items \in Seq(Line)
      BY DEF TypeInv, TypeOK, OrderRow
    <3>5. Suffix(order[o].items, order[o].items) /\ Len(order[o].items) - Len(order[o].items) = 0
      BY <3>4, SuffixStart
    <3>6. CheckoutOnItsWay(w)' /\ CancelOnItsWay(w)'
      BY <3>1, <3>2, <3>3, <3>5 DEF CheckoutOnItsWay, CancelOnItsWay, AtCheckout, AtCancel
    <3>7. AtCancel(w)' /\ ~AtCheckout(w)' /\ order'[job'[w].order].items = order[o].items
          /\ job'[w].todo = order[o].items
      BY <3>1, <3>2, <3>3 DEF AtCheckout, AtCancel
    <3>8. ASSUME NEW p \in Products PROVE Taken(w, p)' = {} /\ PutBack(w, p)' = {}
      <4>1. FirstUnits(order[o].items, 0, p) = {}
        BY DEF FirstUnits
      <4> QED BY <3>5, <3>7, <4>1 DEF Taken, PutBack
    <3> QED BY <3>1, <3>6, <3>8
  <2>3. ASSUME NEW p \in Products, NEW status \in ProductStatus,
               NEW stock \in EditStock \cup {product[p].stock}, EditStart(w, p, stock, status)
        PROVE  \E j : /\ job' = [job EXCEPT ![w] = j]
                      /\ CheckoutOnItsWay(w)' /\ CancelOnItsWay(w)'
                      /\ \A q \in Products : Taken(w, q)' = {} /\ PutBack(w, q)' = {}
    <3> DEFINE j == [at |-> "edit", product |-> p,
                     copy |-> [product[p] EXCEPT !.stock = stock, !.status = status]]
    <3>1. job' = [job EXCEPT ![w] = j] /\ j.at = "edit"
      BY <2>3 DEF EditStart
    <3>2. job'[w].at = "edit"
      BY <3>1 DEF TypeInv, TypeOK
    <3>3. /\ CheckoutOnItsWay(w)' /\ CancelOnItsWay(w)'
          /\ \A q \in Products : Taken(w, q)' = {} /\ PutBack(w, q)' = {}
      BY <3>2 DEF CheckoutOnItsWay, CancelOnItsWay, Taken, PutBack, AtCheckout, AtCancel
    <3> QED BY <3>1, <3>3
  <2>4. ASSUME NEW o \in Orders, UpdateStart(w, o)
        PROVE  \E j : /\ job' = [job EXCEPT ![w] = j]
                      /\ CheckoutOnItsWay(w)' /\ CancelOnItsWay(w)'
                      /\ \A p \in Products : Taken(w, p)' = {} /\ PutBack(w, p)' = {}
    <3> DEFINE j == [at |-> "update", order |-> o]
    <3>1. job' = [job EXCEPT ![w] = j] /\ j.at = "update"
      BY <2>4 DEF UpdateStart
    <3>2. job'[w].at = "update"
      BY <3>1 DEF TypeInv, TypeOK
    <3>3. /\ CheckoutOnItsWay(w)' /\ CancelOnItsWay(w)'
          /\ \A p \in Products : Taken(w, p)' = {} /\ PutBack(w, p)' = {}
      BY <3>2 DEF CheckoutOnItsWay, CancelOnItsWay, Taken, PutBack, AtCheckout, AtCancel
    <3> QED BY <3>1, <3>3
  <2> QED BY <2>1, <2>2, <2>3, <2>4 DEF Start
<1>5. OnItsWay'
  BY <1>2, <1>4, JobMovesOn
<1>6. \A v \in Workers \ {w} : job'[v] = job[v]
  BY <1>4 DEF TypeInv, TypeOK
<1> QED BY <1>1, <1>2, <1>3, <1>4, <1>5, <1>6, OthersCount

\* The line of a cart that is done next counts from then on.
LEMMA CheckoutLineMoves ==
    ASSUME TypeInv, OnItsWay, NEW w \in Workers, CheckoutLine(w)
    PROVE  LET line == Head(job[w].todo) IN
           /\ line.product \in Products /\ line.qty \in Nat \ {0}
           /\ OnItsWay'
           /\ \A v \in Workers \ {w} : job'[v] = job[v]
           /\ \A v \in Workers \ {w}, p \in Products :
                 Taken(v, p)' = Taken(v, p) /\ PutBack(v, p)' = PutBack(v, p)
           /\ \A p \in Products :
                 /\ PutBack(w, p) = {} /\ PutBack(w, p)' = {}
                 /\ p # line.product => Taken(w, p)' = Taken(w, p)
                 /\ p = line.product => Cardinality(Taken(w, p)') = Cardinality(Taken(w, p)) + line.qty
<1> DEFINE line == Head(job[w].todo)
           cart == job[w].cart
           n == Len(cart) - Len(job[w].todo)
           j == [job[w] EXCEPT !.todo = Tail(@),
                               !.at = IF Len(job[w].todo) = 1 THEN "mail" ELSE "line"]
<1>1. /\ AtCheckout(w) /\ job[w].at = "line"
      /\ job[w] \in CheckoutJob /\ cart \in Seq(Line) /\ job[w].todo \in Seq(Line)
      /\ job[w].todo # <<>>
  BY JobParts DEF CheckoutLine, AtCheckout
<1>2. Suffix(job[w].todo, cart) /\ order[job[w].order] = NoOrder
      /\ \A v \in Workers : AtCheckout(v) /\ job[v].order = job[w].order => v = w
  BY <1>1 DEF OnItsWay, CheckoutOnItsWay
<1>3. /\ n \in Nat /\ n < Len(cart) /\ line = cart[n + 1]
      /\ Suffix(Tail(job[w].todo), cart)
      /\ Len(cart) - Len(Tail(job[w].todo)) = n + 1
      /\ Len(job[w].todo) = 1 => Tail(job[w].todo) = <<>>
  BY <1>1, <1>2, SuffixStep
<1>4. line.product \in Products /\ line.qty \in Nat \ {0}
  BY <1>1, LineSeq DEF Line
<1>5. job' = [job EXCEPT ![w] = j] /\ order' = order
  BY DEF CheckoutLine
<1>6. /\ j.todo = Tail(job[w].todo) /\ j.cart = cart /\ j.order = job[w].order
      /\ j.at = IF Len(job[w].todo) = 1 THEN "mail" ELSE "line"
  BY <1>1 DEF CheckoutJob
<1> HIDE DEF j
<1>7. job'[w] = j /\ \A v \in Workers \ {w} : job'[v] = job[v]
  BY <1>5 DEF TypeInv, TypeOK
<1>8. OrdersKept(w)
  BY <1>5, OrdersUntouched
<1>9. AtCheckout(w)' /\ ~AtCancel(w) /\ ~AtCancel(w)'
  BY <1>1, <1>6, <1>7 DEF AtCheckout, AtCancel
<1>10. \A v \in Workers : AtCheckout(v)' => AtCheckout(v) /\ job'[v].order = job[v].order
  BY <1>1, <1>6, <1>7 DEF AtCheckout
<1>11. CheckoutOnItsWay(w)'
  BY <1>2, <1>3, <1>5, <1>6, <1>7, <1>10 DEF CheckoutOnItsWay
<1>12. OnItsWay'
  BY <1>5, <1>8, <1>9, <1>11, JobMovesOn DEF CancelOnItsWay
<1>13. ASSUME NEW p \in Products
       PROVE  /\ PutBack(w, p) = {} /\ PutBack(w, p)' = {}
              /\ Taken(w, p) = FirstUnits(cart, n, p) /\ Taken(w, p)' = FirstUnits(cart, n + 1, p)
  BY <1>1, <1>3, <1>6, <1>7, <1>9 DEF PutBack, Taken
<1> HIDE DEF n, line, cart
<1>14. ASSUME NEW p \in Products
       PROVE  /\ p # line.product => Taken(w, p)' = Taken(w, p)
              /\ p = line.product => Cardinality(Taken(w, p)') = Cardinality(Taken(w, p)) + line.qty
  <2>0. cart \in Seq(Line) /\ n \in Nat /\ n < Len(cart)
    BY <1>1, <1>3
  <2>1. /\ cart[n + 1].product # p => FirstUnits(cart, n + 1, p) = FirstUnits(cart, n, p)
        /\ Cardinality(FirstUnits(cart, n + 1, p)) = Cardinality(FirstUnits(cart, n, p))
              + IF cart[n + 1].product = p THEN cart[n + 1].qty ELSE 0
    BY <2>0, FirstUnitsGrow
  <2> QED BY <1>3, <1>13, <2>1
<1> QED BY <1>4, <1>7, <1>8, <1>12, <1>13, <1>14, OthersCount DEF line

\* The item that is put back next counts from then on.
LEMMA RestoreStoreMoves ==
    ASSUME TypeInv, OnItsWay, NEW w \in Workers, RestoreStore(w)
    PROVE  LET line == Head(job[w].todo) IN
           /\ line.product \in Products /\ line.qty \in Nat \ {0} /\ job[w].copy \in Row
           /\ OnItsWay'
           /\ \A v \in Workers \ {w} : job'[v] = job[v]
           /\ \A v \in Workers \ {w}, p \in Products :
                 Taken(v, p)' = Taken(v, p) /\ PutBack(v, p)' = PutBack(v, p)
           /\ \A p \in Products :
                 /\ Taken(w, p) = {} /\ Taken(w, p)' = {}
                 /\ p # line.product => PutBack(w, p)' = PutBack(w, p)
                 /\ p = line.product => Cardinality(PutBack(w, p)') = Cardinality(PutBack(w, p)) + line.qty
           /\ job'[w].order = job[w].order
<1> DEFINE line == Head(job[w].todo)
           items == order[job[w].order].items
           n == Len(items) - Len(job[w].todo)
           j == [job[w] EXCEPT !.todo = Tail(@),
                               !.at = IF Len(job[w].todo) = 1 THEN "close" ELSE "fetch"]
<1>1. /\ AtCancel(w) /\ job[w].at = "store"
      /\ job[w] \in CancelJob /\ items \in Seq(Line) /\ job[w].todo \in Seq(Line)
      /\ job[w].todo # <<>> /\ job[w].copy \in Row
  BY JobParts DEF RestoreStore, AtCancel
<1>2. Suffix(job[w].todo, items) /\ order[job[w].order].status # "none"
  BY <1>1 DEF OnItsWay, CancelOnItsWay
<1>3. /\ n \in Nat /\ n < Len(items) /\ line = items[n + 1]
      /\ Suffix(Tail(job[w].todo), items)
      /\ Len(items) - Len(Tail(job[w].todo)) = n + 1
      /\ Len(job[w].todo) = 1 => Tail(job[w].todo) = <<>>
  BY <1>1, <1>2, SuffixStep
<1>4. line.product \in Products /\ line.qty \in Nat \ {0}
  BY <1>1, LineSeq DEF Line
<1>5. job' = [job EXCEPT ![w] = j] /\ order' = order
  BY DEF RestoreStore
<1>6. /\ j.todo = Tail(job[w].todo) /\ j.order = job[w].order
      /\ j.at = IF Len(job[w].todo) = 1 THEN "close" ELSE "fetch"
  BY <1>1 DEF CancelJob
<1> HIDE DEF j
<1>7. job'[w] = j /\ \A v \in Workers \ {w} : job'[v] = job[v]
  BY <1>5 DEF TypeInv, TypeOK
<1>8. OrdersKept(w)
  BY <1>5, OrdersUntouched
<1>9. AtCancel(w)' /\ ~AtCheckout(w) /\ ~AtCheckout(w)'
  BY <1>1, <1>6, <1>7 DEF AtCheckout, AtCancel
<1>10. order'[job'[w].order] = order[job[w].order]
  BY <1>5, <1>6, <1>7
<1>11. CancelOnItsWay(w)'
  BY <1>2, <1>3, <1>6, <1>7, <1>10 DEF CancelOnItsWay
<1>12. OnItsWay'
  BY <1>5, <1>8, <1>9, <1>11, JobMovesOn DEF CheckoutOnItsWay
<1>13. ASSUME NEW p \in Products
       PROVE  /\ Taken(w, p) = {} /\ Taken(w, p)' = {}
              /\ PutBack(w, p) = FirstUnits(items, n, p) /\ PutBack(w, p)' = FirstUnits(items, n + 1, p)
  BY <1>1, <1>3, <1>6, <1>7, <1>9, <1>10 DEF PutBack, Taken
<1> HIDE DEF n, line, items
<1>14. ASSUME NEW p \in Products
       PROVE  /\ p # line.product => PutBack(w, p)' = PutBack(w, p)
              /\ p = line.product => Cardinality(PutBack(w, p)') = Cardinality(PutBack(w, p)) + line.qty
  <2>0. items \in Seq(Line) /\ n \in Nat /\ n < Len(items)
    BY <1>1, <1>3
  <2>1. /\ items[n + 1].product # p => FirstUnits(items, n + 1, p) = FirstUnits(items, n, p)
        /\ Cardinality(FirstUnits(items, n + 1, p)) = Cardinality(FirstUnits(items, n, p))
              + IF items[n + 1].product = p THEN items[n + 1].qty ELSE 0
    BY <2>0, FirstUnitsGrow
  <2> QED BY <1>3, <1>13, <2>1
<1> QED BY <1>1, <1>4, <1>6, <1>7, <1>8, <1>12, <1>13, <1>14, OthersCount DEF line

\* The mail and the fetch of a row count nothing.
LEMMA QuietMoves ==
    ASSUME TypeInv, OnItsWay, NEW w \in Workers, CheckoutMail(w) \/ RestoreFetch(w)
    PROVE  /\ OnItsWay'
           /\ UNCHANGED <<product, latest, lock, order, miscounted>>
           /\ \A v \in Workers, p \in Products : Taken(v, p)' = Taken(v, p) /\ PutBack(v, p)' = PutBack(v, p)
           /\ job'[w].order = job[w].order
           /\ \A v \in Workers \ {w} : job'[v] = job[v]
<1>1. UNCHANGED <<product, latest, lock, order, miscounted>>
  BY DEF CheckoutMail, RestoreFetch, history
<1>2. OrdersKept(w)
  BY <1>1, OrdersUntouched
<1>3. PICK j : /\ job' = [job EXCEPT ![w] = j]
               /\ j.order = job[w].order /\ j.todo = job[w].todo
               /\ \/ /\ job[w].at = "mail" /\ j.at = "commit" /\ j.cart = job[w].cart
                  \/ /\ job[w].at = "fetch" /\ j.at = "store"
  <2>1. CASE CheckoutMail(w)
    <3>1. job[w] \in CheckoutJob /\ job[w].at = "mail"
      BY <2>1, JobParts DEF CheckoutMail, AtCheckout
    <3> DEFINE j == [job[w] EXCEPT !.at = "commit"]
    <3>2. /\ j.order = job[w].order /\ j.todo = job[w].todo /\ j.cart = job[w].cart
          /\ j.at = "commit"
      BY <3>1 DEF CheckoutJob
    <3>3. job' = [job EXCEPT ![w] = j]
      BY <2>1 DEF CheckoutMail
    <3> QED BY <3>1, <3>2, <3>3
  <2>2. CASE RestoreFetch(w)
    <3>1. job[w] \in CancelJob /\ job[w].at = "fetch"
      BY <2>2, JobParts DEF RestoreFetch, AtCancel
    <3> DEFINE j == [job[w] EXCEPT !.at = "store", !.copy = Visible(w, Head(job[w].todo).product)]
    <3>2. j.order = job[w].order /\ j.todo = job[w].todo /\ j.at = "store"
      BY <3>1 DEF CancelJob
    <3>3. job' = [job EXCEPT ![w] = j]
      BY <2>2 DEF RestoreFetch
    <3> QED BY <3>1, <3>2, <3>3
  <2> QED BY <2>1, <2>2
<1>4. job'[w] = j /\ \A v \in Workers \ {w} : job'[v] = job[v]
  BY <1>3 DEF TypeInv, TypeOK
<1>5. /\ AtCheckout(w)' <=> AtCheckout(w)
      /\ AtCancel(w)' <=> AtCancel(w)
      /\ AtCheckout(w) => job'[w].cart = job[w].cart /\ job[w].at # "line"
      /\ job'[w].order = job[w].order /\ job'[w].todo = job[w].todo
      /\ AtCancel(w)' => job'[w].at # "close"
  BY <1>3, <1>4 DEF AtCheckout, AtCancel
<1>6. \A v \in Workers : AtCheckout(v)' => AtCheckout(v) /\ job'[v].order = job[v].order
  BY <1>4, <1>5 DEF AtCheckout
<1>7. CheckoutOnItsWay(w)'
  BY <1>1, <1>5, <1>6 DEF OnItsWay, CheckoutOnItsWay
<1>8. CancelOnItsWay(w)'
  BY <1>1, <1>5 DEF OnItsWay, CancelOnItsWay
<1>9. OnItsWay'
  BY <1>2, <1>3, <1>7, <1>8, JobMovesOn
<1>10. \A p \in Products : Taken(w, p)' = Taken(w, p) /\ PutBack(w, p)' = PutBack(w, p)
  BY <1>1, <1>5 DEF Taken, PutBack
<1> QED BY <1>1, <1>2, <1>4, <1>5, <1>9, <1>10, OthersCount

\* A process that is done, or has failed, counts nothing any more.
LEMMA IdleMoves ==
    ASSUME TypeInv, OnItsWay, NEW w \in Workers, job' = [job EXCEPT ![w] = Idle], OrdersKept(w)
    PROVE  /\ OnItsWay'
           /\ \A v \in Workers \ {w} : job'[v] = job[v]
           /\ \A v \in Workers \ {w}, p \in Products :
                 Taken(v, p)' = Taken(v, p) /\ PutBack(v, p)' = PutBack(v, p)
           /\ \A p \in Products : Taken(w, p)' = {} /\ PutBack(w, p)' = {}
<1>1. job'[w] = Idle /\ \A v \in Workers \ {w} : job'[v] = job[v]
  BY DEF TypeInv, TypeOK
<1>2. ~AtCheckout(w)' /\ ~AtCancel(w)'
  BY <1>1 DEF AtCheckout, AtCancel, Idle
<1>3. OnItsWay'
  BY <1>2, JobMovesOn DEF CheckoutOnItsWay, CancelOnItsWay
<1> QED BY <1>1, <1>2, <1>3, OthersCount DEF Taken, PutBack

\* A checkout commits an order of all it has taken.
LEMMA CheckoutCommitMoves ==
    ASSUME TypeInv, OnItsWay, NEW w \in Workers, CheckoutCommit(w)
    PROVE  LET o == job[w].order IN
           /\ o \in Orders /\ order[o].status = "none"
           /\ \A x \in Orders \ {o} : order'[x] = order[x]
           /\ order'[o] = [status |-> "placed", items |-> job[w].cart]
           /\ OrdersKept(w)
           /\ \A p \in Products : PutBack(w, p) = {} /\ Taken(w, p) = Units(job[w].cart, p)
<1> DEFINE o == job[w].order
           cart == job[w].cart
<1>1. AtCheckout(w) /\ job[w].at = "commit" /\ o \in Orders /\ cart \in Seq(Line)
  BY JobParts DEF CheckoutCommit, AtCheckout
<1>2. /\ job[w].todo = <<>> /\ order[o] = NoOrder
      /\ \A v \in Workers \ {w} : AtCheckout(v) => job[v].order # o
  BY <1>1 DEF OnItsWay, CheckoutOnItsWay
<1>3. order[o].status = "none"
  BY <1>2 DEF NoOrder
<1>4. order' = [order EXCEPT ![o] = [status |-> "placed", items |-> cart]]
  BY DEF CheckoutCommit
<1>5. /\ \A x \in Orders \ {o} : order'[x] = order[x]
      /\ order'[o] = [status |-> "placed", items |-> cart]
  BY <1>1, <1>4 DEF TypeInv, TypeOK
<1>6. OrdersKept(w)
  <2> SUFFICES ASSUME NEW v \in Workers \ {w}, AtCheckout(v) \/ AtCancel(v)
               PROVE  order'[job[v].order] = order[job[v].order]
                      /\ (AtCancel(v) => order[job[v].order].status # "none")
    BY DEF OrdersKept
  <2>1. job[v].order \in Orders
    BY JobParts
  <2>2. AtCancel(v) => order[job[v].order].status # "none"
    BY DEF OnItsWay, CancelOnItsWay
  <2>3. job[v].order # o
    BY <1>2, <1>3, <2>2
  <2> QED BY <1>5, <2>1, <2>2, <2>3
<1>7. ASSUME NEW p \in Products PROVE PutBack(w, p) = {} /\ Taken(w, p) = Units(cart, p)
  <2>1. Len(cart) \in Nat /\ Len(<<>>) = 0
    BY <1>1, LenProperties, EmptySeq
  <2>2. Len(cart) - Len(job[w].todo) = Len(cart)
    BY <1>2, <2>1
  <2>3. Taken(w, p) = FirstUnits(cart, Len(cart), p)
    BY <1>1, <2>2 DEF Taken
  <2>4. PutBack(w, p) = {}
    BY <1>1 DEF PutBack, AtCancel
  <2> QED BY <1>1, <2>3, <2>4, UnitsAreFirstUnits
<1> QED BY <1>1, <1>3, <1>5, <1>6, <1>7

\* A cancellation ends with all items of its order put back.
LEMMA CancelCloseMoves ==
    ASSUME TypeInv, OnItsWay, NEW w \in Workers, CancelClose(w)
    PROVE  LET o == job[w].order IN
           /\ o \in Orders /\ order[o].status \in {"placed", "cancelled"}
           /\ \A x \in Orders \ {o} : order'[x] = order[x]
           /\ order'[o].status = "cancelled" /\ order'[o].items = order[o].items
           /\ order[o].items \in Seq(Line)
           /\ OrdersKept(w)
           /\ \A p \in Products : Taken(w, p) = {} /\ PutBack(w, p) = Units(order[o].items, p)
<1> DEFINE o == job[w].order
           items == order[o].items
<1>1. AtCancel(w) /\ job[w].at = "close" /\ o \in Orders /\ items \in Seq(Line)
  BY JobParts DEF CancelClose, AtCancel
<1>2. job[w].todo = <<>> /\ order[o].status # "none"
  BY <1>1 DEF OnItsWay, CancelOnItsWay
<1>3. order[o].status \in {"placed", "cancelled"}
  BY <1>1, <1>2 DEF TypeInv, TypeOK, OrderRow
<1>4. order' = [order EXCEPT ![o].status = "cancelled"]
  BY DEF CancelClose
<1>5. /\ \A x \in Orders \ {o} : order'[x] = order[x]
      /\ order'[o].status = "cancelled" /\ order'[o].items = items
  BY <1>1, <1>4 DEF TypeInv, TypeOK, OrderRow
<1>6. OrdersKept(w)
  <2>1. ASSUME NEW v \in Workers \ {w}, AtCheckout(v)
        PROVE  order'[job[v].order] = order[job[v].order]
    <3>1. job[v].order \in Orders /\ order[job[v].order].status = "none"
      BY <2>1, JobParts DEF OnItsWay, CheckoutOnItsWay, NoOrder
    <3> QED BY <1>2, <1>5, <3>1
  <2>2. ASSUME NEW v \in Workers \ {w}, AtCancel(v)
        PROVE  /\ order'[job[v].order].items = order[job[v].order].items
               /\ order'[job[v].order].status # "none"
    <3>1. job[v].order \in Orders /\ order[job[v].order].status # "none"
      BY <2>2, JobParts DEF OnItsWay, CancelOnItsWay
    <3> QED BY <1>5, <3>1
  <2> QED BY <2>1, <2>2 DEF OrdersKept
<1>7. ASSUME NEW p \in Products PROVE Taken(w, p) = {} /\ PutBack(w, p) = Units(items, p)
  <2>1. Len(items) \in Nat /\ Len(<<>>) = 0
    BY <1>1, LenProperties, EmptySeq
  <2>2. Len(items) - Len(job[w].todo) = Len(items)
    BY <1>2, <2>1
  <2>3. PutBack(w, p) = FirstUnits(items, Len(items), p)
    BY <1>1, <2>2 DEF PutBack
  <2>4. Taken(w, p) = {}
    BY <1>1 DEF Taken, AtCheckout, AtCancel
  <2> QED BY <1>1, <2>3, <2>4, UnitsAreFirstUnits
<1> QED BY <1>1, <1>3, <1>5, <1>6, <1>7

\* A status that is written makes an order placed, and leaves its items alone.
LEMMA UpdateSaveMoves ==
    ASSUME TypeInv, OnItsWay, NEW w \in Workers, UpdateSave(w)
    PROVE  LET o == job[w].order IN
           /\ o \in Orders /\ order[o].status \in {"placed", "cancelled"}
           /\ \A x \in Orders \ {o} : order'[x] = order[x]
           /\ order'[o].status = "placed" /\ order'[o].items = order[o].items
           /\ order[o].status = "placed" => order' = order /\ miscounted' = miscounted
           /\ order[o].items \in Seq(Line)
           /\ order[o].status = "cancelled" =>
                 miscounted' = miscounted \cup ProductsOf(order[o].items)
           /\ UNCHANGED <<product, latest, lock>>
           /\ job' = [job EXCEPT ![w] = Idle]
           /\ OrdersKept(w)
<1> DEFINE o == job[w].order
<1>1. o \in Orders /\ order[o].status # "none"
  BY JobKinds DEF UpdateSave, UpdateJob, TypeInv, TodoLeft
<1>2. order[o] \in OrderRow
  BY <1>1 DEF TypeInv, TypeOK
<1>3. order[o].status \in {"placed", "cancelled"} /\ order[o].items \in Seq(Line)
  BY <1>1, <1>2 DEF OrderRow
<1>4. /\ order' = [order EXCEPT ![o].status = "placed"]
      /\ UNCHANGED <<product, latest, lock>>
      /\ job' = [job EXCEPT ![w] = Idle]
      /\ miscounted' = IF order[o].status = "cancelled"
                       THEN miscounted \cup ProductsOf(order[o].items) ELSE miscounted
  BY DEF UpdateSave
<1>5. /\ \A x \in Orders \ {o} : order'[x] = order[x]
      /\ order'[o].status = "placed" /\ order'[o].items = order[o].items
  BY <1>1, <1>2, <1>4 DEF TypeInv, TypeOK, OrderRow
<1>6. order[o].status = "placed" => order' = order
  <2>1. order[o].status = "placed" => [order[o] EXCEPT !.status = "placed"] = order[o]
    BY <1>2 DEF OrderRow
  <2>2. order' = [order EXCEPT ![o] = [order[o] EXCEPT !.status = "placed"]]
    BY <1>4
  <2> QED BY <1>1, <2>1, <2>2 DEF TypeInv, TypeOK
<1>7. OrdersKept(w)
  <2>1. ASSUME NEW v \in Workers \ {w}, AtCheckout(v)
        PROVE  order'[job[v].order] = order[job[v].order]
    <3>1. job[v].order \in Orders /\ order[job[v].order].status = "none"
      BY <2>1, JobParts DEF OnItsWay, CheckoutOnItsWay, NoOrder
    <3> QED BY <1>1, <1>5, <3>1
  <2>2. ASSUME NEW v \in Workers \ {w}, AtCancel(v)
        PROVE  /\ order'[job[v].order].items = order[job[v].order].items
               /\ order'[job[v].order].status # "none"
    <3>1. job[v].order \in Orders /\ order[job[v].order].status # "none"
      BY <2>2, JobParts DEF OnItsWay, CancelOnItsWay
    <3> QED BY <1>5, <3>1
  <2> QED BY <2>1, <2>2 DEF OrdersKept
<1> QED BY <1>1, <1>3, <1>4, <1>5, <1>6, <1>7

\* A product none of whose units an order holds is none of its products.
LEMMA NoUnits ==
    ASSUME NEW items \in Seq(Line), NEW p, p \notin ProductsOf(items)
    PROVE  Units(items, p) = {}
BY LenProperties DEF Units, ProductsOf, Range

\* An artisan's edit and a status other than cancelled count nothing.
LEMMA OthersCountNothing ==
    ASSUME NEW w \in Workers, job[w].at \in {"edit", "update"}, NEW p
    PROVE  Taken(w, p) = {} /\ PutBack(w, p) = {}
BY DEF Taken, PutBack, AtCheckout, AtCancel

\* Every process stays on its way.
LEMMA NextOnItsWay == TypeInv /\ OnItsWay /\ [Next]_vars => OnItsWay'
<1> SUFFICES ASSUME TypeInv, OnItsWay, [Next]_vars PROVE OnItsWay'
  OBVIOUS
<1>1. ASSUME NEW w \in Workers, Start(w) PROVE OnItsWay'
  BY <1>1, StartMoves
<1>2. ASSUME NEW w \in Workers, Step(w) PROVE OnItsWay'
  <2>1. CASE CheckoutLine(w)
    BY <2>1, CheckoutLineMoves
  <2>2. CASE RestoreStore(w)
    BY <2>2, RestoreStoreMoves
  <2>3. CASE CheckoutMail(w) \/ RestoreFetch(w)
    BY <2>3, QuietMoves
  <2>4. CASE CheckoutCommit(w)
    BY <2>4, CheckoutCommitMoves, IdleMoves DEF CheckoutCommit
  <2>5. CASE CancelClose(w)
    BY <2>5, CancelCloseMoves, IdleMoves DEF CancelClose
  <2>6. CASE EditSave(w)
    BY <2>6, OrdersUntouched, IdleMoves DEF EditSave
  <2>7. CASE UpdateSave(w)
    BY <2>7, UpdateSaveMoves, IdleMoves
  <2> QED BY <1>2, <2>1, <2>2, <2>3, <2>4, <2>5, <2>6, <2>7 DEF Step
<1>3. ASSUME NEW w \in Workers, RollbackTxn(w) PROVE OnItsWay'
  BY <1>3, OrdersUntouched, IdleMoves DEF RollbackTxn
<1>4. ASSUME UNCHANGED <<order, job>> PROVE OnItsWay'
  BY <1>4 DEF OnItsWay, CheckoutOnItsWay, CancelOnItsWay, AtCheckout, AtCancel
<1> QED BY <1>1, <1>2, <1>3, <1>4 DEF Next, Fail, DeadlockVictim, Archive, vars

LEMMA InitOnItsWay ==
    ASSUME Init
    PROVE  OnItsWay /\ \A w \in Workers, p \in Products : Taken(w, p) = {} /\ PutBack(w, p) = {}
BY DEF Init, OnItsWay, CheckoutOnItsWay, CancelOnItsWay, Taken, PutBack, AtCheckout, AtCancel, Idle

-----------------------------------------------------------------------------
(* Rows, locks and the two ledgers                                         *)

LEMMA WriteInTxnRows ==
    ASSUME TypeInv, NEW w \in Workers, NEW q \in Products, NEW row, WriteInTxn(w, q, row)
    PROVE  /\ product' = product
           /\ lock[q] \in {NoWorker, w} /\ lock'[q] = w /\ latest'[q] = row
           /\ \A p \in Products \ {q} : lock'[p] = lock[p] /\ latest'[p] = latest[p]
BY DEF TypeInv, TypeOK, WriteInTxn, Free

LEMMA WriteNowRows ==
    ASSUME TypeInv, NEW q \in Products, NEW row, WriteNow(q, row)
    PROVE  /\ lock' = lock
           /\ lock[q] = NoWorker /\ latest'[q] = row /\ product'[q] = row
           /\ \A p \in Products \ {q} : latest'[p] = latest[p] /\ product'[p] = product[p]
BY DEF TypeInv, TypeOK, WriteNow

LEMMA CommitRows ==
    ASSUME TypeInv, NEW w \in Workers, CommitTxn(w), NEW p \in Products
    PROVE  /\ latest'[p] = latest[p]
           /\ lock[p] = w => product'[p] = latest[p] /\ lock'[p] = NoWorker
           /\ lock[p] # w => product'[p] = product[p] /\ lock'[p] = lock[p]
BY DEF TypeInv, TypeOK, CommitTxn, Unlocked, Visible

LEMMA RollbackRows ==
    ASSUME TypeInv, NEW w \in Workers, RollbackTxn(w), NEW p \in Products
    PROVE  /\ product'[p] = product[p]
           /\ lock[p] = w => latest'[p] = product[p] /\ lock'[p] = NoWorker
           /\ lock[p] # w => latest'[p] = latest[p] /\ lock'[p] = lock[p]
BY DEF TypeInv, TypeOK, RollbackTxn, Unlocked

\* A row nobody has locked is committed, and a checkout has locked what it takes.
Locked(p) ==
    /\ lock[p] = NoWorker => latest[p] = product[p]
    /\ \A w \in Workers : Taken(w, p) # {} => lock[p] = w

LEMMA NextLocked ==
    ASSUME TypeInv, OnItsWay, [Next]_vars, NEW p \in Products, Locked(p)
    PROVE  Locked(p)'
<1> USE DEF Locked
<1>0. NoWorker \notin Workers
  BY InventoryAssumption
<1>1. ASSUME NEW w \in Workers, Start(w) PROVE Locked(p)'
  BY <1>1, StartMoves
<1>2. ASSUME NEW w \in Workers, Step(w) PROVE Locked(p)'
  <2>1. CASE CheckoutLine(w)
    <3> DEFINE line == Head(job[w].todo)
    <3>1. /\ line.product \in Products
          /\ \A v \in Workers \ {w} : Taken(v, p)' = Taken(v, p)
          /\ p # line.product => Taken(w, p)' = Taken(w, p)
      BY <2>1, CheckoutLineMoves
    <3>2. WriteInTxn(w, line.product, Sold(latest[line.product], line.qty))
      BY <2>1 DEF CheckoutLine
    <3> HIDE DEF line
    <3>3. /\ product' = product
          /\ lock[line.product] \in {NoWorker, w} /\ lock'[line.product] = w
          /\ \A q \in Products \ {line.product} : lock'[q] = lock[q] /\ latest'[q] = latest[q]
      BY <3>1, <3>2, WriteInTxnRows
    <3>4. CASE p = line.product
      BY <1>0, <3>1, <3>3, <3>4
    <3>5. CASE p # line.product
      BY <3>1, <3>3, <3>5
    <3> QED BY <3>4, <3>5
  <2>2. CASE RestoreStore(w)
    <3> DEFINE line == Head(job[w].todo)
               row == Restored(latest[line.product], job[w].copy, line.qty)
    <3>1. /\ line.product \in Products
          /\ \A v \in Workers \ {w} : Taken(v, p)' = Taken(v, p)
          /\ Taken(w, p) = {} /\ Taken(w, p)' = {}
      BY <2>2, RestoreStoreMoves
    <3>2. WriteInTxn(w, line.product, row) \/ WriteNow(line.product, row)
      BY <2>2 DEF RestoreStore
    <3> HIDE DEF line, row
    <3>3. CASE WriteInTxn(w, line.product, row)
      <4>1. /\ product' = product
            /\ lock[line.product] \in {NoWorker, w} /\ lock'[line.product] = w
            /\ \A q \in Products \ {line.product} : lock'[q] = lock[q] /\ latest'[q] = latest[q]
        BY <3>1, <3>3, WriteInTxnRows
      <4>2. CASE p = line.product
        BY <1>0, <3>1, <4>1, <4>2
      <4>3. CASE p # line.product
        BY <3>1, <4>1, <4>3
      <4> QED BY <4>2, <4>3
    <3>4. CASE WriteNow(line.product, row)
      BY <3>1, <3>4, WriteNowRows
    <3> QED BY <3>2, <3>3, <3>4
  <2>3. CASE CheckoutMail(w) \/ RestoreFetch(w)
    BY <2>3, QuietMoves
  <2>4. CASE CheckoutCommit(w) \/ CancelClose(w)
    <3>1. CommitTxn(w) /\ job' = [job EXCEPT ![w] = Idle] /\ OrdersKept(w)
      BY <2>4, CheckoutCommitMoves, CancelCloseMoves DEF CheckoutCommit, CancelClose
    <3>2. /\ \A v \in Workers \ {w} : Taken(v, p)' = Taken(v, p)
          /\ Taken(w, p)' = {}
      BY <3>1, IdleMoves
    <3>3. /\ latest'[p] = latest[p]
          /\ lock[p] = w => product'[p] = latest[p] /\ lock'[p] = NoWorker
          /\ lock[p] # w => product'[p] = product[p] /\ lock'[p] = lock[p]
      BY <3>1, CommitRows
    <3>4. ASSUME NEW v \in Workers, Taken(v, p)' # {} PROVE lock'[p] = v
      BY <3>2, <3>3, <3>4
    <3> QED BY <1>0, <3>3, <3>4
  <2>5. CASE EditSave(w)
    <3>1. job' = [job EXCEPT ![w] = Idle] /\ OrdersKept(w) /\ job[w].product \in Products
      BY <2>5, OrdersUntouched, JobKinds DEF EditSave, EditJob, TypeInv
    <3>2. WriteNow(job[w].product, Normalised(job[w].copy))
      BY <2>5 DEF EditSave
    <3>3. /\ \A v \in Workers \ {w} : Taken(v, p)' = Taken(v, p)
          /\ Taken(w, p)' = {}
      BY <3>1, IdleMoves
    <3>4. /\ lock' = lock /\ lock[job[w].product] = NoWorker
          /\ latest'[job[w].product] = product'[job[w].product]
          /\ \A q \in Products \ {job[w].product} : latest'[q] = latest[q] /\ product'[q] = product[q]
      BY <3>1, <3>2, WriteNowRows
    <3>5. ASSUME NEW v \in Workers, Taken(v, p)' # {} PROVE lock'[p] = v
      BY <3>3, <3>4, <3>5
    <3> QED BY <3>4, <3>5
  <2>6. CASE UpdateSave(w)
    <3>1. /\ UNCHANGED <<product, latest, lock>>
          /\ job' = [job EXCEPT ![w] = Idle] /\ OrdersKept(w)
      BY <2>6, UpdateSaveMoves
    <3>2. /\ \A v \in Workers \ {w} : Taken(v, p)' = Taken(v, p)
          /\ Taken(w, p)' = {}
      BY <3>1, IdleMoves
    <3> QED BY <3>1, <3>2
  <2> QED BY <1>2, <2>1, <2>2, <2>3, <2>4, <2>5, <2>6 DEF Step
<1>3. ASSUME NEW w \in Workers, RollbackTxn(w) PROVE Locked(p)'
  <2>1. job' = [job EXCEPT ![w] = Idle] /\ OrdersKept(w)
    BY <1>3, OrdersUntouched DEF RollbackTxn
  <2>2. /\ \A v \in Workers \ {w} : Taken(v, p)' = Taken(v, p)
        /\ Taken(w, p)' = {}
    BY <2>1, IdleMoves
  <2>3. /\ product'[p] = product[p]
        /\ lock[p] = w => latest'[p] = product[p] /\ lock'[p] = NoWorker
        /\ lock[p] # w => latest'[p] = latest[p] /\ lock'[p] = lock[p]
    BY <1>3, RollbackRows
  <2>4. ASSUME NEW v \in Workers, Taken(v, p)' # {} PROVE lock'[p] = v
    BY <2>2, <2>3, <2>4
  <2> QED BY <2>3, <2>4
<1>4. ASSUME NEW q \in Products, Archive(q) PROVE Locked(p)'
  <2>1. WriteNow(q, [latest[q] EXCEPT !.status = "archived", !.is_active = FALSE]) /\ job' = job
    BY <1>4 DEF Archive
  <2>2. \A v \in Workers : Taken(v, p)' = Taken(v, p)
    BY <2>1 DEF Taken, AtCheckout
  <2> QED BY <2>1, <2>2, WriteNowRows
<1>5. CASE UNCHANGED vars
  <2>1. \A v \in Workers : Taken(v, p)' = Taken(v, p)
    BY <1>5 DEF vars, Taken, AtCheckout
  <2> QED BY <1>5, <2>1 DEF vars
<1> QED BY <1>1, <1>2, <1>3, <1>4, <1>5 DEF Next, Fail, DeadlockVictim

LEMMA UnitsOfOrders ==
    ASSUME NEW p, NEW statuses
    PROVE  UnitsOf(p, statuses) = UnitsIn(order, p, statuses)
BY DEF UnitsOf, UnitsIn

\* The sales of a row: those of the orders, and in an open transaction also
\* what its checkout has taken so far.
SalesBooks(p) ==
    /\ IsFiniteSet(UnitsOf(p, {"placed", "cancelled"}))
    /\ product[p].total_sales = Ordered(p, {"placed", "cancelled"})
    /\ \A w \in Workers : lock[p] = w =>
          latest[p].total_sales = product[p].total_sales + Cardinality(Taken(w, p))

\* A step that leaves the orders and the sales of the committed row alone.
LEMMA SalesBooksStay ==
    ASSUME NEW p \in Products, SalesBooks(p), order' = order,
           product'[p].total_sales = product[p].total_sales,
           \A w \in Workers : lock'[p] = w =>
              latest'[p].total_sales = product[p].total_sales + Cardinality(Taken(w, p)')
    PROVE  SalesBooks(p)'
<1>1. UnitsOf(p, {"placed", "cancelled"})' = UnitsOf(p, {"placed", "cancelled"})
  BY DEF UnitsOf
<1> QED BY <1>1 DEF SalesBooks, Ordered

LEMMA NextSalesBooks ==
    ASSUME TypeInv, OnItsWay, JobsAllowed, "edit" \notin Endpoints, [Next]_vars,
           NEW p \in Products, Locked(p), SalesBooks(p)
    PROVE  SalesBooks(p)'
<1> DEFINE S == {"placed", "cancelled"}
<1>0. NoWorker \notin Workers /\ Cardinality({}) = 0
  BY InventoryAssumption, FS_EmptySet
<1>t. /\ product[p].total_sales \in Nat /\ latest[p].total_sales \in Nat
      /\ \A v \in Workers : Cardinality(Taken(v, p)) \in Nat
  BY CountsAreNumbers DEF TypeInv, TypeOK, Row
<1>b. /\ IsFiniteSet(UnitsOf(p, S))
      /\ product[p].total_sales = Ordered(p, S)
      /\ \A v \in Workers : lock[p] = v =>
            latest[p].total_sales = product[p].total_sales + Cardinality(Taken(v, p))
      /\ lock[p] = NoWorker => latest[p] = product[p]
      /\ \A v \in Workers : Taken(v, p) # {} => lock[p] = v
  BY DEF SalesBooks, Locked
<1>e. ASSUME NEW v \in Workers, lock[p] # v PROVE Cardinality(Taken(v, p)) = 0
  <2>1. Taken(v, p) = {}
    BY <1>b, <1>e
  <2> QED BY <1>0, <2>1
<1>1. ASSUME NEW w \in Workers, Start(w) PROVE SalesBooks(p)'
  BY <1>1, <1>b, StartMoves, SalesBooksStay
<1>2. ASSUME NEW w \in Workers, Step(w) PROVE SalesBooks(p)'
  <2>1. CASE CheckoutLine(w)
    <3> DEFINE line == Head(job[w].todo)
               row == Sold(latest[line.product], line.qty)
    <3>1. /\ line.product \in Products /\ line.qty \in Nat \ {0}
          /\ \A v \in Workers \ {w} : Taken(v, p)' = Taken(v, p)
          /\ p # line.product => Taken(w, p)' = Taken(w, p)
          /\ p = line.product => Cardinality(Taken(w, p)') = Cardinality(Taken(w, p)) + line.qty
      BY <2>1, CheckoutLineMoves
    <3>r. latest[line.product] \in Row
      BY <3>1 DEF TypeInv, TypeOK
    <3>2. row.total_sales = latest[line.product].total_sales + line.qty
      <4> HIDE DEF line
      <4> QED BY <3>1, <3>r, Selling
    <3>3. WriteInTxn(w, line.product, row) /\ order' = order
      BY <2>1 DEF CheckoutLine
    <3> HIDE DEF line, row
    <3>4. /\ product' = product
          /\ lock[line.product] \in {NoWorker, w} /\ lock'[line.product] = w
          /\ latest'[line.product] = row
          /\ \A q \in Products \ {line.product} : lock'[q] = lock[q] /\ latest'[q] = latest[q]
      BY <3>1, <3>3, WriteInTxnRows
    <3>5. CASE p # line.product
      <4>1. \A v \in Workers : Taken(v, p)' = Taken(v, p)
        BY <3>1, <3>5
      <4> QED BY <1>b, <3>3, <3>4, <3>5, <4>1, SalesBooksStay
    <3>6. CASE p = line.product
      <4>1. latest[p].total_sales = product[p].total_sales + Cardinality(Taken(w, p))
        <5>1. CASE lock[p] = w
          BY <1>b, <5>1
        <5>2. CASE lock[p] = NoWorker
          <6>1. Cardinality(Taken(w, p)) = 0 /\ latest[p] = product[p]
            BY <1>0, <1>b, <1>e, <5>2
          <6> QED BY <1>t, <6>1
        <5> QED BY <3>4, <3>6, <5>1, <5>2
      <4>2. latest'[p].total_sales = product[p].total_sales + Cardinality(Taken(w, p)')
        BY <1>t, <3>1, <3>2, <3>4, <3>6, <4>1
      <4> QED BY <3>3, <3>4, <3>6, <4>2, SalesBooksStay
    <3> QED BY <3>5, <3>6
  <2>2. CASE RestoreStore(w)
    <3> DEFINE line == Head(job[w].todo)
               row == Restored(latest[line.product], job[w].copy, line.qty)
    <3>1. /\ line.product \in Products /\ line.qty \in Nat \ {0} /\ job[w].copy \in Row
          /\ \A v \in Workers \ {w} : Taken(v, p)' = Taken(v, p)
          /\ Taken(w, p) = {} /\ Taken(w, p)' = {}
      BY <2>2, RestoreStoreMoves
    <3>2. row.total_sales = latest[line.product].total_sales
      BY <3>1, Restoring DEF TypeInv, TypeOK
    <3>3. (WriteInTxn(w, line.product, row) \/ WriteNow(line.product, row)) /\ order' = order
      BY <2>2 DEF RestoreStore
    <3> HIDE DEF line, row
    <3>4. \A v \in Workers : Taken(v, p)' = Taken(v, p)
      BY <3>1
    <3>5. CASE WriteInTxn(w, line.product, row)
      <4>1. /\ product' = product
            /\ lock[line.product] \in {NoWorker, w} /\ lock'[line.product] = w
            /\ latest'[line.product] = row
            /\ \A q \in Products \ {line.product} : lock'[q] = lock[q] /\ latest'[q] = latest[q]
        BY <3>1, <3>5, WriteInTxnRows
      <4>2. latest'[p].total_sales = latest[p].total_sales
        BY <3>2, <4>1
      <4>3. lock[p] = NoWorker => latest[p].total_sales = product[p].total_sales + Cardinality(Taken(w, p))
        BY <1>0, <1>b, <1>t, <3>1
      <4>4. \A v \in Workers : lock'[p] = v =>
               latest'[p].total_sales = product[p].total_sales + Cardinality(Taken(v, p)')
        BY <1>0, <1>b, <3>4, <4>1, <4>2, <4>3
      <4> QED BY <3>3, <4>1, <4>4, SalesBooksStay
    <3>6. CASE WriteNow(line.product, row)
      <4>1. /\ lock' = lock /\ lock[line.product] = NoWorker
            /\ latest'[line.product] = row /\ product'[line.product] = row
            /\ \A q \in Products \ {line.product} : latest'[q] = latest[q] /\ product'[q] = product[q]
        BY <3>1, <3>6, WriteNowRows
      <4>2. /\ latest'[p].total_sales = latest[p].total_sales
            /\ product'[p].total_sales = product[p].total_sales
        BY <1>b, <3>2, <4>1
      <4> QED BY <1>b, <3>3, <3>4, <4>1, <4>2, SalesBooksStay
    <3> QED BY <3>3, <3>5, <3>6
  <2>3. CASE CheckoutMail(w) \/ RestoreFetch(w)
    BY <1>b, <2>3, QuietMoves, SalesBooksStay
  <2>4. CASE CheckoutCommit(w)
    <3> DEFINE o == job[w].order
    <3>1. /\ o \in Orders /\ order[o].status = "none"
          /\ \A x \in Orders \ {o} : order'[x] = order[x]
          /\ order'[o] = [status |-> "placed", items |-> job[w].cart]
          /\ OrdersKept(w)
          /\ Taken(w, p) = Units(job[w].cart, p)
      BY <2>4, CheckoutCommitMoves
    <3>2. /\ IsFiniteSet(UnitsIn(order', p, S))
          /\ Cardinality(UnitsIn(order', p, S)) = Cardinality(UnitsIn(order, p, S)) + Cardinality(Taken(w, p))
      <4>1. order[o].status \notin S /\ order'[o].status \in S /\ order'[o].items = job[w].cart
        BY <3>1
      <4>2. IsFiniteSet(UnitsIn(order, p, S)) /\ IsFiniteSet(Units(order'[o].items, p))
        BY <1>b, <3>1, <4>1, UnitsOfOrders, CountsAreNumbers
      <4> HIDE DEF S, o
      <4> QED BY <3>1, <4>1, <4>2, UnitsAdded
    <3>3. UnitsOf(p, S)' = UnitsIn(order', p, S) /\ Cardinality(UnitsIn(order, p, S)) = Ordered(p, S)
      BY UnitsOfOrders DEF UnitsOf, UnitsIn, Ordered
    <3>4. CommitTxn(w) /\ job' = [job EXCEPT ![w] = Idle]
      BY <2>4 DEF CheckoutCommit
    <3>5. /\ \A v \in Workers \ {w} : Taken(v, p)' = Taken(v, p)
          /\ Taken(w, p)' = {}
      BY <3>1, <3>4, IdleMoves
    <3>6. /\ latest'[p] = latest[p]
          /\ lock[p] = w => product'[p] = latest[p] /\ lock'[p] = NoWorker
          /\ lock[p] # w => product'[p] = product[p] /\ lock'[p] = lock[p]
      BY <3>4, CommitRows
    <3>7. product'[p].total_sales = Ordered(p, S)'
      <4>1. product'[p].total_sales = product[p].total_sales + Cardinality(Taken(w, p))
        <5>1. CASE lock[p] = w
          BY <1>b, <3>6, <5>1
        <5>2. CASE lock[p] # w
          BY <1>t, <1>e, <3>6, <5>2
        <5> QED BY <5>1, <5>2
      <4> QED BY <1>b, <3>2, <3>3, <4>1 DEF Ordered
    <3>8. ASSUME NEW v \in Workers, lock'[p] = v
          PROVE  latest'[p].total_sales = product'[p].total_sales + Cardinality(Taken(v, p)')
      BY <1>0, <1>b, <3>5, <3>6, <3>8
    <3> QED BY <3>2, <3>3, <3>7, <3>8 DEF SalesBooks
  <2>5. CASE CancelClose(w)
    <3> DEFINE o == job[w].order
    <3>1. /\ o \in Orders /\ order[o].status \in S
          /\ \A x \in Orders \ {o} : order'[x] = order[x]
          /\ order'[o].status = "cancelled" /\ order'[o].items = order[o].items
          /\ OrdersKept(w)
          /\ Taken(w, p) = {}
      BY <2>5, CancelCloseMoves
    <3>2. UnitsOf(p, S)' = UnitsOf(p, S)
      <4>1. {x \in Orders : order'[x].status \in S} = {x \in Orders : order[x].status \in S}
        BY <3>1
      <4>2. \A x \in Orders : order'[x].items = order[x].items
        BY <3>1
      <4> QED BY <4>1, <4>2 DEF UnitsOf
    <3>4. CommitTxn(w) /\ job' = [job EXCEPT ![w] = Idle]
      BY <2>5 DEF CancelClose
    <3>5. /\ \A v \in Workers \ {w} : Taken(v, p)' = Taken(v, p)
          /\ Taken(w, p)' = {}
      BY <3>1, <3>4, IdleMoves
    <3>6. /\ latest'[p] = latest[p]
          /\ lock[p] = w => product'[p] = latest[p] /\ lock'[p] = NoWorker
          /\ lock[p] # w => product'[p] = product[p] /\ lock'[p] = lock[p]
      BY <3>4, CommitRows
    <3>7. product'[p].total_sales = product[p].total_sales
      <4>1. CASE lock[p] = w
        <5>1. Cardinality(Taken(w, p)) = 0
          BY <1>0, <3>1
        <5> QED BY <1>b, <1>t, <3>6, <4>1, <5>1
      <4>2. CASE lock[p] # w
        BY <3>6, <4>2
      <4> QED BY <4>1, <4>2
    <3>8. ASSUME NEW v \in Workers, lock'[p] = v
          PROVE  latest'[p].total_sales = product'[p].total_sales + Cardinality(Taken(v, p)')
      BY <1>0, <1>b, <3>5, <3>6, <3>8
    <3> QED BY <1>b, <3>2, <3>7, <3>8 DEF SalesBooks, Ordered
  <2>6. CASE EditSave(w)
    BY <2>6 DEF EditSave, JobsAllowed
  <2>7. CASE UpdateSave(w)
    <3> DEFINE o == job[w].order
    <3>1. /\ o \in Orders /\ order[o].status \in S
          /\ \A x \in Orders \ {o} : order'[x] = order[x]
          /\ order'[o].status = "placed" /\ order'[o].items = order[o].items
          /\ UNCHANGED <<product, latest, lock>>
          /\ job' = [job EXCEPT ![w] = Idle]
          /\ OrdersKept(w)
      BY <2>7, UpdateSaveMoves
    <3>2. UnitsOf(p, S)' = UnitsOf(p, S)
      <4>1. {x \in Orders : order'[x].status \in S} = {x \in Orders : order[x].status \in S}
        BY <3>1
      <4>2. \A x \in Orders : order'[x].items = order[x].items
        BY <3>1
      <4> QED BY <4>1, <4>2 DEF UnitsOf
    <3>3. \A v \in Workers : Taken(v, p)' = Taken(v, p)
      <4>1. Taken(w, p) = {}
        BY <2>7, OthersCountNothing DEF UpdateSave
      <4> QED BY <3>1, <4>1, IdleMoves
    <3> QED BY <1>b, <3>1, <3>2, <3>3 DEF SalesBooks, Ordered
  <2> QED BY <1>2, <2>1, <2>2, <2>3, <2>4, <2>5, <2>6, <2>7 DEF Step
<1>3. ASSUME NEW w \in Workers, RollbackTxn(w) PROVE SalesBooks(p)'
  <2>1. job' = [job EXCEPT ![w] = Idle] /\ OrdersKept(w) /\ order' = order
    BY <1>3, OrdersUntouched DEF RollbackTxn
  <2>2. \A v \in Workers \ {w} : Taken(v, p)' = Taken(v, p)
    BY <2>1, IdleMoves
  <2>3. /\ product'[p] = product[p]
        /\ lock[p] = w => latest'[p] = product[p] /\ lock'[p] = NoWorker
        /\ lock[p] # w => latest'[p] = latest[p] /\ lock'[p] = lock[p]
    BY <1>3, RollbackRows
  <2>4. ASSUME NEW v \in Workers, lock'[p] = v
        PROVE  latest'[p].total_sales = product[p].total_sales + Cardinality(Taken(v, p)')
    BY <1>0, <1>b, <2>2, <2>3, <2>4
  <2> QED BY <2>1, <2>3, <2>4, SalesBooksStay
<1>4. ASSUME NEW q \in Products, Archive(q) PROVE SalesBooks(p)'
  <2> DEFINE row == [latest[q] EXCEPT !.status = "archived", !.is_active = FALSE]
  <2>1. WriteNow(q, row) /\ job' = job /\ order' = order
    BY <1>4 DEF Archive
  <2>2. \A v \in Workers : Taken(v, p)' = Taken(v, p)
    BY <2>1 DEF Taken, AtCheckout
  <2>3. row.total_sales = latest[q].total_sales
    BY DEF TypeInv, TypeOK, Row
  <2> HIDE DEF row
  <2>4. /\ lock' = lock /\ lock[q] = NoWorker
        /\ latest'[q] = row /\ product'[q] = row
        /\ \A x \in Products \ {q} : latest'[x] = latest[x] /\ product'[x] = product[x]
    BY <2>1, WriteNowRows
  <2>5. /\ latest'[p].total_sales = latest[p].total_sales
        /\ product'[p].total_sales = product[p].total_sales
    BY <1>b, <2>3, <2>4
  <2> QED BY <1>b, <2>1, <2>2, <2>4, <2>5, SalesBooksStay
<1>5. CASE UNCHANGED vars
  <2>1. \A v \in Workers : Taken(v, p)' = Taken(v, p)
    BY <1>5 DEF vars, Taken, AtCheckout
  <2> QED BY <1>5, <1>b, <2>1, SalesBooksStay DEF vars
<1> QED BY <1>1, <1>2, <1>3, <1>4, <1>5 DEF Next, Fail, DeadlockVictim

\* The stock of a row: with the units of the placed orders it makes the initial
\* stock.  In an open transaction it lacks what a checkout has taken and holds
\* what a cancellation has put back, which has locked the row and will find its
\* order placed when it commits.
StockBooks(p) ==
    p \notin miscounted =>
        /\ IsFiniteSet(UnitsOf(p, {"placed"}))
        /\ product[p].stock + Ordered(p, {"placed"}) = InitStock[p]
        /\ \A w \in Workers :
              /\ PutBack(w, p) # {} => lock[p] = w /\ order[job[w].order].status = "placed"
              /\ lock[p] = w => latest[p].stock + Cardinality(Taken(w, p)) =
                                product[p].stock + Cardinality(PutBack(w, p))

LEMMA MiscountedGrows == [Next]_vars => miscounted \subseteq miscounted'
BY DEF Next, Start, Step, CheckoutStart, CheckoutLine, CheckoutMail, CheckoutCommit,
       CancelStart, RestoreFetch, RestoreStore, CancelClose, UpdateStart, UpdateSave,
       EditStart, EditSave, Archive, Fail, DeadlockVictim, RollbackTxn, vars, history

LEMMA FirstUnitsWithin ==
    ASSUME NEW items \in Seq(Line), NEW rest \in Seq(Line), Suffix(rest, items), NEW p
    PROVE  FirstUnits(items, Len(items) - Len(rest), p) \subseteq Units(items, p)
<1>1. Len(items) \in Nat /\ Len(rest) \in Nat /\ DOMAIN items = 1 .. Len(items)
  BY LenProperties
<1>2. 1 .. (Len(items) - Len(rest)) \subseteq DOMAIN items
  BY <1>1 DEF Suffix
<1> QED BY <1>2 DEF FirstUnits, Units

\* A step that leaves the orders and the stock of the committed row alone.
LEMMA StockBooksStay ==
    ASSUME NEW p \in Products, StockBooks(p), p \notin miscounted, order' = order,
           product'[p].stock = product[p].stock,
           \A w \in Workers :
              /\ PutBack(w, p)' # {} => lock'[p] = w /\ order[job'[w].order].status = "placed"
              /\ lock'[p] = w => latest'[p].stock + Cardinality(Taken(w, p)') =
                                 product[p].stock + Cardinality(PutBack(w, p)')
    PROVE  StockBooks(p)'
<1>1. UnitsOf(p, {"placed"})' = UnitsOf(p, {"placed"})
  BY DEF UnitsOf
<1> QED BY <1>1 DEF StockBooks, Ordered

\* A step that leaves the row of p, its lock and what is counted of it alone.
LEMMA StockBooksApart ==
    ASSUME NEW p \in Products, StockBooks(p), p \notin miscounted, order' = order,
           product'[p].stock = product[p].stock, latest'[p].stock = latest[p].stock,
           lock'[p] = lock[p],
           \A v \in Workers : /\ Taken(v, p)' = Taken(v, p) /\ PutBack(v, p)' = PutBack(v, p)
                              /\ job'[v].order = job[v].order \/ PutBack(v, p) = {}
    PROVE  StockBooks(p)'
BY StockBooksStay DEF StockBooks

LEMMA NextStockBooks ==
    ASSUME TypeInv, OnItsWay, [Next]_vars, NEW p \in Products, Locked(p), StockBooks(p)
    PROVE  StockBooks(p)'
<1> DEFINE S == {"placed"}
<1> SUFFICES ASSUME p \notin miscounted' PROVE StockBooks(p)'
  BY DEF StockBooks
<1>0. NoWorker \notin Workers /\ Cardinality({}) = 0
  BY InventoryAssumption, FS_EmptySet
<1>m. p \notin miscounted
  BY MiscountedGrows
<1>t. /\ product[p].stock \in Nat /\ latest[p].stock \in Nat /\ InitStock[p] \in Nat
      /\ \A v \in Workers : Cardinality(Taken(v, p)) \in Nat /\ Cardinality(PutBack(v, p)) \in Nat
  BY CountsAreNumbers, InventoryAssumption DEF TypeInv, TypeOK, Row
<1>b. /\ IsFiniteSet(UnitsOf(p, S))
      /\ product[p].stock + Ordered(p, S) = InitStock[p]
      /\ \A v \in Workers : PutBack(v, p) # {} => lock[p] = v /\ order[job[v].order].status = "placed"
      /\ \A v \in Workers : lock[p] = v => latest[p].stock + Cardinality(Taken(v, p)) =
                                           product[p].stock + Cardinality(PutBack(v, p))
  BY <1>m DEF StockBooks
<1>l. /\ lock[p] = NoWorker => latest[p] = product[p]
      /\ \A v \in Workers : Taken(v, p) # {} => lock[p] = v
  BY DEF Locked
<1>e. ASSUME NEW v \in Workers, lock[p] # v
      PROVE  /\ Taken(v, p) = {} /\ PutBack(v, p) = {}
             /\ Cardinality(Taken(v, p)) = 0 /\ Cardinality(PutBack(v, p)) = 0
  <2>1. Taken(v, p) = {} /\ PutBack(v, p) = {}
    BY <1>b, <1>l, <1>e
  <2> QED BY <1>0, <2>1
<1>f. ASSUME NEW v \in Workers, lock[p] \in {NoWorker, v}
      PROVE  latest[p].stock + Cardinality(Taken(v, p)) = product[p].stock + Cardinality(PutBack(v, p))
  <2>1. CASE lock[p] = v
    BY <1>b, <2>1
  <2>2. CASE lock[p] = NoWorker
    <3>1. Cardinality(Taken(v, p)) = 0 /\ Cardinality(PutBack(v, p)) = 0 /\ latest[p] = product[p]
      BY <1>0, <1>l, <1>e, <2>2
    <3> QED BY <1>t, <3>1
  <2> QED BY <1>f, <2>1, <2>2
<1>1. ASSUME NEW w \in Workers, Start(w) PROVE StockBooks(p)'
  BY <1>1, <1>m, StartMoves, StockBooksApart
<1>2. ASSUME NEW w \in Workers, Step(w) PROVE StockBooks(p)'
  <2>1. CASE CheckoutLine(w)
    <3> DEFINE line == Head(job[w].todo)
               row == Sold(latest[line.product], line.qty)
    <3>1. /\ line.product \in Products /\ line.qty \in Nat \ {0}
          /\ \A v \in Workers \ {w} : /\ Taken(v, p)' = Taken(v, p) /\ PutBack(v, p)' = PutBack(v, p)
                                      /\ job'[v] = job[v]
          /\ PutBack(w, p) = {} /\ PutBack(w, p)' = {}
          /\ p # line.product => Taken(w, p)' = Taken(w, p)
          /\ p = line.product => Cardinality(Taken(w, p)') = Cardinality(Taken(w, p)) + line.qty
      BY <2>1, CheckoutLineMoves
    <3>2. WriteInTxn(w, line.product, row) /\ order' = order
      BY <2>1 DEF CheckoutLine
    <3>3. miscounted' = IF line.qty > latest[line.product].stock
                        THEN miscounted \cup {line.product} ELSE miscounted
      BY <2>1 DEF CheckoutLine
    <3>r. latest[line.product] \in Row
      BY <3>1 DEF TypeInv, TypeOK
    <3>4. row.stock = IF line.qty < latest[line.product].stock
                      THEN latest[line.product].stock - line.qty ELSE 0
      <4> HIDE DEF line
      <4> QED BY <3>1, <3>r, Selling
    <3> HIDE DEF line, row
    <3>5. /\ product' = product
          /\ lock[line.product] \in {NoWorker, w} /\ lock'[line.product] = w
          /\ latest'[line.product] = row
          /\ \A q \in Products \ {line.product} : lock'[q] = lock[q] /\ latest'[q] = latest[q]
      BY <3>1, <3>2, WriteInTxnRows
    <3>6. CASE p # line.product
      <4>1. \A v \in Workers : /\ Taken(v, p)' = Taken(v, p) /\ PutBack(v, p)' = PutBack(v, p)
                               /\ job'[v].order = job[v].order \/ PutBack(v, p) = {}
        BY <3>1, <3>6
      <4> QED BY <1>m, <3>2, <3>5, <3>6, <4>1, StockBooksApart
    <3>7. CASE p = line.product
      <4>1. latest[p].stock + Cardinality(Taken(w, p)) = product[p].stock + Cardinality(PutBack(w, p))
        BY <1>f, <3>5, <3>7
      <4>0. line.qty <= latest[p].stock
        BY <1>t, <3>1, <3>3, <3>7
      <4>2. latest'[p].stock = latest[p].stock - line.qty
        BY <1>t, <3>1, <3>4, <3>5, <3>7, <4>0
      <4>3. latest'[p].stock + Cardinality(Taken(w, p)') = product[p].stock + Cardinality(PutBack(w, p)')
        BY <1>t, <3>1, <3>7, <4>0, <4>1, <4>2
      <4>4. \A v \in Workers : PutBack(v, p)' = {}
        BY <1>0, <1>b, <3>1, <3>5, <3>7
      <4>5. \A v \in Workers : lock'[p] = v => v = w
        BY <3>5, <3>7
      <4> QED BY <1>m, <3>2, <3>5, <4>3, <4>4, <4>5, StockBooksStay
    <3> QED BY <3>6, <3>7
  <2>2. CASE RestoreStore(w)
    <3> DEFINE line == Head(job[w].todo)
               row == Restored(latest[line.product], job[w].copy, line.qty)
    <3>1. /\ line.product \in Products /\ line.qty \in Nat \ {0} /\ job[w].copy \in Row
          /\ \A v \in Workers \ {w} : /\ Taken(v, p)' = Taken(v, p) /\ PutBack(v, p)' = PutBack(v, p)
                                      /\ job'[v] = job[v]
          /\ Taken(w, p) = {} /\ Taken(w, p)' = {}
          /\ p # line.product => PutBack(w, p)' = PutBack(w, p)
          /\ p = line.product => Cardinality(PutBack(w, p)') = Cardinality(PutBack(w, p)) + line.qty
          /\ job'[w].order = job[w].order
      BY <2>2, RestoreStoreMoves
    <3>2. /\ WriteInTxn(w, line.product, row) \/ WriteNow(line.product, row)
          /\ job[w].atomic => WriteInTxn(w, line.product, row)
          /\ order' = order
      BY <2>2 DEF RestoreStore
    <3>3. p = line.product => /\ order[job[w].order].status = "placed" /\ job[w].atomic
                              /\ job[w].copy.stock = latest[p].stock
      BY <2>2, <3>1 DEF RestoreStore, Miscounts
    <3>r. latest[line.product] \in Row
      BY <3>1 DEF TypeInv, TypeOK
    <3>4. row.stock = job[w].copy.stock + line.qty
      BY <3>1, <3>r, Restoring
    <3> HIDE DEF line, row
    <3>5. CASE p # line.product
      <4>1. lock'[p] = lock[p] /\ latest'[p] = latest[p] /\ product'[p] = product[p]
        BY <3>1, <3>2, <3>5, WriteInTxnRows, WriteNowRows
      <4>2. \A v \in Workers : /\ Taken(v, p)' = Taken(v, p) /\ PutBack(v, p)' = PutBack(v, p)
                               /\ job'[v].order = job[v].order \/ PutBack(v, p) = {}
        BY <3>1, <3>5
      <4> QED BY <1>m, <3>2, <4>1, <4>2, StockBooksApart
    <3>6. CASE p = line.product
      <4>1. /\ product' = product
            /\ lock[p] \in {NoWorker, w} /\ lock'[p] = w /\ latest'[p] = row
        BY <3>1, <3>2, <3>3, <3>6, WriteInTxnRows
      <4>2. latest[p].stock + Cardinality(Taken(w, p)) = product[p].stock + Cardinality(PutBack(w, p))
        BY <1>f, <4>1
      <4>3. latest'[p].stock = latest[p].stock + line.qty
        BY <3>3, <3>4, <3>6, <4>1
      <4>4. latest'[p].stock + Cardinality(Taken(w, p)') = product[p].stock + Cardinality(PutBack(w, p)')
        <5>1. Cardinality(Taken(w, p)) = 0 /\ Cardinality(Taken(w, p)') = 0
          BY <1>0, <3>1
        <5>2. Cardinality(PutBack(w, p)') = Cardinality(PutBack(w, p)) + line.qty
          BY <3>1, <3>6
        <5> QED BY <1>t, <3>1, <4>2, <4>3, <5>1, <5>2
      <4>5. \A v \in Workers \ {w} : PutBack(v, p)' = {}
        BY <1>0, <1>b, <3>1, <4>1
      <4>6. \A v \in Workers : lock'[p] = v => v = w
        BY <4>1
      <4>7. order[job'[w].order].status = "placed"
        BY <3>1, <3>3, <3>6
      <4>8. \A v \in Workers : PutBack(v, p)' # {} => lock'[p] = v /\ order[job'[v].order].status = "placed"
        BY <4>1, <4>5, <4>7
      <4>9. \A v \in Workers : lock'[p] = v =>
               latest'[p].stock + Cardinality(Taken(v, p)') = product[p].stock + Cardinality(PutBack(v, p)')
        BY <4>4, <4>6
      <4> QED BY <1>m, <3>2, <4>1, <4>8, <4>9, StockBooksStay
    <3> QED BY <3>5, <3>6
  <2>3. CASE CheckoutMail(w) \/ RestoreFetch(w)
    <3>1. /\ UNCHANGED <<product, latest, lock, order>>
          /\ \A v \in Workers : /\ Taken(v, p)' = Taken(v, p) /\ PutBack(v, p)' = PutBack(v, p)
                                /\ job'[v].order = job[v].order
      BY <2>3, QuietMoves
    <3> QED BY <1>m, <3>1, StockBooksApart
  <2>4. CASE CheckoutCommit(w)
    <3> DEFINE o == job[w].order
    <3>1. /\ o \in Orders /\ order[o].status = "none"
          /\ \A x \in Orders \ {o} : order'[x] = order[x]
          /\ order'[o] = [status |-> "placed", items |-> job[w].cart]
          /\ OrdersKept(w)
          /\ PutBack(w, p) = {} /\ Taken(w, p) = Units(job[w].cart, p)
      BY <2>4, CheckoutCommitMoves
    <3>2. /\ IsFiniteSet(UnitsIn(order', p, S))
          /\ Cardinality(UnitsIn(order, p, S)) \in Nat
          /\ Cardinality(UnitsIn(order', p, S)) = Cardinality(UnitsIn(order, p, S)) + Cardinality(Taken(w, p))
      <4>1. order[o].status \notin S /\ order'[o].status \in S /\ order'[o].items = job[w].cart
        BY <3>1
      <4>2. IsFiniteSet(UnitsIn(order, p, S)) /\ IsFiniteSet(Units(order'[o].items, p))
        BY <1>b, <3>1, <4>1, UnitsOfOrders, CountsAreNumbers
      <4>3. /\ o \in Orders /\ \A x \in Orders \ {o} : order'[x] = order[x]
            /\ Taken(w, p) = Units(order'[o].items, p)
        BY <3>1, <4>1
      <4> HIDE DEF S, o
      <4> QED BY <4>1, <4>2, <4>3, UnitsAdded
    <3>3. UnitsOf(p, S)' = UnitsIn(order', p, S) /\ Ordered(p, S) = Cardinality(UnitsIn(order, p, S))
      BY UnitsOfOrders DEF UnitsOf, UnitsIn, Ordered
    <3>4. CommitTxn(w) /\ job' = [job EXCEPT ![w] = Idle]
      BY <2>4 DEF CheckoutCommit
    <3>5. /\ \A v \in Workers \ {w} : /\ Taken(v, p)' = Taken(v, p) /\ PutBack(v, p)' = PutBack(v, p)
                                      /\ job'[v] = job[v]
          /\ Taken(w, p)' = {} /\ PutBack(w, p)' = {}
      BY <3>1, <3>4, IdleMoves
    <3>6. /\ latest'[p] = latest[p]
          /\ lock[p] = w => product'[p] = latest[p] /\ lock'[p] = NoWorker
          /\ lock[p] # w => product'[p] = product[p] /\ lock'[p] = lock[p]
      BY <3>4, CommitRows
    <3>7. product'[p].stock + Cardinality(Taken(w, p)) = product[p].stock
      <4>1. CASE lock[p] = w
        <5>1. Cardinality(PutBack(w, p)) = 0
          BY <1>0, <3>1
        <5> QED BY <1>b, <1>t, <3>6, <4>1, <5>1
      <4>2. CASE lock[p] # w
        BY <1>t, <1>e, <3>6, <4>2
      <4> QED BY <4>1, <4>2
    <3>8. product'[p] \in Row
      BY <3>6 DEF TypeInv, TypeOK
    <3>9. product'[p].stock + Cardinality(UnitsIn(order', p, S)) = InitStock[p]
      <4>1. product'[p].stock \in Nat
        BY <3>8 DEF Row
      <4> HIDE DEF S
      <4> QED BY <1>b, <1>t, <3>2, <3>3, <3>7, <4>1
    <3>10. ASSUME NEW v \in Workers, PutBack(v, p)' # {}
           PROVE  lock'[p] = v /\ order'[job'[v].order].status = "placed"
      <4>1. v # w /\ PutBack(v, p) # {} /\ job'[v] = job[v]
        BY <3>5, <3>10
      <4>2. lock[p] = v /\ order[job[v].order].status = "placed"
        BY <1>b, <4>1
      <4>3. job[v].order \in Orders
        BY <4>1, JobParts DEF PutBack
      <4>4. job[v].order # o
        BY <3>1, <4>2
      <4> QED BY <3>1, <3>6, <4>1, <4>2, <4>3, <4>4
    <3>11. ASSUME NEW v \in Workers, lock'[p] = v
           PROVE  latest'[p].stock + Cardinality(Taken(v, p)') =
                  product'[p].stock + Cardinality(PutBack(v, p)')
      BY <1>0, <1>b, <3>5, <3>6, <3>11
    <3> QED BY <3>2, <3>3, <3>9, <3>10, <3>11 DEF StockBooks, Ordered
  <2>5. CASE CancelClose(w)
    <3> DEFINE o == job[w].order
    <3>1. /\ o \in Orders /\ order[o].status \in {"placed", "cancelled"}
          /\ \A x \in Orders \ {o} : order'[x] = order[x]
          /\ order'[o].status = "cancelled" /\ order'[o].items = order[o].items
          /\ order[o].items \in Seq(Line)
          /\ OrdersKept(w)
          /\ Taken(w, p) = {} /\ PutBack(w, p) = Units(order[o].items, p)
      BY <2>5, CancelCloseMoves
    <3>2. CommitTxn(w) /\ job' = [job EXCEPT ![w] = Idle]
      BY <2>5 DEF CancelClose
    <3>3. /\ \A v \in Workers \ {w} : /\ Taken(v, p)' = Taken(v, p) /\ PutBack(v, p)' = PutBack(v, p)
                                      /\ job'[v] = job[v]
          /\ Taken(w, p)' = {} /\ PutBack(w, p)' = {}
      BY <3>1, <3>2, IdleMoves
    <3>4. /\ latest'[p] = latest[p]
          /\ lock[p] = w => product'[p] = latest[p] /\ lock'[p] = NoWorker
          /\ lock[p] # w => product'[p] = product[p] /\ lock'[p] = lock[p]
      BY <3>2, CommitRows
    \* What is put back is committed with the order's new status.
    <3>5. product'[p].stock = product[p].stock + Cardinality(PutBack(w, p))
      <4>1. CASE lock[p] = w
        <5>1. Cardinality(Taken(w, p)) = 0
          BY <1>0, <3>1
        <5> QED BY <1>b, <1>t, <3>4, <4>1, <5>1
      <4>2. CASE lock[p] # w
        BY <1>t, <1>e, <3>4, <4>2
      <4> QED BY <4>1, <4>2
    <3>6. UnitsOf(p, S)' = UnitsIn(order', p, S) /\ UnitsOf(p, S) = UnitsIn(order, p, S)
      BY UnitsOfOrders DEF UnitsOf, UnitsIn
    <3>7. /\ IsFiniteSet(UnitsIn(order', p, S))
          /\ Cardinality(UnitsIn(order', p, S)) \in Nat
          /\ Cardinality(UnitsIn(order, p, S)) =
                Cardinality(UnitsIn(order', p, S)) + Cardinality(PutBack(w, p))
      <4>1. CASE order[o].status = "placed"
        <5>1. order'[o].status \notin S /\ order[o].status \in S
          BY <3>1, <4>1
        <5>2. IsFiniteSet(UnitsIn(order, p, S)) /\ IsFiniteSet(Units(order[o].items, p))
          BY <1>b, <3>1, <3>6, CountsAreNumbers
        <5>3. \A x \in Orders \ {o} : order[x] = order'[x]
          BY <3>1
        <5> HIDE DEF S, o
        <5>4. o \in Orders
          BY <3>1
        <5> QED BY <3>1, <5>1, <5>2, <5>3, <5>4, UnitsAdded
      <4>2. CASE order[o].status = "cancelled"
        <5>1. PutBack(w, p) = {}
          BY <1>b, <4>2
        <5>2. {x \in Orders : order'[x].status \in S} = {x \in Orders : order[x].status \in S}
          BY <3>1, <4>2
        <5>3. \A x \in Orders : order'[x].items = order[x].items
          BY <3>1
        <5>4. UnitsIn(order', p, S) = UnitsIn(order, p, S)
          BY <5>2, <5>3 DEF UnitsIn
        <5>5. IsFiniteSet(UnitsIn(order, p, S)) /\ Cardinality(UnitsIn(order, p, S)) \in Nat
          BY <1>b, <3>6, FS_CardinalityType
        <5> HIDE DEF S
        <5> QED BY <1>0, <5>1, <5>4, <5>5
      <4> QED BY <3>1, <4>1, <4>2
    <3>8. product'[p].stock + Cardinality(UnitsIn(order', p, S)) = InitStock[p]
      <4>1. product[p].stock + Cardinality(UnitsIn(order, p, S)) = InitStock[p]
        BY <1>b, <3>6 DEF Ordered
      <4> HIDE DEF S
      <4> QED BY <1>t, <3>5, <3>7, <4>1
    <3>9. ASSUME NEW v \in Workers, PutBack(v, p)' # {}
          PROVE  lock'[p] = v /\ order'[job'[v].order].status = "placed"
      <4>1. v # w /\ PutBack(v, p) # {} /\ job'[v] = job[v]
        BY <3>3, <3>9
      <4>2. lock[p] = v /\ order[job[v].order].status = "placed"
        BY <1>b, <4>1
      <4>3. AtCancel(v)
        BY <4>1 DEF PutBack
      <4>4. /\ job[v].order \in Orders /\ job[v].todo \in Seq(Line)
            /\ order[job[v].order].items \in Seq(Line)
            /\ Suffix(job[v].todo, order[job[v].order].items)
        BY <4>3, JobParts DEF OnItsWay, CancelOnItsWay
      <4>5. job[v].order # o
        <5> SUFFICES ASSUME job[v].order = o PROVE FALSE
          OBVIOUS
        <5>1. PutBack(v, p) \subseteq Units(order[job[v].order].items, p)
          BY <4>3, <4>4, FirstUnitsWithin DEF PutBack
        <5>2. PutBack(w, p) # {}
          BY <3>1, <4>1, <5>1
        <5> QED BY <1>b, <4>1, <4>2, <5>2
      <4> QED BY <3>1, <3>4, <4>1, <4>2, <4>4, <4>5
    <3>10. ASSUME NEW v \in Workers, lock'[p] = v
           PROVE  latest'[p].stock + Cardinality(Taken(v, p)') =
                  product'[p].stock + Cardinality(PutBack(v, p)')
      BY <1>0, <1>b, <3>3, <3>4, <3>10
    <3> QED BY <3>6, <3>7, <3>8, <3>9, <3>10 DEF StockBooks, Ordered
  <2>6. CASE EditSave(w)
    <3>1. /\ job' = [job EXCEPT ![w] = Idle] /\ OrdersKept(w) /\ order' = order
          /\ job[w].product \in Products /\ job[w].at = "edit"
          /\ p # job[w].product
      BY <2>6, OrdersUntouched, JobKinds DEF EditSave, EditJob, TypeInv
    <3>2. WriteNow(job[w].product, Normalised(job[w].copy))
      BY <2>6 DEF EditSave
    <3>3. \A v \in Workers : /\ Taken(v, p)' = Taken(v, p) /\ PutBack(v, p)' = PutBack(v, p)
                             /\ job'[v].order = job[v].order \/ PutBack(v, p) = {}
      BY <3>1, IdleMoves, OthersCountNothing
    <3>4. lock'[p] = lock[p] /\ latest'[p] = latest[p] /\ product'[p] = product[p]
      BY <3>1, <3>2, WriteNowRows
    <3> QED BY <1>m, <3>1, <3>3, <3>4, StockBooksApart
  <2>7. CASE UpdateSave(w)
    <3> DEFINE o == job[w].order
    <3>1. /\ o \in Orders /\ order[o].status \in {"placed", "cancelled"}
          /\ \A x \in Orders \ {o} : order'[x] = order[x]
          /\ order'[o].status = "placed" /\ order'[o].items = order[o].items
          /\ order[o].items \in Seq(Line)
          /\ UNCHANGED <<product, latest, lock>>
          /\ job' = [job EXCEPT ![w] = Idle]
          /\ OrdersKept(w)
      BY <2>7, UpdateSaveMoves
    <3>2. /\ \A v \in Workers : Taken(v, p)' = Taken(v, p) /\ PutBack(v, p)' = PutBack(v, p)
          /\ \A v \in Workers \ {w} : job'[v] = job[v]
          /\ PutBack(w, p) = {}
      <4>1. Taken(w, p) = {} /\ PutBack(w, p) = {}
        BY <2>7, OthersCountNothing DEF UpdateSave
      <4> QED BY <3>1, <4>1, IdleMoves
    <3>3. CASE order[o].status = "placed"
      <4>1. order' = order
        BY <2>7, <3>3, UpdateSaveMoves
      <4>2. \A v \in Workers : job'[v].order = job[v].order \/ PutBack(v, p) = {}
        BY <3>2
      <4> QED BY <1>m, <3>1, <3>2, <4>1, <4>2, StockBooksApart
    \* The units of p of an order that lives again would be counted: it has none.
    <3>4. CASE order[o].status = "cancelled"
      <4>1. Units(order[o].items, p) = {}
        <5>1. p \notin ProductsOf(order[o].items)
          BY <2>7, <3>4, UpdateSaveMoves
        <5> QED BY <3>1, <5>1, NoUnits
      <4>2. UnitsOf(p, S)' = UnitsOf(p, S)
        <5>1. ASSUME NEW x \in Orders \ {o}
              PROVE  order'[x].status = order[x].status /\ order'[x].items = order[x].items
          BY <3>1
        <5>2. {o} \X Units(order[o].items, p) = {}
          BY <4>1
        <5> QED BY <3>1, <5>1, <5>2 DEF UnitsOf
      <4>3. ASSUME NEW v \in Workers, PutBack(v, p)' # {}
            PROVE  lock'[p] = v /\ order'[job'[v].order].status = "placed"
        <5>1. v # w /\ PutBack(v, p) # {} /\ job'[v] = job[v]
          BY <3>2, <4>3
        <5>2. lock[p] = v /\ order[job[v].order].status = "placed"
          BY <1>b, <5>1
        <5>3. job[v].order \in Orders
          BY <5>1, JobParts DEF PutBack
        <5> QED BY <3>1, <5>1, <5>2, <5>3
      <4> QED BY <1>b, <3>1, <3>2, <4>2, <4>3 DEF StockBooks, Ordered
    <3> QED BY <3>1, <3>3, <3>4
  <2> QED BY <1>2, <2>1, <2>2, <2>3, <2>4, <2>5, <2>6, <2>7 DEF Step
<1>3. ASSUME NEW w \in Workers, RollbackTxn(w) PROVE StockBooks(p)'
  <2>1. job' = [job EXCEPT ![w] = Idle] /\ OrdersKept(w) /\ order' = order
    BY <1>3, OrdersUntouched DEF RollbackTxn
  <2>2. /\ \A v \in Workers \ {w} : /\ Taken(v, p)' = Taken(v, p) /\ PutBack(v, p)' = PutBack(v, p)
                                    /\ job'[v] = job[v]
        /\ Taken(w, p)' = {} /\ PutBack(w, p)' = {}
    BY <2>1, IdleMoves
  <2>3. /\ product'[p] = product[p]
        /\ lock[p] = w => latest'[p] = product[p] /\ lock'[p] = NoWorker
        /\ lock[p] # w => latest'[p] = latest[p] /\ lock'[p] = lock[p]
    BY <1>3, RollbackRows
  <2>4. ASSUME NEW v \in Workers, PutBack(v, p)' # {}
        PROVE  lock'[p] = v /\ order[job'[v].order].status = "placed"
    BY <1>b, <2>2, <2>3, <2>4
  <2>5. ASSUME NEW v \in Workers, lock'[p] = v
        PROVE  latest'[p].stock + Cardinality(Taken(v, p)') =
               product[p].stock + Cardinality(PutBack(v, p)')
    BY <1>0, <1>b, <2>2, <2>3, <2>5
  <2> QED BY <1>m, <2>1, <2>3, <2>4, <2>5, StockBooksStay
<1>4. ASSUME NEW q \in Products, Archive(q) PROVE StockBooks(p)'
  <2> DEFINE row == [latest[q] EXCEPT !.status = "archived", !.is_active = FALSE]
  <2>1. WriteNow(q, row) /\ job' = job /\ order' = order
    BY <1>4 DEF Archive
  <2>2. \A v \in Workers : /\ Taken(v, p)' = Taken(v, p) /\ PutBack(v, p)' = PutBack(v, p)
                           /\ job'[v].order = job[v].order
    BY <2>1 DEF Taken, PutBack, AtCheckout, AtCancel
  <2>3. row.stock = latest[q].stock
    BY DEF TypeInv, TypeOK, Row
  <2> HIDE DEF row
  <2>4. /\ lock' = lock /\ lock[q] = NoWorker
        /\ latest'[q] = row /\ product'[q] = row
        /\ \A x \in Products \ {q} : latest'[x] = latest[x] /\ product'[x] = product[x]
    BY <2>1, WriteNowRows
  <2>5. latest'[p].stock = latest[p].stock /\ product'[p].stock = product[p].stock
    BY <1>l, <2>3, <2>4
  <2> QED BY <1>m, <2>1, <2>2, <2>4, <2>5, StockBooksApart
<1>5. CASE UNCHANGED vars
  <2>1. \A v \in Workers : /\ Taken(v, p)' = Taken(v, p) /\ PutBack(v, p)' = PutBack(v, p)
                           /\ job'[v].order = job[v].order
    BY <1>5 DEF vars, Taken, PutBack, AtCheckout, AtCancel
  <2> QED BY <1>5, <1>m, <2>1, StockBooksApart DEF vars
<1> QED BY <1>1, <1>2, <1>3, <1>4, <1>5 DEF Next, Fail, DeadlockVictim

\* At the start nothing is ordered, locked or counted.
LEMMA InitBooks ==
    ASSUME Init, NEW p \in Products
    PROVE  Locked(p) /\ SalesBooks(p) /\ StockBooks(p)
<1>1. \A w \in Workers : Taken(w, p) = {} /\ PutBack(w, p) = {} /\ lock[p] # w
  BY InitOnItsWay, InventoryAssumption DEF Init
<1>2. \A o \in Orders : order[o].status = "none"
  BY DEF Init, NoOrder
<1>3. UnitsOf(p, {"placed", "cancelled"}) = {} /\ UnitsOf(p, {"placed"}) = {}
  BY <1>2 DEF UnitsOf
<1>4. IsFiniteSet({}) /\ Cardinality({}) = 0
  BY FS_EmptySet
<1>5. product[p].stock = InitStock[p] /\ product[p].total_sales = 0 /\ latest[p] = product[p]
      /\ InitStock[p] \in Nat
  BY InitRows, InventoryAssumption
<1> QED BY <1>1, <1>3, <1>4, <1>5 DEF Locked, SalesBooks, StockBooks, Ordered

\* Without artisan edits total_sales counts exactly the units of the committed
\* orders, for any number of concurrent checkouts of any carts, cancellations
\* of both kinds, archivings, failures and deadlocks.
THEOREM SalesAreExact ==
    ASSUME "edit" \notin Endpoints
    PROVE  Spec => []SalesExact
<1> DEFINE IInv == /\ TypeInv /\ OnItsWay /\ JobsAllowed
                   /\ \A p \in Products : Locked(p) /\ SalesBooks(p)
<1>1. Init => IInv
  BY InitTypeInv, InitOnItsWay, InitJobsAllowed, InitBooks
<1>2. IInv /\ [Next]_vars => IInv'
  BY NextTypeInv, NextOnItsWay, NextJobsAllowed, NextLocked, NextSalesBooks
<1>3. IInv => SalesExact
  BY DEF SalesBooks, SalesExact
<1> QED BY <1>1, <1>2, <1>3, PTL DEF Spec

\* Stock and placed units add up to the initial stock for every product that
\* nothing has miscounted: a checkout and a POST cancellation, alone or beside
\* any other requests, commit all the units of their order or, when they fail or
\* are the victim of a deadlock, none.
THEOREM StockIsConserved == Spec => []StockConserved
<1> DEFINE IInv == /\ TypeInv /\ OnItsWay
                   /\ \A p \in Products : Locked(p) /\ StockBooks(p)
<1>1. Init => IInv
  BY InitTypeInv, InitOnItsWay, InitBooks
<1>2. IInv /\ [Next]_vars => IInv'
  BY NextTypeInv, NextOnItsWay, NextLocked, NextStockBooks
<1>3. IInv => StockConserved
  BY DEF StockBooks, StockConserved
<1> QED BY <1>1, <1>2, <1>3, PTL DEF Spec

-----------------------------------------------------------------------------
(* Row locks                                                               *)

\* w is in a transaction that is still open.
OpenTxn(w) == AtCheckout(w) \/ (AtCancel(w) /\ job[w].atomic)

LocksOpen == \A p \in Products, w \in Workers : lock[p] = w => OpenTxn(w)

LEMMA LocksStayOpen ==
    ASSUME TypeInv, LocksOpen, NEW w \in Workers, NEW j, job' = [job EXCEPT ![w] = j],
           \A p \in Products, v \in Workers \ {w} : lock'[p] = v => lock[p] = v,
           \A p \in Products : lock'[p] = w => OpenTxn(w)'
    PROVE  LocksOpen'
<1>1. \A v \in Workers \ {w} : job'[v] = job[v]
  BY DEF TypeInv, TypeOK
<1>2. \A v \in Workers \ {w} : OpenTxn(v)' = OpenTxn(v)
  BY <1>1 DEF OpenTxn, AtCheckout, AtCancel
<1> QED BY <1>2 DEF LocksOpen

LEMMA NextLocksOpen == TypeInv /\ LocksOpen /\ [Next]_vars => LocksOpen'
<1> SUFFICES ASSUME TypeInv, LocksOpen, [Next]_vars PROVE LocksOpen'
  OBVIOUS
<1>0. NoWorker \notin Workers
  BY InventoryAssumption
<1>1. ASSUME NEW w \in Workers, Start(w) PROVE LocksOpen'
  <2>1. job[w] = Idle /\ lock' = lock
    BY <1>1 DEF Start, CheckoutStart, CancelStart, UpdateStart, EditStart
  <2>2. PICK j : job' = [job EXCEPT ![w] = j]
    BY <1>1 DEF Start, CheckoutStart, CancelStart, UpdateStart, EditStart
  <2>3. ~OpenTxn(w)
    BY <2>1 DEF OpenTxn, AtCheckout, AtCancel, Idle
  <2> QED BY <2>1, <2>2, <2>3, LocksStayOpen DEF LocksOpen
<1>2. ASSUME NEW w \in Workers, CommitTxn(w) \/ RollbackTxn(w), job' = [job EXCEPT ![w] = Idle]
      PROVE  LocksOpen'
  <2>1. \A p \in Products : lock'[p] = lock[p] \/ lock'[p] = NoWorker
    BY <1>2, CommitRows, RollbackRows
  <2>2. \A p \in Products : lock'[p] # w
    BY <1>0, <1>2, CommitRows, RollbackRows
  <2> QED BY <1>0, <1>2, <2>1, <2>2, LocksStayOpen
<1>3. ASSUME NEW w \in Workers, CheckoutLine(w) PROVE LocksOpen'
  <2> DEFINE line == Head(job[w].todo)
             row == Sold(latest[line.product], line.qty)
             j == [job[w] EXCEPT !.todo = Tail(@),
                                 !.at = IF Len(job[w].todo) = 1 THEN "mail" ELSE "line"]
  <2>1. job[w] \in CheckoutJob /\ job[w].todo \in Seq(Line) /\ job[w].todo # <<>>
    BY <1>3, JobParts DEF CheckoutLine, AtCheckout
  <2>2. job' = [job EXCEPT ![w] = j] /\ WriteInTxn(w, line.product, row)
    BY <1>3 DEF CheckoutLine
  <2>3. j.at \in {"mail", "line"} /\ line.product \in Products
    BY <2>1, LineSeq DEF CheckoutJob, Line
  <2> HIDE DEF j, line, row
  <2>4. OpenTxn(w)'
    BY <2>2, <2>3 DEF OpenTxn, AtCheckout, TypeInv, TypeOK
  <2>5. lock'[line.product] = w /\ \A p \in Products \ {line.product} : lock'[p] = lock[p]
    BY <2>2, <2>3, WriteInTxnRows
  <2> QED BY <2>2, <2>4, <2>5, LocksStayOpen
<1>4. ASSUME NEW w \in Workers, CheckoutMail(w) PROVE LocksOpen'
  <2> DEFINE j == [job[w] EXCEPT !.at = "commit"]
  <2>1. job' = [job EXCEPT ![w] = j] /\ lock' = lock /\ job[w] \in CheckoutJob
    BY <1>4, JobParts DEF CheckoutMail, AtCheckout
  <2>2. j.at = "commit"
    BY <2>1 DEF CheckoutJob
  <2> HIDE DEF j
  <2>3. OpenTxn(w)'
    BY <2>1, <2>2 DEF OpenTxn, AtCheckout, TypeInv, TypeOK
  <2> QED BY <2>1, <2>3, LocksStayOpen
<1>5. ASSUME NEW w \in Workers, RestoreFetch(w) PROVE LocksOpen'
  <2> DEFINE j == [job[w] EXCEPT !.at = "store", !.copy = Visible(w, Head(job[w].todo).product)]
  <2>1. job' = [job EXCEPT ![w] = j] /\ lock' = lock /\ job[w] \in CancelJob /\ AtCancel(w)
    BY <1>5, JobParts DEF RestoreFetch, AtCancel
  <2>2. j.at = "store" /\ j.atomic = job[w].atomic
    BY <2>1 DEF CancelJob
  <2> HIDE DEF j
  <2>3. OpenTxn(w) => OpenTxn(w)'
    BY <2>1, <2>2 DEF OpenTxn, AtCheckout, AtCancel, TypeInv, TypeOK
  <2> QED BY <2>1, <2>3, LocksStayOpen DEF LocksOpen
<1>6. ASSUME NEW w \in Workers, RestoreStore(w) PROVE LocksOpen'
  <2> DEFINE line == Head(job[w].todo)
             row == Restored(latest[line.product], job[w].copy, line.qty)
             j == [job[w] EXCEPT !.todo = Tail(@),
                                 !.at = IF Len(job[w].todo) = 1 THEN "close" ELSE "fetch"]
  <2>1. /\ job[w] \in CancelJob /\ AtCancel(w)
        /\ job[w].todo \in Seq(Line) /\ job[w].todo # <<>>
    BY <1>6, JobParts DEF RestoreStore, AtCancel
  <2>2. /\ job' = [job EXCEPT ![w] = j]
        /\ IF job[w].atomic THEN WriteInTxn(w, line.product, row) ELSE WriteNow(line.product, row)
    BY <1>6 DEF RestoreStore
  <2>3. j.at \in {"close", "fetch"} /\ j.atomic = job[w].atomic /\ line.product \in Products
    BY <2>1, LineSeq DEF CancelJob, Line
  <2> HIDE DEF j, line, row
  <2>4. OpenTxn(w)' = job[w].atomic /\ OpenTxn(w) = job[w].atomic
    BY <2>1, <2>2, <2>3 DEF OpenTxn, AtCheckout, AtCancel, TypeInv, TypeOK, CancelJob
  <2>5. CASE job[w].atomic
    <3>1. lock'[line.product] = w /\ \A p \in Products \ {line.product} : lock'[p] = lock[p]
      BY <2>2, <2>3, <2>5, WriteInTxnRows
    <3> QED BY <2>2, <2>4, <2>5, <3>1, LocksStayOpen
  <2>6. CASE ~job[w].atomic
    <3>1. lock' = lock
      BY <2>2, <2>6 DEF WriteNow
    <3> QED BY <2>2, <2>4, <3>1, LocksStayOpen DEF LocksOpen
  <2> QED BY <2>5, <2>6
<1>7. ASSUME NEW w \in Workers, EditSave(w) PROVE LocksOpen'
  <2>1. job' = [job EXCEPT ![w] = Idle] /\ lock' = lock /\ job[w].at = "edit"
    BY <1>7 DEF EditSave, WriteNow
  <2>2. ~OpenTxn(w)
    BY <2>1 DEF OpenTxn, AtCheckout, AtCancel
  <2> QED BY <2>1, <2>2, LocksStayOpen DEF LocksOpen
<1>11. ASSUME NEW w \in Workers, UpdateSave(w) PROVE LocksOpen'
  <2>1. job' = [job EXCEPT ![w] = Idle] /\ lock' = lock /\ job[w].at = "update"
    BY <1>11 DEF UpdateSave
  <2>2. ~OpenTxn(w)
    BY <2>1 DEF OpenTxn, AtCheckout, AtCancel
  <2> QED BY <2>1, <2>2, LocksStayOpen DEF LocksOpen
<1>8. ASSUME NEW p \in Products, Archive(p) PROVE LocksOpen'
  BY <1>8 DEF Archive, WriteNow, LocksOpen, OpenTxn, AtCheckout, AtCancel
<1>9. CASE UNCHANGED vars
  BY <1>9 DEF vars, LocksOpen, OpenTxn, AtCheckout, AtCancel
<1>10. ASSUME NEW w \in Workers, CheckoutCommit(w) \/ CancelClose(w) \/ RollbackTxn(w)
       PROVE  LocksOpen'
  BY <1>2, <1>10 DEF CheckoutCommit, CancelClose, RollbackTxn
<1> QED
  BY <1>1, <1>3, <1>4, <1>5, <1>6, <1>7, <1>8, <1>9, <1>10, <1>11
  DEF Next, Step, DeadlockVictim, Fail

LEMMA InitLocksOpen == Init => LocksOpen
BY InventoryAssumption DEF Init, LocksOpen

\* A row lock is held by a transaction that is still open, never by an idle
\* process, a PATCH or an edit: whoever waits for a row waits for a request that
\* is at work, wherever requests fail or are the victim of a deadlock.
THEOREM LocksEndWithTransactions ==
    Spec => [](\A p \in Products : lock[p] = NoWorker \/ OpenTxn(lock[p]))
<1>1. TypeInv /\ LocksOpen => \A p \in Products : lock[p] = NoWorker \/ OpenTxn(lock[p])
  BY DEF TypeInv, TypeOK, LocksOpen
<1> QED BY <1>1, InitTypeInv, NextTypeInv, InitLocksOpen, NextLocksOpen, PTL DEF Spec

-----------------------------------------------------------------------------
(* One request at a time                                                   *)

\* No product is named twice.
Distinct(items) ==
    \A i, k \in 1 .. Len(items) : items[i].product = items[k].product => i = k

\* What validate_items checked still holds of what is left to be taken.
InStock(items) ==
    \A i \in 1 .. Len(items) : latest[items[i].product].stock >= items[i].qty

\* A request nobody disturbs: it finds in the rows what it read.
Undisturbed(w) ==
    /\ job[w].at = "line" => Distinct(job[w].todo) /\ InStock(job[w].todo)
    /\ AtCancel(w) => job[w].atomic /\ order[job[w].order].status = "placed"
    /\ job[w].at = "update" => order[job[w].order].status = "placed"
    /\ job[w].at = "store" => job[w].copy.stock = latest[Head(job[w].todo).product].stock

\* One process, requests that write stock in one transaction or not at all, and
\* carts without a repeated product.
Serial(w) ==
    /\ Workers = {w}
    /\ Endpoints \cap {"patch", "edit"} = {}
    /\ \A cart \in Carts : Distinct(cart)

SerialInv(w) == Undisturbed(w) /\ miscounted = {}

\* An idle process holds no lock, and the rows are committed.
LEMMA IdleHoldsNone ==
    ASSUME TypeInv, NEW w \in Workers, Workers = {w}, LocksOpen, job[w] = Idle,
           \A p \in Products : Locked(p), NEW p \in Products
    PROVE  lock[p] = NoWorker /\ latest[p] = product[p]
<1>1. ~OpenTxn(w)
  BY DEF OpenTxn, AtCheckout, AtCancel, Idle
<1> QED BY <1>1 DEF LocksOpen, TypeInv, TypeOK, Locked

\* A process that becomes idle has read nothing.
LEMMA IdleIsSerial ==
    ASSUME TypeInv, NEW w \in Workers, SerialInv(w),
           job' = [job EXCEPT ![w] = Idle], miscounted' = miscounted
    PROVE  SerialInv(w)'
<1>1. job'[w] = Idle
  BY DEF TypeInv, TypeOK
<1> QED BY <1>1 DEF SerialInv, Undisturbed, AtCancel, Idle

\* The tail of a list in which no product is named twice does not name its head.
LEMMA DistinctTail ==
    ASSUME NEW s \in Seq(Line), s # <<>>, Distinct(s)
    PROVE  /\ Distinct(Tail(s))
           /\ s[1] = Head(s) /\ 1 \in 1 .. Len(s)
           /\ \A i \in 1 .. Len(Tail(s)) :
                 /\ i + 1 \in 1 .. Len(s) /\ Tail(s)[i] = s[i + 1]
                 /\ Tail(s)[i].product # Head(s).product
<1>1. /\ Len(Tail(s)) = Len(s) - 1 /\ Len(s) \in Nat \ {0}
      /\ \A i \in 1 .. Len(Tail(s)) : Tail(s)[i] = s[i + 1]
      /\ Head(s) = s[1]
  BY HeadTailProperties, EmptySeq, LenProperties
<1>2. ASSUME NEW i \in 1 .. Len(Tail(s))
      PROVE  i + 1 \in 1 .. Len(s) /\ Tail(s)[i] = s[i + 1] /\ Tail(s)[i].product # Head(s).product
  <2>1. i + 1 \in 1 .. Len(s) /\ 1 \in 1 .. Len(s) /\ i + 1 # 1
    BY <1>1
  <2> QED BY <1>1, <2>1 DEF Distinct
<1>3. Distinct(Tail(s))
  <2> SUFFICES ASSUME NEW i \in 1 .. Len(Tail(s)), NEW k \in 1 .. Len(Tail(s)),
                      Tail(s)[i].product = Tail(s)[k].product
               PROVE  i = k
    BY DEF Distinct
  <2>1. s[i + 1].product = s[k + 1].product /\ i + 1 \in 1 .. Len(s) /\ k + 1 \in 1 .. Len(s)
    BY <1>2
  <2>2. i + 1 = k + 1
    BY <2>1 DEF Distinct
  <2> QED BY <2>2
<1> QED BY <1>1, <1>2, <1>3

\* What a request reads when nobody else is at work stays so until it writes it.
LEMMA NextSerialInv ==
    ASSUME NEW w \in Workers, Serial(w), TypeInv, OnItsWay, JobsAllowed, LocksOpen,
           \A p \in Products : Locked(p), SerialInv(w), [Next]_vars
    PROVE  SerialInv(w)'
<1>0. Workers = {w} /\ NoWorker # w /\ "patch" \notin Endpoints /\ "edit" \notin Endpoints
  BY InventoryAssumption DEF Serial
<1>1. CASE Start(w)
  <2>0. job[w] = Idle
    BY <1>1 DEF Start, CheckoutStart, CancelStart, UpdateStart, EditStart
  <2>1. \A p \in Products : lock[p] = NoWorker /\ latest[p] = product[p]
    BY <1>0, <2>0, IdleHoldsNone
  <2>2. UNCHANGED <<product, latest, lock, order, miscounted>>
    BY <1>1, StartMoves
  <2>3. miscounted' = {}
    BY <2>2 DEF SerialInv
  <2>4. Undisturbed(w)'
    <3>1. ASSUME NEW o \in Orders, NEW cart \in Carts, CheckoutStart(w, o, cart)
          PROVE  Undisturbed(w)'
      <4>1. job'[w] = [at |-> "line", order |-> o, cart |-> cart, todo |-> cart]
        BY <3>1 DEF CheckoutStart, TypeInv, TypeOK
      <4>2. cart \in Seq(Line) /\ Distinct(cart)
        BY InventoryAssumption DEF Serial
      <4>3. ASSUME NEW i \in 1 .. Len(cart) PROVE latest'[cart[i].product].stock >= cart[i].qty
        <5>1. cart[i] \in Range(cart) /\ cart[i].product \in Products
          BY <4>2, ItemOfLine, LenProperties DEF Range
        <5>2. product[cart[i].product].stock >= cart[i].qty
          BY <3>1, <5>1 DEF CheckoutStart, Purchasable
        <5> QED BY <2>1, <2>2, <5>1, <5>2
      <4> QED BY <4>1, <4>2, <4>3 DEF Undisturbed, InStock, AtCancel
    <3>2. ASSUME NEW o \in Orders, NEW endpoint \in EndpointNames, CancelStart(w, o, endpoint)
          PROVE  Undisturbed(w)'
      <4> DEFINE j == [at |-> "fetch", atomic |-> endpoint = "cancel", order |-> o,
                       todo |-> order[o].items,
                       copy |-> product[Head(order[o].items).product]]
      <4>1. job' = [job EXCEPT ![w] = j]
        BY <3>2, Zenon DEF CancelStart
      <4>2. j.at = "fetch" /\ j.order = o /\ j.atomic = (endpoint = "cancel")
        BY Zenon
      <4> HIDE DEF j
      <4>3. endpoint = "cancel" /\ order[o].status = "placed"
        BY <1>0, <3>2 DEF CancelStart
      <4>4. job'[w] = j
        BY <4>1 DEF TypeInv, TypeOK
      <4> QED BY <2>2, <4>2, <4>3, <4>4 DEF Undisturbed, AtCancel
    <3>3. ASSUME NEW p \in Products, NEW status \in ProductStatus,
                 NEW stock \in EditStock \cup {product[p].stock}, EditStart(w, p, stock, status)
          PROVE  Undisturbed(w)'
      BY <1>0, <3>3 DEF EditStart
    <3>4. ASSUME NEW o \in Orders, UpdateStart(w, o) PROVE Undisturbed(w)'
      <4>1. job'[w] = [at |-> "update", order |-> o] /\ order[o].status = "placed"
        BY <3>4 DEF UpdateStart, TypeInv, TypeOK
      <4> QED BY <2>2, <4>1 DEF Undisturbed, AtCancel
    <3> QED BY <1>1, <3>1, <3>2, <3>3, <3>4 DEF Start
  <2> QED BY <2>3, <2>4 DEF SerialInv
<1>2. CASE CheckoutLine(w)
  <2> DEFINE todo == job[w].todo
             line == Head(todo)
             row == Sold(latest[line.product], line.qty)
             j == [job[w] EXCEPT !.todo = Tail(@),
                                 !.at = IF Len(job[w].todo) = 1 THEN "mail" ELSE "line"]
  <2>1. job[w] \in CheckoutJob /\ todo \in Seq(Line) /\ todo # <<>> /\ Distinct(todo) /\ InStock(todo)
    BY <1>2, JobParts DEF CheckoutLine, AtCheckout, SerialInv, Undisturbed
  <2>2. job' = [job EXCEPT ![w] = j] /\ WriteInTxn(w, line.product, row)
        /\ miscounted' = IF line.qty > latest[line.product].stock
                         THEN miscounted \cup {line.product} ELSE miscounted
    BY <1>2 DEF CheckoutLine
  <2>3. /\ j.todo = Tail(todo)
        /\ j.at = IF Len(todo) = 1 THEN "mail" ELSE "line"
    BY <2>1 DEF CheckoutJob
  <2> HIDE DEF j, row
  <2>4. job'[w] = j
    BY <2>2 DEF TypeInv, TypeOK
  <2>5. line.product \in Products /\ line.qty \in Nat \ {0}
    BY <2>1, LineSeq DEF Line
  <2>6. /\ Distinct(Tail(todo)) /\ todo[1] = line /\ 1 \in 1 .. Len(todo)
        /\ \A i \in 1 .. Len(Tail(todo)) :
              /\ i + 1 \in 1 .. Len(todo) /\ Tail(todo)[i] = todo[i + 1]
              /\ Tail(todo)[i].product # line.product
    BY <2>1, DistinctTail
  <2>7. \A p \in Products \ {line.product} : latest'[p] = latest[p]
    BY <2>2, <2>5, WriteInTxnRows
  <2>8. latest[line.product].stock \in Nat /\ latest[line.product].stock >= line.qty
    BY <2>1, <2>5, <2>6 DEF InStock, TypeInv, TypeOK, Row
  <2>9. miscounted' = {}
    BY <2>2, <2>5, <2>8 DEF SerialInv
  <2>10. ASSUME NEW i \in 1 .. Len(Tail(todo))
         PROVE  latest'[Tail(todo)[i].product].stock >= Tail(todo)[i].qty
    <3>1. Tail(todo)[i].product \in Products
      BY <2>1, <2>6, ItemOfLine
    <3> QED BY <2>1, <2>6, <2>7, <3>1 DEF InStock
  <2> HIDE DEF todo, line
  <2>11. Undisturbed(w)'
    BY <2>3, <2>4, <2>6, <2>10 DEF Undisturbed, InStock, AtCancel
  <2> QED BY <2>9, <2>11 DEF SerialInv
<1>3. CASE CheckoutMail(w)
  <2>1. job[w] \in CheckoutJob /\ UNCHANGED <<latest, order, miscounted>>
        /\ job' = [job EXCEPT ![w].at = "commit"]
    BY <1>3, JobParts DEF CheckoutMail, AtCheckout, history
  <2>2. job'[w].at = "commit"
    BY <2>1 DEF TypeInv, TypeOK, CheckoutJob
  <2> QED BY <2>1, <2>2 DEF SerialInv, Undisturbed, AtCancel
<1>4. CASE RestoreFetch(w)
  <2> DEFINE p == Head(job[w].todo).product
             j == [job[w] EXCEPT !.at = "store", !.copy = Visible(w, p)]
  <2>1. /\ job[w] \in CancelJob /\ job[w].todo \in Seq(Line) /\ job[w].todo # <<>>
        /\ job[w].atomic /\ order[job[w].order].status = "placed"
    BY <1>4, JobParts DEF RestoreFetch, AtCancel, SerialInv, Undisturbed
  <2>2. job' = [job EXCEPT ![w] = j] /\ UNCHANGED <<latest, order, miscounted>>
    BY <1>4 DEF RestoreFetch, history
  <2>3. /\ j.at = "store" /\ j.copy = Visible(w, p) /\ j.todo = job[w].todo
        /\ j.atomic = job[w].atomic /\ j.order = job[w].order
    BY <2>1 DEF CancelJob
  <2> HIDE DEF j
  <2>4. job'[w] = j
    BY <2>2 DEF TypeInv, TypeOK
  <2>5. p \in Products
    BY <2>1, LineSeq DEF Line
  <2>6. Visible(w, p) = latest[p]
    BY <1>0, <2>5 DEF Visible, Locked, TypeInv, TypeOK
  <2> QED BY <2>1, <2>2, <2>3, <2>4, <2>6 DEF SerialInv, Undisturbed, AtCancel
<1>5. CASE RestoreStore(w)
  <2> DEFINE line == Head(job[w].todo)
             j == [job[w] EXCEPT !.todo = Tail(@),
                                 !.at = IF Len(job[w].todo) = 1 THEN "close" ELSE "fetch"]
  <2>1. /\ job[w] \in CancelJob /\ job[w].atomic /\ order[job[w].order].status = "placed"
        /\ job[w].copy.stock = latest[line.product].stock
    BY <1>5, JobParts DEF RestoreStore, AtCancel, SerialInv, Undisturbed
  <2>2. /\ job' = [job EXCEPT ![w] = j] /\ order' = order
        /\ miscounted' = IF Miscounts(job[w]) THEN miscounted \cup {line.product} ELSE miscounted
    BY <1>5 DEF RestoreStore
  <2>3. /\ j.at \in {"close", "fetch"} /\ j.atomic = job[w].atomic /\ j.order = job[w].order
    BY <2>1 DEF CancelJob
  <2> HIDE DEF j
  <2>4. job'[w] = j
    BY <2>2 DEF TypeInv, TypeOK
  <2>5. miscounted' = {}
    BY <2>1, <2>2 DEF Miscounts, SerialInv
  <2> QED BY <2>1, <2>2, <2>3, <2>4, <2>5 DEF SerialInv, Undisturbed, AtCancel
<1>6. CASE CheckoutCommit(w) \/ CancelClose(w)
  BY <1>6, IdleIsSerial DEF CheckoutCommit, CancelClose, history
<1>7. CASE EditSave(w)
  BY <1>0, <1>7 DEF EditSave, JobsAllowed
<1>8. CASE RollbackTxn(w)
  BY <1>8, IdleIsSerial DEF RollbackTxn, history
<1>9. ASSUME NEW q \in Products, Archive(q) PROVE SerialInv(w)'
  <2> DEFINE row == [latest[q] EXCEPT !.status = "archived", !.is_active = FALSE]
  <2>1. WriteNow(q, row) /\ UNCHANGED <<job, order, miscounted>>
    BY <1>9 DEF Archive, history
  <2>2. row.stock = latest[q].stock
    BY DEF TypeInv, TypeOK, Row
  <2> HIDE DEF row
  <2>3. \A p \in Products : latest'[p].stock = latest[p].stock
    BY <2>1, <2>2, WriteNowRows
  <2>4. AtCancel(w)' = AtCancel(w)
    BY <2>1 DEF AtCancel
  <2>6. job[w].at = "line" => InStock(job[w].todo)'
    <3> SUFFICES ASSUME job[w].at = "line", NEW i \in 1 .. Len(job[w].todo)
                 PROVE  latest'[job[w].todo[i].product].stock >= job[w].todo[i].qty
      BY <2>1 DEF InStock
    <3>1. job[w].todo \in Seq(Line) /\ InStock(job[w].todo)
      BY JobParts DEF AtCheckout, SerialInv, Undisturbed
    <3>2. job[w].todo[i].product \in Products
      BY <3>1, ItemOfLine
    <3> QED BY <2>3, <3>1, <3>2 DEF InStock
  <2>7. job[w].at = "store" => job[w].copy.stock = latest'[Head(job[w].todo).product].stock
    <3> SUFFICES ASSUME job[w].at = "store"
                 PROVE  job[w].copy.stock = latest'[Head(job[w].todo).product].stock
      OBVIOUS
    <3>1. job[w].todo \in Seq(Line) /\ job[w].todo # <<>>
          /\ job[w].copy.stock = latest[Head(job[w].todo).product].stock
      BY JobParts DEF AtCancel, SerialInv, Undisturbed
    <3>2. Head(job[w].todo).product \in Products
      BY <3>1, LineSeq DEF Line
    <3> QED BY <2>3, <3>1, <3>2
  <2>8. Undisturbed(w)'
    BY <2>1, <2>4, <2>6, <2>7 DEF SerialInv, Undisturbed
  <2> QED BY <2>1, <2>8 DEF SerialInv
<1>10. CASE UNCHANGED vars
  BY <1>10 DEF vars, history, SerialInv, Undisturbed, InStock, AtCancel
<1>12. CASE UpdateSave(w)
  <2>1. order[job[w].order].status = "placed"
    BY <1>12 DEF UpdateSave, SerialInv, Undisturbed
  <2> QED BY <1>12, <2>1, UpdateSaveMoves, IdleIsSerial
<1>11. ASSUME NEW v \in Workers, Start(v) \/ Step(v) \/ DeadlockVictim(v) \/ Fail(v)
       PROVE  SerialInv(w)'
  BY <1>0, <1>1, <1>2, <1>3, <1>4, <1>5, <1>6, <1>7, <1>8, <1>11, <1>12
  DEF Step, DeadlockVictim, Fail
<1> QED BY <1>9, <1>10, <1>11 DEF Next

\* Requests served one after the other, in one transaction each, never reserve
\* more than there is, wherever they fail and whatever is archived meanwhile:
\* that a checkout oversells needs an overlap, a PATCH that is cut in half, an
\* edit, or a cart that names a product twice.
THEOREM SerialRequestsReserve ==
    ASSUME NEW w \in Workers, Serial(w)
    PROVE  Spec => []ReservedWithinStock
<1> DEFINE IInv == /\ TypeInv /\ OnItsWay /\ JobsAllowed /\ LocksOpen /\ SerialInv(w)
                   /\ \A p \in Products : Locked(p) /\ StockBooks(p)
<1>1. Init => IInv
  <2> SUFFICES ASSUME Init PROVE SerialInv(w)
    BY InitTypeInv, InitOnItsWay, InitJobsAllowed, InitLocksOpen, InitBooks
  <2> QED BY DEF Init, SerialInv, Undisturbed, AtCancel, Idle
<1>2. IInv /\ [Next]_vars => IInv'
  BY NextTypeInv, NextOnItsWay, NextJobsAllowed, NextLocksOpen, NextLocked,
     NextStockBooks, NextSerialInv
<1>3. IInv => ReservedWithinStock
  <2> SUFFICES ASSUME IInv, NEW p \in Products PROVE Ordered(p, {"placed"}) <= InitStock[p]
    BY DEF ReservedWithinStock
  <2>1. product[p].stock + Ordered(p, {"placed"}) = InitStock[p] /\ IsFiniteSet(UnitsOf(p, {"placed"}))
    BY DEF StockBooks, SerialInv
  <2>2. Ordered(p, {"placed"}) \in Nat /\ product[p].stock \in Nat
    BY <2>1, FS_CardinalityType DEF Ordered, TypeInv, TypeOK, Row
  <2> QED BY <2>1, <2>2
<1> QED BY <1>1, <1>2, <1>3, PTL DEF Spec

=============================================================================
