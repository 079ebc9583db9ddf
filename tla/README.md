# HandCraft: models, checks and proofs

HandCraft is a marketplace: a Django REST backend with PostgreSQL, Redis and
Celery behind a Next.js frontend. This directory models the parts of the backend
in which several processes change the same rows. The modules are TLA+; TLC checks
them on small instances and TLAPS proves their safety properties for all instances.

Files under `src/` often carry the name of another file. The names used here are
those on disk; the table gives the Django module each one really is.

| file | Django module |
|---|---|
| `models (23).py`, `search_indexes.py`, `__init__ (28).py`, `serializers (24).py`, `views (27).py` | orders: models, serializers, views, tasks, urls |
| `views (33).py`, `asgi.py`, `development.py`, `base.py`, `__init__ (34).py`, `urls (32).py` | products: models, serializers, views, urls, search document, filters |
| `wsgi.py`, `manage.py`, `requirements.txt`, `request_logging.py` | reviews: models, serializers, views, urls |
| `models (16).py`, `serializers (17).py`, `views (20).py`, `urls (19).py` | messaging: models, serializers, views, urls |
| `models (9).py`, `serializers (10).py`, `views (13).py` | favorites: models, serializers, views |
| `__init__ (2).py`, `views.py`, `__init__ (6).py`, `urls.py` | accounts: models, serializers, views, permissions |
| `index (41).ts`, `index (42).ts`, `index (46).ts` | rate limit middleware, logging middleware, analytics |
| `CartList.tsx`, `ArtisanList.tsx`, `ReviewsList.tsx`, `useAuth.ts`, `AuthContext.ts`, `ProductsList.tsx`, `useApi.ts` | payment service, mail service, number and slug helpers, validators, pagination, exceptions, S3 storage |
| `payment_service.py`, `helpers.py`, `storage.py`, `pagination.py`, `validators.py`, `docker-compose.yml` | Celery application, settings (base, production, development), root urls, deployment |
| `filters.py`, `__init__ (31).py`, `serializers.py` | admin of orders, products, accounts |

## Inventory of the system

Processes: gunicorn runs four workers, each request is cut off after 120 s
(`docker-compose.yml:69`). A Celery worker of four processes runs tasks; Celery beat
starts `auto_complete_delivered_orders`, `send_order_reminder_emails` and
`cleanup_expired_custom_requests` once a day (`payment_service.py:20-33`). They
share PostgreSQL (READ COMMITTED; `ATOMIC_REQUESTS` is not set, so a view without
`@transaction.atomic` commits every statement by itself) and the Redis broker.

| component | state | operations | who calls it | what makes it correct |
|---|---|---|---|---|
| Order lifecycle | order row: status, one time stamp per status; profile counters | PATCH status, POST cancel, daily sweep | customer, artisan, admin, beat | status follows the table of `validate_status`; stamps match; stock given back once; counted once, and a failure costs one count |
| Stock | product row: stock, status, is_active, total_sales; order items | checkout, both cancellations, writes of other statuses, edit, archive | customer, artisan | nothing on sale without stock; sales counted exactly; no lost decrement; units conserved; requests end |
| Custom order requests | request row: status, price, expires_at, accepted_at | submit, quote, accept, decline, daily expiry | customer, artisan, beat | quoted once, closed once; accepted at the price that was read; only overdue quotes expire |
| Order tasks | mails queued in Redis, their retries | confirmation mail, status mail | the first two | no mail forgotten, none for an order that is not there, none older than its change |
| Reviews | review row: rating, reply, helpful count; rating of product and shop | create, edit, delete, reply, vote; forms of product and shop | customer, artisan | the ratings are those of the reviews; a reply and a deletion stand; no vote is invented |
| Messaging | conversations, messages, read marks | start, send, open, mark as read, archive | both | one conversation per pair and product; nothing read that was not shown; a message reaches one mailbox |
| Accounts | user, profile, totals, shop name and slug | register, user and profile forms, change of password; credits of the sweep | all, the sweep | every user has a profile; one address per shop; totals earned; passwords stand |
| Favorites | wishlist and followed shops | add, remove, toggle | customer | the row is what the last answer said |
| Catalogue | images, view count; categories, tags, templates | upload, delete image, view | artisan, all | one primary image; at most ten; views counted |
| Prices, search, rate limit and logging, analytics, payments, helpers, storage, settings, admin forms | see [Not modelled](#not-modelled) | | | |

How they meet. Checkout and cancellation write order and product rows together and
call the tasks; the sweep writes orders and then the profiles of Accounts; a review
writes the rating of the product and of the shop, which the forms of Catalogue and
Accounts overwrite. A module models the rows its properties relate and represents
the rest by what its handlers do to them (`returned`, `credit`, `queued` in
OrderLifecycle; `rated` in Reviews; `CreditRead` and `CreditSave` in Accounts).

Hard behaviours. No view but checkout locks a row, and nearly every view reads a
row, decides on its copy and writes it back, often with all columns
(`Model.save()`). So overlapping requests, the sweep beside a request, a process
that is killed between two commits, mails queued before the commit, and row locks
taken in the order of the cart are where this program can go wrong. The list with
lines is `hazards` in `PROJECT.json`.

## Modules

```
OrderStatus            statuses, transition table, permission checks (no state)
  OrderFlow            abstract: one status per order, moves along the table
  OrderLifecycle       handlers of orders, sweep, crashes            Lifecycle*.cfg
  Notifications        mail tasks of one order, retries, time        Notifications.cfg
Inventory              product rows, row locks, transactions         Stock*.cfg
RequestFlow            abstract: a request is quoted once and closed once
CustomRequest          handlers of custom requests, expiry task      RequestRace.cfg
Reviews                reviews and the ratings made from them        Reviews.cfg
Mailbox                abstract: a message lands in one box, leaves it when read
Messaging              conversations and messages                    Messaging.cfg
Accounts               users, profiles, totals        Accounts.cfg, AccountWithoutProfile.cfg
ProductPage            favorites, images, views                      ProductPage.cfg
```

`MC<module>` gives each component's bounds to TLC, `<module>Proofs` holds its
theorems. OrderLifecycle and Notifications share the transition table and the
permission checks of OrderStatus; Notifications is OrderLifecycle's mail, with the
requests reduced to the statuses they commit.

### How a handler becomes actions

A handler is cut exactly where another process can come in between: at each SQL
statement that reads or writes the modelled rows, at the call of the broker and at
the commit. What it holds in memory between two cuts (its copy of the row, the
items still to do) is the record `job[w]` of its process. Validation errors,
404 and 403 answers change nothing, so a request that gets one is the absence of
a step. `Bug_` operators are mutated forms of the definition that follows them:
each is a plausible slip, and some run must notice it.

Overlaps break much of what a reader would expect here, so several properties say
what holds *unless* requests overlapped. Their history variables (`raced`, `requoted`,
`disturbed`, `overlapped` with `doubtful`, `excused`, `restocked`, `miscounted`)
record the overlap where it happens, per row or per request, and no guard reads
them. Others record what a property compares with: `seen`, `swept`, `agreed`,
`raised`, `lost`, `shown`.

**OrderLifecycle.** `order[o]` is the committed row (status, the set of filled
time-stamp columns, and `age`, whole days since `delivered_at`). PATCH is
`PatchRead` (read, permission checks, `validate_status`), `PatchRestore` (the loop
over the items, when cancelling), `PatchSave` (`order.save()`: all columns from
the copy) and `PatchEnqueue` (`delay()`). POST cancel is one transaction:
`CancelRead`, `CancelSave` (written, row lock held, not visible), `CancelEnqueue`
(the broker has the task before the commit), `CancelCommit`. The sweep is
`SweepStart` (its query runs once), then per order `SweepSave`
(`update_fields=["status", "completed_at"]`), `CreditArtisan`, `CreditCustomer`:
the profile counts the order, or the exception is dropped (`except Exception: pass`),
which counts among the failures.
`Tick` is a day. `Crash` kills a process. `returned`, `credit`, `queued`, `seen` and
`swept` record what happened so that properties can speak of it; `returned` and `credit`
stand for the product and profile rows written. An order is `raced` from the moment
two processes are about to write it at once, a cancellation under way included.

**Inventory.** `product` holds the committed rows, `latest` the rows as the holder
of the row lock sees them, `lock` the holder. `WriteInTxn`, `WriteNow`, `CommitTxn`
and `RollbackTxn` are the database; `DeadlockVictim` is its deadlock detector.
Checkout is `CheckoutStart` (`validate_items`: no lock), `CheckoutLine` per line
(`select_for_update`, the item, the clamped stock), `CheckoutMail`,
`CheckoutCommit`. A cancellation is `CancelStart`, `RestoreFetch` and
`RestoreStore` per item, `CancelClose`; `atomic` tells the cancel endpoint from
PATCH. `EditStart` and `EditSave` are the artisan's form, `Archive` the delete
view. The states between placed and cancelled are in OrderLifecycle; what they do to
the stock is here: `UpdateStart` is the check of a PATCH to one of them (or the query
of the sweep), `UpdateSave` the late `order.save()`. An order cancelled in between
is placed again, although its units went back. `restocked` are the products
something other than a sale has written, `miscounted` those for which a clamp, a
stale copy, a second cancellation, a PATCH cancellation or a form may have lost or
doubled units, and those an order came to hold again after its cancellation.

**CustomRequest.** Each POST is a read step and a save step; `QuoteSave` writes all
columns from the copy, the answers only those in `update_fields`. `Cleanup` is the single
UPDATE of the task, `Lapse` the moment `expires_at` passes. An accept remembers the
price it read (the response shows it); `agreed` is that price of the last acceptance
saved, `requoted` the requests on which two quotes overlapped.

**Notifications.** `history` is the sequence of statuses one order got, `task` the
mails queued for it, in order. `PlaceQueue` and `PlaceCommit`, `PatchRead`,
`PatchSave` and `PatchQueue`, `CancelRead`, `CancelQueue` and `CancelCommit` are the
requests: the first and the last kind queue before the commit, PATCH after.
`Rollback` ends a transaction that fails or runs out of time; `Kill` a request
outside one. A task is `Take` (the committed order is read, or the task raises),
`Send`, `SendRaises` (before or after the mail server took the mail) and `Lose`.
`self.retry` is `Retried`. `raised` are the tasks a
send of which raised, `lost` the changes whose mail was with a killed process. `Tick`
is a minute; the time a transaction has `left` and
the `wait` of a retry run down together.

**Reviews.** `review` has the row of a product and a customer, `rated` the rating
stored in each product and in the shop, as the set of ratings it was computed from
(average and count are functions of it). Every write of a review ends in
`Rate`, the calls of `update_rating`: `QueryRating` and `StoreRating` for the
product, then for the shop (`wsgi.py:82-91`), then once more for the product after an
edit (`requirements.txt:83`). The update of the shop may raise and
is swallowed (`SkipShop`). `FormRead` and `SaveForm` are the edit forms of product
and shop, which save the rating they were loaded with. A request is `disturbed` if
another was open with it, it was killed, or its update of the shop raised.

**Messaging.** Starting a conversation is `StartRead`, `CreateConversation`,
`AddParticipants`, `RelateProduct` and `InsertMessage`, five commits; sending is
`SendRead` and `InsertMessage`; opening is `OpenRead` (the page is fetched),
`MarkPage` (one UPDATE of *all* that is unread) and `ShowPage`; `ClearRead` and
`ClearUnread` mark without showing; `Archive`. `shown` records what users saw,
`excused` the messages that may count as read without it.

**Accounts.** `user` and `profile` are keyed by the stored address. `RegisterRead`
checks the address as typed, `InsertUser` stores it normalized, `InsertProfile`
follows in another commit. `MeRead`, `PasswordRead` and `SaveUser` are the two
views that save the whole user (the token authentication loads it first);
`FormRead`, `RenameRead` and `SaveProfile` the profile forms; `CreditRead` and
`CreditSave` the sweep's partial save of a total.

**ProductPage.** `Toggle`, `Add` and `Remove` begin a favorite's request;
`InsertRow`, `GetAgain` (the second look of `get_or_create`) and `DeleteRow` end it,
`answer` is what the user was told last. `Upload`, `Demote` and `InsertImage` are
the image view and `ProductImage.save`; `LoadProduct`, `CountView` and `SaveForm`
the view count and the form that writes it back. A thing is `doubtful` after an
overlapped request wrote it.

### The abstract specifications

`OrderFlow` and `RequestFlow` say what a client may rely on. The code implements
them only where handlers do not overlap: `FlowSpec` fails (`lifecycle_stale_write`),
and `FlowUnlessRaced` holds in both components, with any overlap on *other* orders
(in CustomRequest, until the first overlap), the sweep or task beside it and
processes killed anywhere. Executions without a race implement the two specifications
from the first step to the last (`CalmShopFollowsFlow`, `ApartRequestsFollowFlow`).
`Mailbox` is implemented without any proviso: `MailboxSpec` maps a user's box to the unread
messages of others in the user's conversations (`Boxes`, the query of
`UnreadCountView`). `InsertMessage` is `Deliver`, `MarkPage` and `ClearUnread` are
`Read`, every other step stutters, `AddParticipants` included because nothing is in
a conversation before it has its members.

## Runs

| run | instance | shows |
|---|---|---|
| `lifecycle_race` | 2 orders, 2 request workers, the sweep, 1 failure | type; the stamp of the current status is never lost; every status follows one the order had; nothing but a cancellation is announced that was not committed; counted at most once; status table, stamps and stock are right unless two writers overlapped; a failure costs the count of one order at most |
| `lifecycle_stale_write` | 1 order, 2 request workers | violation: a stale copy is written back against the table |
| `stock_all` | 1 product, 1 order, 2 processes, all endpoints, 1 late status, 1 failure | nothing on sale without stock; units conserved |
| `stock_orders` | 2 products in both orders, 2 orders, 2 processes, POST cancellation, 2 late statuses, 1 failure | sold out means empty; sales exact; no lost decrement; units conserved; no order without its mail; every request ends |
| `stock_oversell` | 1 product with 2 units, 2 processes | violation: two checkouts of the same unit |
| `request_race` | 2 requests, 2 prices, 3 request workers, the task, 2 crashes | acceptances stand for the price they read; only overdue quotes expire; RequestFlow without overlaps |
| `reviews` | 2 products of one shop, 1 customer, 2 processes, 2 review ids, 2 votes | type; no vote invented; ratings repaired by the next undisturbed request; replies and deletions undone by overlaps only |
| `messaging` | 2 users, 1 product, 2 processes, 2 conversations, 2 messages | type; two members in every conversation written to; read means shown; one conversation per product; refinement of Mailbox |
| `notifications` | 2 processes, 3 retries, 2 mails, 3 changes | no confirmation without its order; no mail older than its change; retries outlast a request; no mail forgotten but a killed process's |
| `accounts` | 3 spellings of 2 addresses, 2 shop names with one slug, 2 processes | totals earned; one address per shop; passwords stand |
| `account_without_profile` | the same, 1 process, no crash | violation: a user without a profile |
| `product_page` | limit of 2 images, 4 image ids, 3 row ids, 2 views, 2 processes | answers stand; one primary image; images bounded; views counted |

Every passing run takes less than three minutes; the largest is `stock_all` with
2.1 million distinct states; `accounts` and `reviews` have 1.7 million each.

**Bounds.** Handlers meet on one row, and each property is about one row or one pair
(row, handler); two handlers on one row beside the task give every pair of overlaps.
`request_race` has a third request worker, since there two stale copies and an answer
must meet, and two requests, since its refinement is about what handlers of another
request do not disturb. `lifecycle_race` has two orders, since a failure must not cost
the rest of the sweep's batch; its CONSTRAINT `OverlapOnOneOrder` lets requests
overlap on one order while the other waits untouched, and afterwards lets one request
at a time work beside the sweep of both. Two products, listed in both orders, are the
least with a lock cycle. Stock of 1 or 2 units with lines of 1 or 2 reaches the last
unit, the clamp at zero and a line larger than the rest. One day separates "not due"
from "due". In Notifications the delay is one minute, `Limit` is two and there are
three retries, the proportions of 60 s, 120 s and 3 in the code. Two votes, two
messages and two views are the least of which one can be lost. `MaxUpdates` bounds the
late statuses in Inventory, since an order that is revived and cancelled again and
again has its units put back each time. `MaxCredits`, `MaxVotes`, `MaxViews`,
`MaxTasks`, `MaxChanges`, `MaxConversations` and `MaxMessages` bound counters and
tables, `ReviewIds`, `RowIds` and `ImageIds` the keys in use; `MaxCrashes` and
`MaxFailures` how often a process is killed. The theorems hold for every value of
them.

**Symmetry** is used for processes, for orders and for ids that no definition tells apart,
and only in runs without liveness properties.

**Deadlock.** It is checked in `lifecycle_race`, `lifecycle_stale_write`, `stock_all`
and `request_race`. `CHECK_DEADLOCK FALSE` stands where the bounded requests run out:
users then have nothing left to send and the system rests. (`stock_orders` checks
`RequestsEnd` instead: no request rests half done.)

**Fairness** is assumed in one place, `stock_orders`: a started request goes on, as
gunicorn serves a request to its end or kills it, which is `Fail`; a process waiting
for a row lock gets it (`SF` of `Step`), as PostgreSQL queues waiters first come,
first served; and `WF` of `DeadlockVictim` is its detector. No liveness is claimed of
the sweep, of the expiry task or of the mails. Beat would start the daily tasks, but
their queue has no worker as deployed (see [below](#met-while-reading-the-code-without-a-run)),
so nothing in the repository justifies the fairness such a claim needs. What can be
said without it is said as safety: `LossesAreFailures` and `NoMailForgotten` bound
what may be missing, however long the tasks wait.

**Time.** In OrderLifecycle a `Tick` is a day and happens when no process is at work;
a `Lapse` in CustomRequest when no quote of that request is: requests live at most
120 s and the sweep runs once a day, while the deadlines are days. Answers to a quote
may well be at work when it lapses. In Notifications, where a request's 120 s matter,
time passes while requests and tasks are under way.

## What the violations say

* `lifecycle_stale_write`: `order.save()` (`search_indexes.py:300`) writes all columns
  of a copy validated before another request committed. A cancelled order comes back
  to life. The sweep's partial save (`serializers (24).py:138`) does the same to an
  order refunded after its query ran.
* `stock_oversell`: the stock is validated before the lock is taken, and the clamp at
  `search_indexes.py:206-208` accepts what it should refuse. The same clamp hides two
  lines of one product in a cart, since `validate_items` looks at each line alone
  (`search_indexes.py:159-168`): a cart that names the last unit twice is oversold with
  nobody else at work (in the model, `<<Of(a, 1), Of(a, 1)>>` with one process). With
  such carts left out, requests served one after the other never reserve more than
  there is (`SerialRequestsReserve`).
* `account_without_profile`: registration commits the user, then inserts the profile;
  every artisan's shop starts as "*first name*'s Workshop", which must be unique, so
  the second artisan of a first name gets an error, no profile and an address that
  cannot be registered again.

What the provisos of the passing properties stand for: an order cancelled twice at once gives its
units back twice, since neither cancel view locks the order it checks; an order that
a late PATCH revives holds units that are back in stock, and gives them back again
when it is cancelled again; a PATCH
cancellation that fails half way can be repeated; of two overlapping
quotes the slower replaces an accepted one, or changes the price under an acceptance
already read; ratings stay wrong until the next undisturbed request; a
stale edit inserts a deleted review again or erases a reply; two first messages make
two conversations; a profile form takes back a sale the sweep counted; PATCH
`/auth/me/` brings an old password back; two uploads leave two primary images.

### Met while reading the code, without a run

* Orders: `is_cancellable` (`models (23).py:151-155`) excludes processing, while
  `README.md:361` says "before shipping". Accepting a quote creates no order, while
  `README.md:367` says it does (`linked_order` is never set). `README.md:356` says the
  artisan is notified; only the customer is mailed. An artisan's edit that overlaps
  the archiving of the product writes `is_active` back (`asgi.py:232`).
* Tasks: `payment_service.py:36-38` routes the tasks of orders to a queue `orders`,
  and `docker-compose.yml:95` starts the worker without `-Q`, so on the default queue
  only: deployed like this, no task of orders runs: no delivered order is completed,
  no quote expires by the task and no mail is sent. The models let the tasks run, as
  they do once a worker serves the queue, and assume nowhere that they do. The mail of
  a cancellation is queued inside its transaction, may be sent before the commit and
  then tells the old status.
* Reviews: `README.md:370` and `wsgi.py:16-17` ask for a delivered order; no check
  does. `ReviewImage` has no field `sort_order`, which the create serializer passes
  (`manage.py:129`): a review with images is committed and then answered with an error.
* Messaging: a product id that does not exist makes a new conversation each time, a
  message about no product is added to any conversation of the two, and nothing takes
  `is_archived` back.
* Accounts: the address is looked up as typed and stored normalized; the INSERT's
  error is the answer to the second spelling. Two shop names can have one slug: the
  rename then ends in an error of the server.
* Catalogue: `<slug:slug>/` (`base.py:17`) comes before `categories/`, `tags/` and the
  templates and shadows them (`README.md:282`). `filter_on_sale` (`urls (32).py:126`)
  uses `models.F` without importing `models`.

## Proofs

The theorems hold for every set of orders, products, users, requests and processes,
every cart, and any number of failures, messages, mails and votes. The assumptions
are the named `ASSUME`s of the modules, which give the constants their types, with
two that say more: `NotificationsAssumption` (`Limit < MaxRetries * RetryDelay`: the
120 s of a request end before the 180 s of the retries) and `PageAssumption` (the
processes and image ids are finite sets, as the theorem counts them).

*OrderLifecycle.* `GInv`, for `StampsTrueToStatus`, `HistoryAlwaysGrounded` and
`MailsTellTheTruth`: every copy a handler holds already has its stamp, what a handler
is about to write follows a status the order has had (`seen` only grows, so no overlap
can undo it), and a request about to queue a mail has committed its status. `SInv`
adds `Calm(o)` for every order that is not `raced`: it has one writer at most, that
writer's copy is the committed row, and the units given back are those the row and the
writer account for. It gives `OrdersFollowFlow`, `StampsAreKept` and
`StockIsReturnedOnce`, and the refinement `CalmShopFollowsFlow`: as every step changes
the status of one order at most (`OneRowMoves`), an execution without a race
implements OrderFlow. `FlowSpec` without that proviso is what `lifecycle_stale_write`
refutes. Why it is needed: the three speak of writes, and a write is right only
because the copy was fresh, which is what overlaps destroy. `SalesCountedOnce` is
about time. `DInv`: no process is at work when a day passes, so a copy has been
delivered for a day exactly if its row has, and such an order is never written as
delivered again, raced or not (`Settled`). `CInv`: orders in the sweep's batch are
uncounted, and what a profile counted is settled, so no later query finds it. It
assumes one sweep at a time (`OneSweep`): beat starts it daily, and
`CELERY_TASK_TIME_LIMIT` is 30 minutes (`helpers.py:218`). `FailuresLoseOneOrderEach`
follows the set `Forgotten`: of the orders completed, a profile has yet to count only
those a process is on its way to (`WillCredit`), and the loop comes to its next order
when both profiles are done. So a step makes an order forgotten only if it is a
failure, and only the order of the process that failed (`LostStep`); `Forgotten` is
finite and grows by one at most as `crashes` does. It needs no assumption on the
number of sweeps.

*Inventory.* `OnSaleHasStock`, for all endpoints, needs the invariant that committed
rows, rows under a lock and the copies held by cancellations all satisfy it or are
normalised before they are written; `SoldOutHasNone` the same without edits;
`NoLostDecrement` carries the equation from the committed rows to the locked ones,
which only the lock holder writes; `OrdersAreConfirmed` says that a checkout past
its mail step, and every order it committed, is in `mailed`.

The other Inventory theorems count. `Units` and `UnitsOf` are sets (unit *n* of line
*i* of order *o*) and `Ordered` is a cardinality, so that the library's facts on finite
sets apply; a sum over a set would need an induction the provers do not have.
`OnItsWay`: a checkout goes through its cart for an order that is its own and not yet
there, a cancellation through the items of an order that is; what they have done so far
is `Taken` and `PutBack`, the first lines of the cart and of the order. `Locked`: a row
without a lock is the committed one, and a checkout has locked what it has taken.
`SalesBooks` and `StockBooks` are the accounts of one product: the committed row
balances with the committed orders, the locked row with these and what its holder has
taken or put back. Why they are needed: the properties speak of committed rows only, and
a commit keeps them because the rows of the open transaction were right.
`SalesAreExact` assumes that no artisan edits (a form writes `total_sales` back);
`StockIsConserved` assumes nothing and speaks of products not `miscounted`: a
cancellation at work on such a product finds its order placed when it commits
(`StockBooks`), as whatever else cancelled the order would have put back its units
too, and a late status that finds its order cancelled miscounts every product of the
order, while one that finds it placed changes nothing the equation counts.

`LocksEndWithTransactions` says that whoever waits for a row waits for a transaction
that is open. `SerialRequestsReserve` adds `Undisturbed` (what the only process has read
is what it finds), from which nothing is ever miscounted. Its hypotheses are all
needed: with two processes `stock_oversell` is the counterexample; a product named
twice passes the validation twice; an edit sets any stock; and a PATCH cancellation cut
in half leaves units back in stock that an order still holds.

*CustomRequest.* `IInv`: a quote has its price from its save on, and no
quote is at work on a request whose date has passed. From it `TypeCorrect` and
`OnlyOverdueExpire`. `AcceptancesHaveTerms` adds `Terms`: while no two quotes of a
request overlap, a quote at work means that the row has no price yet, so there is no
acceptance whose price it could change, and the price an accept has read stays the
row's until it is saved. `SInv` adds that before the first race
the handlers work on different requests, from copies equal to the rows, which gives
`RequestsFollowFlow` (until the first race each step is one of RequestFlow or a
stutter) and `ApartRequestsFollowFlow` (without races the module implements it).

*Notifications.* `IInv`: what a task read or told is not older than its change
(`TasksSound`), and a request with a queued mail has not committed yet (`WebSound`).
`Budget` is the arithmetic: while the order is being placed, the time its task has
spent on retries, `tries * RetryDelay - wait`, is at most the time the request has
used, `Limit - left`. So the task cannot run out of retries first
(`RetriesOutlast`). `NoMailIsForgotten` needs that: `MInv` says that an order being
placed has its task (`PlaceHasTask`) and that a PATCH announces its own change
(`OwnChange`), so every change has a holder from its commit on, which only a kill, or
sends that raise until the last retry, take away.

*Accounts.* `IInv`: rows not raced are held by one process (`Alone`), whose copy is
then the row, and the total of any copy is at most the credits (`Grounded`); a user
comes before the profile. `TotalsAreEarned`, `ShopsAreAddressed`, `PasswordsStand`.

*ProductPage.* A request that overlapped no other is alone on its thing (`Alone`),
and what it saw still stands (`RowKnown`, `MarkFree`, `CountKnown`):
`AnswersStand`, `AtMostOnePrimary`, `ViewsAreCounted`. `ImagesAreBounded` counts the
stored images with the uploads under way, of which each process has one.

*Messaging.* `IInv`: a job that posts is in a conversation with two members, its
sender one of them, and only a conversation still being started lacks them
(`JobSound`, `MembersSound`, `MessagesSound`); what is read was shown, is on a page
about to be shown or excused (`ReadSound`); two conversations of one pair about one
product, or a start that will make a second one, have a race behind them (`Claims`).
`MessagingIsAMailbox` proves the refinement step by step from it: with two members a
message waits in exactly one box.

*Reviews.* `Counted` bounds the helpful count of rows *and* of copies by the votes
cast, for `VotesNotInvented`. `LInv` says that an undisturbed request is alone, that
its copy is the row and that every rating it has passed is the aggregate of the
rows (`Lone`, `Sound`), for `RatingsAreRepaired` and `NothingIsUndone`.

Model-checked only: the one liveness property, `RequestsEnd`, which the prover does
not do. Every invariant and action property a passing run checks is proved.

## Not modelled

* Data nothing decides on: addresses, notes, tracking, titles, texts, attachments,
  `last_message_at`, HTTP and JSON forms, logging. `OrderItem.item_status` is never
  written. The images of a review decide nothing else.
* Prices and totals: `calculate_totals`, commissions and formats are Decimal
  arithmetic of one request on rows nobody else sees. Slugs, validators, pagination
  and mail wording are functions without state.
* Search: the document is kept by the signals of the search library, the filters are
  queries. Analytics: cached aggregate queries that change nothing.
* Rate limiting and request logging: neither middleware is installed
  (`helpers.py:62-71`), so no request meets them. Payments: no handler calls the
  service.
* Login and tokens: the token library's, without rows of this program.
* Categories, tags and the templates of custom orders: plain rows of one owner,
  created and edited by one form each.
* The reminder mail of the daily task: it reads and sends, nothing depends on it.
* The admin forms (`filters.py`, `__init__ (31).py`, `serializers.py`): they save the rows of every
  component by hand. Those of orders and custom requests let an admin set the status
  without `validate_status` and with the stamps read-only (`filters.py:57-83`), so an
  order can be delivered without `delivered_at` and a quote open without `expires_at`,
  which the daily tasks then never find. What the properties say is said of the API
  and the tasks, not of rows edited there.
* Storage, settings, deployment, the frontend: configuration or pure I/O; the
  numbers the models use (workers, timeouts, days) are taken from there.

Open work: a composition of OrderLifecycle and Inventory in which `returned` becomes
the product rows, and one of OrderLifecycle and Accounts in which `credit` becomes the
totals.
