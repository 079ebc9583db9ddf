--------------------------- MODULE Notifications ---------------------------
(***************************************************************************)
(* The mails about one order: the requests that change it queue a task, a  *)
(* worker takes the task, reads the order as it is by then and sends the   *)
(* mail, and a task that raises is queued again.  Placing and cancelling   *)
(* queue the task before they commit, a PATCH after.  The requests are     *)
(* those of OrderLifecycle, reduced to the statuses they commit.           *)
(***************************************************************************)
EXTENDS OrderStatus, Naturals, Sequences, FiniteSets

CONSTANTS
    WebWorkers,
    MaxRetries,  \* max_retries
    RetryDelay,  \* default_retry_delay, in ticks of a minute
    Limit,       \* the --timeout of gunicorn, in ticks
    MaxTasks,    \* bound: mails queued
    MaxChanges   \* bound: statuses the order gets

ASSUME NotificationsAssumption ==
    /\ MaxRetries \in Nat /\ RetryDelay \in Nat /\ Limit \in Nat /\ MaxTasks \in Nat
    /\ MaxChanges \in Nat
    /\ Limit < MaxRetries * RetryDelay

VARIABLES
    history,  \* the statuses the order got, with who committed them
    web,      \* what each server process is doing
    task,     \* the tasks in the order they were queued; "told" is what was mailed
    raised,   \* history: the tasks of which a send raised
    lost      \* history: the changes whose mail was with a process that was killed

vars == <<history, web, task, raised, lost>>

Entry == [status : Status, by : {"before", "place", "patch", "cancel"}]

Idle == [at |-> "idle"]
PatchJob == [at : {"patch"}, status : Status]
AnnounceJob == [at : {"announce"}, change : Nat]
CancelJob == [at : {"cancel"}]
OpenJob == [at : {"placing", "cancelling"}, left : 0 .. Limit]
WebJob == {Idle} \cup PatchJob \cup AnnounceJob \cup CancelJob \cup OpenJob

\* change, read and the members of told are indexes of history.
Task == [by : {"place", "patch", "cancel"}, change : Nat, tries : 0 .. MaxRetries,
         state : {"queued", "sending", "done", "failed", "lost"},
         wait : 0 .. RetryDelay, read : Nat, told : SUBSET Nat]

\* The order is not placed yet, or was placed before and has a status.
Init ==
    /\ history \in {<<>>} \cup {<<[status |-> s, by |-> "before"]>> : s \in Status}
    /\ web = [w \in WebWorkers |-> Idle]
    /\ task = <<>>
    /\ raised = {}
    /\ lost = {}

Placed == history # <<>>
Current == history[Len(history)].status
Commits(s, by) == history' = Append(history, [status |-> s, by |-> by])
Becomes(w, j) == web' = [web EXCEPT ![w] = j]

Delay(by, change) ==
    task' = Append(task, [by |-> by, change |-> change, tries |-> 0,
                          state |-> "queued", wait |-> 0, read |-> 0, told |-> {}])

\* The row is locked by the UPDATE of a cancellation that has not committed.
Locked == \E w \in WebWorkers : web[w].at = "cancelling"

\* The bounds leave room for the requests under way.
Room ==
    LET open == Cardinality({w \in WebWorkers : web[w] # Idle}) IN
    Len(task) + open < MaxTasks /\ Len(history) + open < MaxChanges

-----------------------------------------------------------------------------
(* Requests                                                                *)

\* POST /orders/create/ up to its last statement.
PlaceQueue(w) ==
    /\ web[w] = Idle
    /\ history = <<>> /\ task = <<>> /\ Room
    /\ Delay("place", 1)
    /\ Becomes(w, [at |-> "placing", left |-> Limit])
    /\ UNCHANGED <<history, raised, lost>>

PlaceCommit(w) ==
    /\ web[w].at = "placing"
    /\ Commits("pending", "place")
    /\ Becomes(w, Idle)
    /\ UNCHANGED <<task, raised, lost>>

PatchRead(w, role, s) ==
    /\ web[w] = Idle
    /\ Placed /\ Room
    /\ MayUpdate(role, Current, s)
    /\ Becomes(w, [at |-> "patch", status |-> s])
    /\ UNCHANGED <<history, task, raised, lost>>

Bug_PatchSave(w) ==
    /\ web[w].at = "patch"
    /\ ~Locked
    /\ Delay("patch", Len(history) + 1)
    /\ Becomes(w, [at |-> "cancelling", left |-> Limit])
    /\ UNCHANGED <<history, raised, lost>>

PatchSave(w) ==
    /\ web[w].at = "patch"
    /\ ~Locked
    /\ Commits(web[w].status, "patch")
    /\ Becomes(w, [at |-> "announce", change |-> Len(history) + 1])
    /\ UNCHANGED <<task, raised, lost>>

Bug_PatchQueue(w) ==
    /\ web[w].at = "announce"
    /\ Becomes(w, Idle)
    /\ UNCHANGED <<history, task, raised, lost>>

PatchQueue(w) ==
    /\ web[w].at = "announce"
    /\ Delay("patch", web[w].change)
    /\ Becomes(w, Idle)
    /\ UNCHANGED <<history, raised, lost>>

CancelRead(w) ==
    /\ web[w] = Idle
    /\ Placed /\ Room
    /\ Current \in Cancellable
    /\ Becomes(w, [at |-> "cancel"])
    /\ UNCHANGED <<history, task, raised, lost>>

\* The UPDATE, whose row lock is kept, and delay().
CancelQueue(w) ==
    /\ web[w].at = "cancel"
    /\ ~Locked
    /\ Delay("cancel", Len(history) + 1)
    /\ Becomes(w, [at |-> "cancelling", left |-> Limit])
    /\ UNCHANGED <<history, raised, lost>>

CancelCommit(w) ==
    /\ web[w].at = "cancelling"
    /\ Commits("cancelled", "cancel")
    /\ Becomes(w, Idle)
    /\ UNCHANGED <<task, raised, lost>>

\* A transaction is rolled back: a later statement raises, or the process is
\* killed, at the latest when its time is up.
Rollback(w) ==
    /\ web[w].at \in {"placing", "cancelling"}
    /\ Becomes(w, Idle)
    /\ UNCHANGED <<history, task, raised, lost>>

\* Process w has committed change i and not queued its mail.
Announces(w, i) == web[w].at = "announce" /\ web[w].change = i

Kill(w) ==
    /\ web[w].at \in {"patch", "announce", "cancel"}
    /\ Becomes(w, Idle)
    /\ lost' = lost \cup {i \in DOMAIN history : Announces(w, i)}
    /\ UNCHANGED <<history, task, raised>>

-----------------------------------------------------------------------------
(* The tasks                                                               *)

Set(t, r) == task' = [task EXCEPT ![t] = r]

\* Of a task that has ended only what it told is kept.
Ended(r, state) == [r EXCEPT !.state = state, !.tries = 0, !.wait = 0, !.read = 0]

Bug_Retried(r) ==
    IF r.tries < MaxRetries
    THEN [r EXCEPT !.state = "queued", !.tries = @ + 1, !.read = 0]
    ELSE Ended(r, "failed")

\* self.retry(exc): the task is queued once more, or has failed for good.
Retried(r) ==
    IF r.tries < MaxRetries
    THEN [r EXCEPT !.state = "queued", !.tries = @ + 1, !.wait = RetryDelay, !.read = 0]
    ELSE Ended(r, "failed")

Bug_Take(t) ==
    /\ task[t].state = "queued" /\ task[t].wait = 0
    /\ Set(t, [task[t] EXCEPT !.state = "sending", !.read = Len(history)])
    /\ UNCHANGED <<history, web, raised, lost>>

\* A worker takes the task and reads the committed order: Order.get raises as
\* long as there is none.
Take(t) ==
    /\ task[t].state = "queued" /\ task[t].wait = 0
    /\ Set(t, IF Placed THEN [task[t] EXCEPT !.state = "sending", !.read = Len(history)]
              ELSE Retried(task[t]))
    /\ UNCHANGED <<history, web, raised, lost>>

Send(t) ==
    /\ task[t].state = "sending"
    /\ Set(t, Ended([task[t] EXCEPT !.told = @ \cup {task[t].read}], "done"))
    /\ UNCHANGED <<history, web, raised, lost>>

\* send_mail raises, before or after the server has taken the mail.
SendRaises(t) ==
    /\ task[t].state = "sending"
    /\ \E mailed \in SUBSET {task[t].read} :
          Set(t, Retried([task[t] EXCEPT !.told = @ \cup mailed]))
    /\ raised' = raised \cup {t}
    /\ UNCHANGED <<history, web, lost>>

\* Task t is the one queued for change i.
Carries(t, i) == task[t].change = i /\ task[t].by = history[i].by

\* The worker is killed: a task is acknowledged before it runs.
Lose(t) ==
    /\ task[t].state = "sending"
    /\ Set(t, Ended(task[t], "lost"))
    /\ lost' = lost \cup {i \in DOMAIN history : Carries(t, i)}
    /\ UNCHANGED <<history, web, raised>>

\* A minute passes.  No transaction outlives the time limit.
Tick ==
    /\ \A w \in WebWorkers : web[w] \in OpenJob => web[w].left > 0
    /\ \/ \E t \in DOMAIN task : task[t].wait > 0
       \/ \E w \in WebWorkers : web[w] \in OpenJob
    /\ task' = [t \in DOMAIN task |->
                   [task[t] EXCEPT !.wait = IF @ > 0 THEN @ - 1 ELSE 0]]
    /\ web' = [w \in WebWorkers |->
                  IF web[w] \in OpenJob THEN [web[w] EXCEPT !.left = @ - 1] ELSE web[w]]
    /\ UNCHANGED <<history, raised, lost>>

-----------------------------------------------------------------------------
(* Specification                                                           *)

Begin(w) ==
    \/ PlaceQueue(w) \/ CancelRead(w)
    \/ \E role \in Roles, s \in Status : PatchRead(w, role, s)

Continue(w) ==
    \/ PlaceCommit(w) \/ PatchSave(w) \/ PatchQueue(w)
    \/ CancelQueue(w) \/ CancelCommit(w) \/ Rollback(w)

Run(t) == Take(t) \/ Send(t) \/ SendRaises(t)

Next ==
    \/ \E w \in WebWorkers : Begin(w) \/ Continue(w) \/ Kill(w)
    \/ \E t \in DOMAIN task : Run(t) \/ Lose(t)
    \/ Tick

Spec == Init /\ [][Next]_vars

-----------------------------------------------------------------------------
(* Properties                                                              *)

\* Every variable keeps its type.
TypeOK ==
    /\ history \in Seq(Entry)
    /\ web \in [WebWorkers -> WebJob]
    /\ task \in Seq(Task)
    /\ raised \subseteq Nat
    /\ lost \subseteq Nat

\* Though the task is queued first, no customer gets the confirmation of an
\* order whose transaction was rolled back, or has not committed yet.
ConfirmationTrue ==
    \A t \in DOMAIN task : task[t].told # {} => Placed

\* A mail about a PATCH tells the status that was written, or a later one; a
\* mail about a cancellation may tell the status before, never an older one.
MailNotOlder ==
    \A t \in DOMAIN task :
        \A i \in task[t].told :
            LET change == task[t].change IN
            i >= IF task[t].by = "cancel" THEN change - 1 ELSE change

\* A confirmation queued before the commit is not given up while the order may
\* still commit: three retries a minute apart outlast the two minutes a request
\* has, so a task fails for good only over mails of its own that raise or an
\* order that is not there.
RetriesOutlastRequest ==
    \A t \in DOMAIN task :
        task[t].state = "failed" =>
            \/ t \in raised
            \/ ~Placed /\ \A w \in WebWorkers : web[w].at # "placing"

\* A request is about to queue the mail of change i, or its task waits, is
\* being sent, told the change or a later one, or gave up over sends that raised.
Handled(i) ==
    \/ \E w \in WebWorkers : Announces(w, i)
    \/ \E t \in DOMAIN task :
          /\ Carries(t, i)
          /\ \/ task[t].state \in {"queued", "sending"}
             \/ task[t].state = "failed" /\ t \in raised
             \/ \E k \in task[t].told : k >= i

\* No placing of the order and no change by PATCH is forgotten, through late
\* reads, retries and overlaps, but the one whose mail a killed process had: its
\* kill costs no other change its mail, and the retries waiting for a commit none.
NoMailForgotten ==
    \A i \in DOMAIN history \ lost :
        history[i].by \in {"place", "patch"} => Handled(i)

=============================================================================
