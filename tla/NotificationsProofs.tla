------------------------- MODULE NotificationsProofs -------------------------
(***************************************************************************)
(* What is proved of Notifications for any number of server processes,     *)
(* retries and tasks.  Two arguments carry it: a task that is being sent   *)
(* read an order that is committed, with all that was committed when the   *)
(* task was queued (TaskSound); and while a transaction is open, the time  *)
(* its task has waited is time the transaction has used (Budget).          *)
(***************************************************************************)
EXTENDS Notifications, SequenceTheorems, TLAPS

\* The label of a process tells which record it holds.
LEMMA JobKinds ==
    ASSUME TypeOK, NEW w \in WebWorkers
    PROVE  /\ web[w].at = "patch" => web[w] \in PatchJob
           /\ web[w].at = "announce" => web[w] \in AnnounceJob
           /\ web[w].at \in {"placing", "cancelling"} <=> web[w] \in OpenJob
BY DEF TypeOK, WebJob, Idle, PatchJob, AnnounceJob, CancelJob, OpenJob

Fresh(by, change) == [by |-> by, change |-> change, tries |-> 0,
                      state |-> "queued", wait |-> 0, read |-> 0, told |-> {}]

LEMMA FreshTask ==
    ASSUME NEW by \in {"place", "patch", "cancel"}, NEW change \in Nat
    PROVE  Fresh(by, change) \in Task
<1>1. 0 \in 0 .. MaxRetries /\ 0 \in 0 .. RetryDelay /\ {} \in SUBSET Nat
  BY NotificationsAssumption
<1> QED BY <1>1 DEF Fresh, Task

LEMMA EndedTask ==
    ASSUME NEW r \in Task, NEW state \in {"done", "failed", "lost"}
    PROVE  /\ Ended(r, state) \in Task
           /\ Ended(r, state).state = state
           /\ Ended(r, state).by = r.by /\ Ended(r, state).change = r.change
           /\ Ended(r, state).told = r.told
<1>1. 0 \in 0 .. MaxRetries /\ 0 \in 0 .. RetryDelay
  BY NotificationsAssumption
<1> QED BY <1>1 DEF Ended, Task

\* A retry is paid for with a delay: tries * RetryDelay - wait stays.
Spent(r) == r.tries * RetryDelay - r.wait

LEMMA RetriedTask ==
    ASSUME NEW r \in Task
    PROVE  /\ Retried(r) \in Task
           /\ Retried(r).by = r.by /\ Retried(r).change = r.change
           /\ Retried(r).told = r.told
           /\ \/ /\ r.tries < MaxRetries /\ Retried(r).state = "queued"
                 /\ r.wait = 0 => Spent(Retried(r)) = Spent(r)
              \/ r.tries = MaxRetries /\ Retried(r).state = "failed"
<1>0. /\ MaxRetries \in Nat /\ RetryDelay \in Nat /\ r.tries \in 0 .. MaxRetries
      /\ RetryDelay \in 0 .. RetryDelay
  BY NotificationsAssumption DEF Task
<1>1. CASE r.tries < MaxRetries
  <2> DEFINE q == [r EXCEPT !.state = "queued", !.tries = @ + 1, !.wait = RetryDelay, !.read = 0]
  <2>1. r.tries + 1 \in 0 .. MaxRetries
    BY <1>0, <1>1
  <2>2. /\ q \in Task /\ q.by = r.by /\ q.change = r.change /\ q.told = r.told
        /\ q.state = "queued" /\ q.tries = r.tries + 1 /\ q.wait = RetryDelay
    BY <1>0, <2>1 DEF Task
  <2>3. Retried(r) = q
    BY <1>1 DEF Retried
  <2> HIDE DEF q
  <2>4. (r.tries + 1) * RetryDelay = r.tries * RetryDelay + RetryDelay
    BY <1>0
  <2>5. r.tries * RetryDelay \in Nat
    BY <1>0
  <2>6. r.wait = 0 => Spent(q) = Spent(r)
    BY <1>0, <2>2, <2>4, <2>5 DEF Spent
  <2> QED BY <1>1, <2>2, <2>3, <2>6
<1>2. CASE r.tries = MaxRetries
  <2>1. Retried(r) = Ended(r, "failed")
    BY <1>0, <1>2 DEF Retried
  <2> QED BY <1>2, <2>1, EndedTask
<1> QED BY <1>0, <1>1, <1>2

-----------------------------------------------------------------------------
(* What the steps do to the sequences                                        *)

LEMMA Domains ==
    ASSUME TypeOK
    PROVE  /\ Len(history) \in Nat /\ DOMAIN history = 1 .. Len(history)
           /\ Len(task) \in Nat /\ DOMAIN task = 1 .. Len(task)
           /\ Placed <=> Len(history) > 0
           /\ \A t \in DOMAIN task : task[t] \in Task
BY LenProperties, EmptySeq, ElementOfSeq DEF TypeOK, Placed

LEMMA SetTask ==
    ASSUME TypeOK, NEW t \in DOMAIN task, NEW r \in Task, Set(t, r)
    PROVE  /\ task' \in Seq(Task) /\ DOMAIN task' = DOMAIN task /\ task' # <<>>
           /\ \A u \in DOMAIN task : task'[u] = IF u = t THEN r ELSE task[u]
<1>1. task \in Seq(Task) /\ t \in 1 .. Len(task) /\ task' = [task EXCEPT ![t] = r]
  BY Domains DEF TypeOK, Set
<1>2. /\ task' \in Seq(Task) /\ Len(task') = Len(task)
      /\ \A u \in 1 .. Len(task) : task'[u] = IF u = t THEN r ELSE task[u]
  BY <1>1, ExceptSeq
<1> QED BY <1>1, <1>2, LenProperties, EmptySeq

LEMMA DelayedTask ==
    ASSUME TypeOK, NEW by \in {"place", "patch", "cancel"}, NEW change \in Nat,
           Delay(by, change)
    PROVE  /\ task' \in Seq(Task) /\ task' # <<>>
           /\ \A u \in DOMAIN task' :
                 \/ u \in DOMAIN task /\ task'[u] = task[u]
                 \/ task'[u] = Fresh(by, change)
<1>1. task \in Seq(Task) /\ Fresh(by, change) \in Task /\ task' = Append(task, Fresh(by, change))
  BY FreshTask DEF TypeOK, Delay, Fresh
<1> QED BY <1>1, AppendProperties, LenProperties, EmptySeq

LEMMA Committed ==
    ASSUME TypeOK, NEW s \in Status, NEW by \in {"place", "patch", "cancel"}, Commits(s, by)
    PROVE  history' \in Seq(Entry) /\ Len(history') = Len(history) + 1
<1>1. /\ history \in Seq(Entry) /\ [status |-> s, by |-> by] \in Entry
      /\ history' = Append(history, [status |-> s, by |-> by])
  BY DEF TypeOK, Commits, Entry
<1> QED BY <1>1, AppendProperties

LEMMA Ticked ==
    ASSUME TypeOK, Tick
    PROVE  /\ task' \in Seq(Task) /\ DOMAIN task' = DOMAIN task /\ Len(task') = Len(task)
           /\ \A t \in DOMAIN task :
                 task'[t] = [task[t] EXCEPT !.wait = IF @ > 0 THEN @ - 1 ELSE 0]
<1>1. \A t \in DOMAIN task : [task[t] EXCEPT !.wait = IF @ > 0 THEN @ - 1 ELSE 0] \in Task
  <2> SUFFICES ASSUME NEW t \in DOMAIN task
               PROVE  [task[t] EXCEPT !.wait = IF @ > 0 THEN @ - 1 ELSE 0] \in Task
    OBVIOUS
  <2>1. task[t] \in Task
    BY Domains
  <2>2. (IF task[t].wait > 0 THEN task[t].wait - 1 ELSE 0) \in 0 .. RetryDelay
    BY <2>1, NotificationsAssumption DEF Task
  <2> QED BY <2>1, <2>2 DEF Task
<1>2. task' \in [1 .. Len(task) -> Task] /\ Len(task) \in Nat
  BY <1>1, Domains DEF Tick
<1>3. task' \in Seq(Task)
  BY <1>2, SeqDef
<1>4. DOMAIN task' = 1 .. Len(task) /\ DOMAIN task' = 1 .. Len(task')
  BY <1>2, <1>3, LenProperties
<1>5. Len(task') = Len(task)
  BY <1>2, <1>3, <1>4, LenProperties
<1> QED BY <1>3, <1>5, Domains DEF Tick

LEMMA InitTypeOK == Init => TypeOK
<1> SUFFICES ASSUME Init PROVE TypeOK
  OBVIOUS
<1>1. history \in Seq(Entry)
  <2>1. CASE history = <<>>
    BY <2>1, EmptySeq
  <2>2. ASSUME NEW s \in Status, history = <<[status |-> s, by |-> "before"]>>
        PROVE  history \in Seq(Entry)
    <3>1. [status |-> s, by |-> "before"] \in Entry
      BY DEF Entry
    <3> QED BY <2>2, <3>1
  <2> QED BY <2>1, <2>2 DEF Init
<1> QED BY <1>1, EmptySeq DEF Init, TypeOK, WebJob

LEMMA RunSets ==
    ASSUME TypeOK, NEW t \in DOMAIN task, Run(t) \/ Lose(t)
    PROVE  \E r \in Task : Set(t, r)
<1>0. task[t] \in Task /\ Len(history) \in Nat
  BY Domains
<1>1. CASE Take(t)
  <2>1. [task[t] EXCEPT !.state = "sending", !.read = Len(history)] \in Task
    BY <1>0 DEF Task
  <2> QED BY <1>0, <1>1, <2>1, RetriedTask DEF Take
<1>2. ASSUME NEW mailed \in SUBSET {task[t].read}
      PROVE  [task[t] EXCEPT !.told = @ \cup mailed] \in Task
  BY <1>0 DEF Task
<1>3. CASE Send(t)
  BY <1>2, <1>3, EndedTask DEF Send
<1>4. CASE SendRaises(t)
  BY <1>2, <1>4, RetriedTask DEF SendRaises
<1>5. CASE Lose(t)
  BY <1>0, <1>5, EndedTask DEF Lose
<1> QED BY <1>1, <1>3, <1>4, <1>5 DEF Run

LEMMA NextTypeOK == TypeOK /\ [Next]_vars => TypeOK'
<1> SUFFICES ASSUME TypeOK, [Next]_vars PROVE TypeOK'
  OBVIOUS
<1> USE DEF TypeOK
<1>0. Idle \in WebJob /\ Limit \in 0 .. Limit /\ Len(history) \in Nat
  BY NotificationsAssumption, Domains DEF WebJob
\* A process has a new job, and the rest keeps its type.
<1>a. ASSUME NEW w \in WebWorkers, NEW j \in WebJob, Becomes(w, j)
      PROVE  web' \in [WebWorkers -> WebJob]
  BY <1>a DEF Becomes
<1>1. ASSUME NEW w \in WebWorkers, PlaceQueue(w) PROVE TypeOK'
  <2>1. [at |-> "placing", left |-> Limit] \in WebJob
    BY <1>0 DEF WebJob, OpenJob
  <2>2. task' \in Seq(Task)
    BY <1>1, DelayedTask DEF PlaceQueue
  <2>3. web' \in [WebWorkers -> WebJob]
    BY <1>1, <1>a, <2>1 DEF PlaceQueue
  <2> QED BY <1>1, <2>2, <2>3 DEF PlaceQueue
<1>2. ASSUME NEW w \in WebWorkers, PlaceCommit(w) PROVE TypeOK'
  <2>1. history' \in Seq(Entry)
    BY <1>2, Committed DEF PlaceCommit, Status
  <2>2. web' \in [WebWorkers -> WebJob]
    BY <1>0, <1>2, <1>a DEF PlaceCommit
  <2> QED BY <1>2, <2>1, <2>2 DEF PlaceCommit
<1>3. ASSUME NEW w \in WebWorkers, NEW role \in Roles, NEW s \in Status, PatchRead(w, role, s)
      PROVE  TypeOK'
  <2>1. [at |-> "patch", status |-> s] \in WebJob
    BY DEF WebJob, PatchJob
  <2>2. web' \in [WebWorkers -> WebJob]
    BY <1>3, <1>a, <2>1 DEF PatchRead
  <2> QED BY <1>3, <2>2 DEF PatchRead
<1>4. ASSUME NEW w \in WebWorkers, PatchSave(w) PROVE TypeOK'
  <2>1. web[w].status \in Status
    BY <1>4, JobKinds DEF PatchSave, PatchJob
  <2>2. history' \in Seq(Entry)
    BY <1>4, <2>1, Committed DEF PatchSave
  <2>3. [at |-> "announce", change |-> Len(history) + 1] \in WebJob
    BY <1>0 DEF WebJob, AnnounceJob
  <2>4. web' \in [WebWorkers -> WebJob]
    BY <1>4, <1>a, <2>3 DEF PatchSave
  <2> QED BY <1>4, <2>2, <2>4 DEF PatchSave
<1>5. ASSUME NEW w \in WebWorkers, PatchQueue(w) PROVE TypeOK'
  <2>1. web[w].change \in Nat
    BY <1>5, JobKinds DEF PatchQueue, AnnounceJob
  <2>2. task' \in Seq(Task)
    BY <1>5, <2>1, DelayedTask DEF PatchQueue
  <2>3. web' \in [WebWorkers -> WebJob]
    BY <1>0, <1>5, <1>a DEF PatchQueue
  <2> QED BY <1>5, <2>2, <2>3 DEF PatchQueue
<1>6. ASSUME NEW w \in WebWorkers, CancelRead(w) PROVE TypeOK'
  <2>1. [at |-> "cancel"] \in WebJob
    BY DEF WebJob, CancelJob
  <2>2. web' \in [WebWorkers -> WebJob]
    BY <1>6, <1>a, <2>1 DEF CancelRead
  <2> QED BY <1>6, <2>2 DEF CancelRead
<1>7. ASSUME NEW w \in WebWorkers, CancelQueue(w) PROVE TypeOK'
  <2>1. [at |-> "cancelling", left |-> Limit] \in WebJob
    BY <1>0 DEF WebJob, OpenJob
  <2>2. task' \in Seq(Task)
    BY <1>0, <1>7, DelayedTask DEF CancelQueue
  <2>3. web' \in [WebWorkers -> WebJob]
    BY <1>7, <1>a, <2>1 DEF CancelQueue
  <2> QED BY <1>7, <2>2, <2>3 DEF CancelQueue
<1>8. ASSUME NEW w \in WebWorkers, CancelCommit(w) PROVE TypeOK'
  <2>1. history' \in Seq(Entry)
    BY <1>8, Committed DEF CancelCommit, Status
  <2>2. web' \in [WebWorkers -> WebJob]
    BY <1>0, <1>8, <1>a DEF CancelCommit
  <2> QED BY <1>8, <2>1, <2>2 DEF CancelCommit
<1>9. ASSUME NEW w \in WebWorkers, Rollback(w) \/ Kill(w) PROVE TypeOK'
  <2>1. web' \in [WebWorkers -> WebJob]
    BY <1>0, <1>9, <1>a DEF Rollback, Kill
  <2>2. DOMAIN history \subseteq Nat
    BY Domains
  <2>3. lost' \subseteq Nat
    BY <1>9, <2>2 DEF Rollback, Kill
  <2> QED BY <1>9, <2>1, <2>3 DEF Rollback, Kill
<1>10. ASSUME NEW t \in DOMAIN task, Run(t) \/ Lose(t) PROVE TypeOK'
  <2>1. task' \in Seq(Task)
    <3>1. PICK r \in Task : Set(t, r)
      BY <1>10, RunSets
    <3> QED BY <3>1, SetTask
  <2>2. raised' \subseteq Nat /\ lost' \subseteq Nat
    <3>1. t \in Nat /\ DOMAIN history \subseteq Nat
      BY Domains
    <3> QED BY <1>10, <3>1 DEF Run, Take, Send, SendRaises, Lose
  <2> QED BY <1>10, <2>1, <2>2 DEF Run, Take, Send, SendRaises, Lose
<1>11. CASE Tick
  <2>1. ASSUME NEW w \in WebWorkers, web[w] \in OpenJob, web[w].left > 0
        PROVE  [web[w] EXCEPT !.left = @ - 1] \in WebJob
    <3>1. web[w].left - 1 \in 0 .. Limit
      BY <2>1, NotificationsAssumption DEF OpenJob
    <3> QED BY <2>1, <3>1 DEF OpenJob, WebJob
  <2>2. web' \in [WebWorkers -> WebJob]
    BY <1>11, <2>1 DEF Tick
  <2> QED BY <1>11, <2>2, Ticked DEF Tick
<1>12. CASE UNCHANGED vars
  BY <1>12 DEF vars
<1> QED BY <1>1, <1>2, <1>3, <1>4, <1>5, <1>6, <1>7, <1>8, <1>9, <1>10, <1>11, <1>12
        DEF Next, Begin, Continue

\* For any number of processes and tasks, every variable keeps its type.
THEOREM TypeCorrect == Spec => []TypeOK
BY InitTypeOK, NextTypeOK, PTL DEF Spec

-----------------------------------------------------------------------------
(* The invariant                                                             *)

\* The oldest status the task may tell.
Earliest(r) == IF r.by = "cancel" THEN r.change - 1 ELSE r.change

\* n is the number of statuses the order has.
TaskSound(r, n) ==
    /\ Earliest(r) <= n \/ Earliest(r) <= 1
    /\ r.state = "sending" => n > 0 /\ Earliest(r) <= r.read
    /\ r.told # {} => n > 0
    /\ \A i \in r.told : Earliest(r) <= i

TasksSound == \A t \in DOMAIN task : TaskSound(task[t], Len(history))

WebSound ==
    \A w \in WebWorkers :
        /\ web[w].at \in {"patch", "announce", "cancel", "cancelling"} => Placed
        /\ web[w].at = "announce" => web[w].change <= Len(history)
        /\ web[w].at = "placing" =>
              task # <<>> /\ ~Placed /\ \A v \in WebWorkers : web[v].at = "placing" => v = w

\* While the transaction that places the order is open, its task is not given up.
Budget ==
    \A w \in WebWorkers, t \in DOMAIN task :
        web[w].at = "placing" /\ task[t].state = "queued" =>
            Spent(task[t]) <= Limit - web[w].left

IInv == TypeOK /\ TasksSound /\ WebSound /\ Budget /\ RetriesOutlastRequest

LEMMA InitInv == Init => IInv
<1> SUFFICES ASSUME Init PROVE IInv
  OBVIOUS
<1>1. TypeOK
  BY InitTypeOK
<1>2. DOMAIN task = {} /\ \A w \in WebWorkers : web[w].at = "idle"
  BY DEF Init, Idle
<1> QED BY <1>1, <1>2
        DEF IInv, TasksSound, WebSound, Budget, RetriesOutlastRequest

\* A process goes on to a job that opens no transaction to place the order, and
\* the tasks stay.
LEMMA WebStep ==
    ASSUME IInv, TypeOK', NEW w \in WebWorkers, NEW j,
           Becomes(w, j), task' = task, raised \subseteq raised',
           Len(history') >= Len(history),
           j.at # "placing",
           j.at \in {"patch", "announce", "cancel", "cancelling"} => Placed',
           j.at = "announce" => j.change <= Len(history'),
           Placed' => Placed \/ web[w].at = "placing"
    PROVE  IInv'
<1>0. /\ TypeOK /\ TasksSound /\ WebSound /\ Budget /\ RetriesOutlastRequest
      /\ Len(history) \in Nat /\ Len(history') \in Nat
      /\ Placed <=> Len(history) > 0
      /\ Placed' <=> Len(history') > 0
      /\ \A t \in DOMAIN task : task[t] \in Task
  BY Domains, EmptySeq, LenProperties DEF IInv, TypeOK, Placed
<1>1. \A v \in WebWorkers : web'[v] = IF v = w THEN j ELSE web[v]
  BY <1>0 DEF TypeOK, Becomes
<1>2. TasksSound'
  <2> SUFFICES ASSUME NEW t \in DOMAIN task PROVE TaskSound(task[t], Len(history'))
    BY DEF TasksSound
  <2>1. TaskSound(task[t], Len(history))
    BY <1>0 DEF TasksSound
  <2>2. task[t].change \in Nat /\ Earliest(task[t]) \in Int
    BY <1>0 DEF Task, Earliest
  <2> QED BY <1>0, <2>1, <2>2 DEF TaskSound
<1>3. WebSound'
  <2> SUFFICES ASSUME NEW v \in WebWorkers
               PROVE  /\ web'[v].at \in {"patch", "announce", "cancel", "cancelling"} => Placed'
                      /\ web'[v].at = "announce" => web'[v].change <= Len(history')
                      /\ web'[v].at = "placing" =>
                            /\ task # <<>> /\ ~Placed'
                            /\ \A u \in WebWorkers : web'[u].at = "placing" => u = v
    BY DEF WebSound
  <2>1. CASE v = w
    BY <1>1, <2>1
  <2>2. CASE v # w
    <3>1. web'[v] = web[v] /\ (web[v].at = "announce" => web[v].change \in Nat)
      BY <1>0, <1>1, <2>2, JobKinds DEF AnnounceJob
    <3>2. web[v].at = "placing" =>
             /\ task # <<>> /\ ~Placed /\ web[w].at # "placing"
             /\ \A u \in WebWorkers : web[u].at = "placing" => u = v
      BY <1>0, <2>2 DEF WebSound
    <3>3. web[v].at = "placing" => \A u \in WebWorkers : web'[u].at = "placing" => u = v
      BY <1>1, <3>2
    <3> QED BY <1>0, <3>1, <3>2, <3>3 DEF WebSound
  <2> QED BY <2>1, <2>2
<1>4. Budget'
  BY <1>0, <1>1 DEF Budget
<1>5. RetriesOutlastRequest'
  BY <1>0, <1>1 DEF RetriesOutlastRequest
<1> QED BY <1>2, <1>3, <1>4, <1>5 DEF IInv

\* One more task; what it may tell is committed, or will be by this transaction.
LEMMA DelayStep ==
    ASSUME IInv, TypeOK', NEW w \in WebWorkers, NEW j, Becomes(w, j),
           NEW by \in {"place", "patch", "cancel"}, NEW change \in Nat, Delay(by, change),
           UNCHANGED <<history, raised, lost>>,
           Earliest(Fresh(by, change)) <= Len(history) \/ Earliest(Fresh(by, change)) <= 1,
           j.at \in {"idle", "placing", "cancelling"},
           j.at = "cancelling" => Placed,
           j.at = "placing" => task = <<>> /\ ~Placed /\ j.left = Limit
    PROVE  IInv'
<1>0. /\ TypeOK /\ TasksSound /\ WebSound /\ Budget /\ RetriesOutlastRequest
      /\ Len(history) \in Nat /\ history' = history /\ raised' = raised
      /\ Placed' <=> Placed
  BY Domains DEF IInv, Placed
<1>1. \A v \in WebWorkers : web'[v] = IF v = w THEN j ELSE web[v]
  BY <1>0 DEF TypeOK, Becomes
<1>2. /\ task' # <<>>
      /\ \A u \in DOMAIN task' : \/ u \in DOMAIN task /\ task'[u] = task[u]
                                 \/ task'[u] = Fresh(by, change)
  BY <1>0, DelayedTask
<1>3. /\ Fresh(by, change).state = "queued" /\ Fresh(by, change).told = {}
      /\ Spent(Fresh(by, change)) = 0
  <2>1. 0 * RetryDelay = 0
    BY NotificationsAssumption
  <2> QED BY <2>1 DEF Fresh, Spent
<1>4. TasksSound'
  <2>1. TaskSound(Fresh(by, change), Len(history))
    BY <1>3 DEF TaskSound
  <2> QED BY <1>0, <1>2, <2>1 DEF TasksSound
<1>5. WebSound'
  BY <1>0, <1>1, <1>2 DEF WebSound
<1>6. Budget'
  <2> SUFFICES ASSUME NEW v \in WebWorkers, NEW t \in DOMAIN task',
                      web'[v].at = "placing", task'[t].state = "queued"
               PROVE  Spent(task'[t]) <= Limit - web'[v].left
    BY DEF Budget
  <2>1. web'[v] \in OpenJob
    BY DEF TypeOK, WebJob, Idle, PatchJob, AnnounceJob, CancelJob
  <2>2. Limit - web'[v].left \in Nat
    BY <2>1, NotificationsAssumption DEF OpenJob
  <2>3. CASE task'[t] = Fresh(by, change)
    BY <1>3, <2>2, <2>3
  <2>4. CASE t \in DOMAIN task /\ task'[t] = task[t]
    <3>1. v # w
      BY <1>1, <2>4
    <3> QED BY <1>0, <1>1, <2>4, <3>1 DEF Budget
  <2> QED BY <1>2, <2>3, <2>4
<1>7. RetriesOutlastRequest'
  <2> SUFFICES ASSUME NEW t \in DOMAIN task', task'[t].state = "failed"
               PROVE  \/ t \in raised
                      \/ ~Placed /\ \A v \in WebWorkers : web'[v].at # "placing"
    BY <1>0 DEF RetriesOutlastRequest
  <2>1. t \in DOMAIN task /\ task'[t] = task[t]
    BY <1>2, <1>3
  <2>2. j.at # "placing"
    BY <2>1
  <2> QED BY <1>0, <1>1, <2>1, <2>2 DEF RetriesOutlastRequest
<1> QED BY <1>4, <1>5, <1>6, <1>7 DEF IInv

\* A task gets further.
LEMMA TaskStep ==
    ASSUME IInv, TypeOK', NEW t \in DOMAIN task, NEW r \in Task, Set(t, r),
           UNCHANGED <<history, web>>, raised \subseteq raised',
           TaskSound(r, Len(history)),
           r.state = "queued" => \/ Placed
                                 \/ Spent(r) = Spent(task[t]) /\ task[t].state = "queued",
           r.state = "failed" =>
              \/ t \in raised'
              \/ ~Placed /\ \A w \in WebWorkers : web[w].at # "placing"
    PROVE  IInv'
<1>0. /\ TypeOK /\ TasksSound /\ WebSound /\ Budget /\ RetriesOutlastRequest
      /\ history' = history /\ web' = web
      /\ Placed' <=> Placed
  BY DEF IInv, Placed
<1>1. /\ DOMAIN task' = DOMAIN task /\ task' # <<>>
      /\ \A u \in DOMAIN task : task'[u] = IF u = t THEN r ELSE task[u]
  BY <1>0, SetTask
<1>2. TasksSound'
  BY <1>0, <1>1 DEF TasksSound
<1>3. WebSound'
  BY <1>0, <1>1 DEF WebSound
<1>4. Budget'
  <2>1. \A v \in WebWorkers : web[v].at = "placing" => ~Placed
    BY <1>0 DEF WebSound
  <2> QED BY <1>0, <1>1, <2>1 DEF Budget
<1>5. RetriesOutlastRequest'
  BY <1>0, <1>1 DEF RetriesOutlastRequest
<1> QED BY <1>2, <1>3, <1>4, <1>5 DEF IInv

LEMMA NextInv == IInv /\ [Next]_vars => IInv'
<1> SUFFICES ASSUME IInv, [Next]_vars PROVE IInv'
  OBVIOUS
<1>0. /\ TypeOK /\ TypeOK' /\ TasksSound /\ WebSound /\ Budget /\ RetriesOutlastRequest
      /\ Len(history) \in Nat
      /\ Placed <=> Len(history) > 0
      /\ Placed' <=> Len(history') > 0
      /\ Idle.at = "idle"
  BY NextTypeOK, Domains, EmptySeq, LenProperties DEF IInv, TypeOK, Placed, Idle
<1>1. ASSUME NEW w \in WebWorkers, PlaceQueue(w) PROVE IInv'
  <2> DEFINE j == [at |-> "placing", left |-> Limit]
  <2>1. /\ Becomes(w, j) /\ Delay("place", 1) /\ UNCHANGED <<history, raised, lost>>
        /\ task = <<>> /\ ~Placed
    BY <1>1 DEF PlaceQueue, Placed
  <2>2. Earliest(Fresh("place", 1)) = 1
    BY DEF Earliest, Fresh
  <2>3. j.at = "placing" /\ j.left = Limit
    OBVIOUS
  <2> HIDE DEF j
  <2> QED BY <1>0, <2>1, <2>2, <2>3, DelayStep
<1>2. ASSUME NEW w \in WebWorkers, PlaceCommit(w) PROVE IInv'
  <2>1. Len(history') = Len(history) + 1
    BY <1>0, <1>2, Committed DEF PlaceCommit, Status
  <2>2. Becomes(w, Idle) /\ task' = task /\ raised' = raised /\ web[w].at = "placing"
    BY <1>2 DEF PlaceCommit
  <2> QED BY <1>0, <2>1, <2>2, WebStep
<1>3. ASSUME NEW w \in WebWorkers, NEW role \in Roles, NEW s \in Status, PatchRead(w, role, s)
      PROVE  IInv'
  <2> DEFINE j == [at |-> "patch", status |-> s]
  <2>1. Becomes(w, j) /\ UNCHANGED <<history, task, raised, lost>> /\ Placed /\ j.at = "patch"
    BY <1>3 DEF PatchRead
  <2> HIDE DEF j
  <2> QED BY <1>0, <2>1, WebStep
<1>4. ASSUME NEW w \in WebWorkers, PatchSave(w) PROVE IInv'
  <2> DEFINE j == [at |-> "announce", change |-> Len(history) + 1]
  <2>1. Len(history') = Len(history) + 1
    BY <1>0, <1>4, JobKinds, Committed DEF PatchSave, PatchJob
  <2>2. /\ Becomes(w, j) /\ UNCHANGED <<task, raised, lost>>
        /\ j.at = "announce" /\ j.change = Len(history) + 1
    BY <1>4 DEF PatchSave
  <2>3. Placed
    BY <1>0, <1>4 DEF PatchSave, WebSound
  <2> HIDE DEF j
  <2> QED BY <1>0, <2>1, <2>2, <2>3, WebStep
<1>5. ASSUME NEW w \in WebWorkers, PatchQueue(w) PROVE IInv'
  <2>1. web[w].change \in Nat /\ web[w].change <= Len(history)
    BY <1>0, <1>5, JobKinds DEF PatchQueue, AnnounceJob, WebSound
  <2>2. Earliest(Fresh("patch", web[w].change)) = web[w].change
    BY DEF Earliest, Fresh
  <2>3. Becomes(w, Idle) /\ Delay("patch", web[w].change) /\ UNCHANGED <<history, raised, lost>>
    BY <1>5 DEF PatchQueue
  <2> QED BY <1>0, <2>1, <2>2, <2>3, DelayStep
<1>6. ASSUME NEW w \in WebWorkers, CancelRead(w) PROVE IInv'
  <2> DEFINE j == [at |-> "cancel"]
  <2>1. Becomes(w, j) /\ UNCHANGED <<history, task, raised, lost>> /\ Placed /\ j.at = "cancel"
    BY <1>6 DEF CancelRead
  <2> HIDE DEF j
  <2> QED BY <1>0, <2>1, WebStep
<1>7. ASSUME NEW w \in WebWorkers, CancelQueue(w) PROVE IInv'
  <2> DEFINE j == [at |-> "cancelling", left |-> Limit]
  <2>1. /\ Becomes(w, j) /\ Delay("cancel", Len(history) + 1) /\ UNCHANGED <<history, raised, lost>>
        /\ j.at = "cancelling"
    BY <1>7 DEF CancelQueue
  <2>2. Placed
    BY <1>0, <1>7 DEF CancelQueue, WebSound
  <2>3. Earliest(Fresh("cancel", Len(history) + 1)) = Len(history)
    BY <1>0 DEF Earliest, Fresh
  <2> HIDE DEF j
  <2> QED BY <1>0, <2>1, <2>2, <2>3, DelayStep
<1>8. ASSUME NEW w \in WebWorkers, CancelCommit(w) PROVE IInv'
  <2>1. Len(history') = Len(history) + 1
    BY <1>0, <1>8, Committed DEF CancelCommit, Status
  <2>2. Becomes(w, Idle) /\ task' = task /\ raised' = raised /\ Placed
    BY <1>0, <1>8 DEF CancelCommit, WebSound
  <2> QED BY <1>0, <2>1, <2>2, WebStep
<1>9. ASSUME NEW w \in WebWorkers, Rollback(w) \/ Kill(w) PROVE IInv'
  <2>1. Becomes(w, Idle) /\ UNCHANGED <<history, task>> /\ raised \subseteq raised'
    BY <1>9 DEF Rollback, Kill
  <2> QED BY <1>0, <2>1, WebStep
<1>10. ASSUME NEW t \in DOMAIN task, Take(t) PROVE IInv'
  <2>0. /\ task[t] \in Task /\ task[t].state = "queued" /\ task[t].wait = 0
        /\ TaskSound(task[t], Len(history)) /\ UNCHANGED <<history, web, raised, lost>>
    BY <1>0, <1>10, Domains DEF Take, TasksSound
  <2>1. CASE Placed
    <3> DEFINE r == [task[t] EXCEPT !.state = "sending", !.read = Len(history)]
    <3>1. Set(t, r)
      BY <1>10, <2>1 DEF Take
    <3>2. /\ r \in Task /\ r.state = "sending" /\ r.read = Len(history)
          /\ r.told = task[t].told /\ Earliest(r) = Earliest(task[t])
      BY <1>0, <2>0 DEF Task, Earliest
    <3> HIDE DEF r
    <3>3. Earliest(r) \in Int
      BY <3>2 DEF Earliest, Task
    <3>4. TaskSound(r, Len(history))
      BY <1>0, <2>0, <2>1, <3>2, <3>3 DEF TaskSound
    <3> QED BY <1>0, <2>0, <3>1, <3>2, <3>4, TaskStep
  <2>2. CASE ~Placed
    <3> DEFINE r == Retried(task[t])
    <3>1. Set(t, r)
      BY <1>10, <2>2 DEF Take
    <3>2. /\ r \in Task /\ r.told = task[t].told /\ Earliest(r) = Earliest(task[t])
          /\ \/ r.state = "queued" /\ Spent(r) = Spent(task[t])
             \/ r.state = "failed" /\ task[t].tries = MaxRetries
      BY <2>0, RetriedTask DEF Earliest
    <3> HIDE DEF r
    <3>3. TaskSound(r, Len(history))
      BY <2>0, <3>2 DEF TaskSound
    <3>4. ASSUME r.state = "failed", NEW w \in WebWorkers, web[w].at = "placing" PROVE FALSE
      <4>1. task[t].tries = MaxRetries
        BY <3>2, <3>4
      <4>2. Spent(task[t]) <= Limit - web[w].left
        BY <1>0, <2>0, <3>4 DEF Budget
      <4>3. MaxRetries * RetryDelay \in Nat /\ web[w].left \in 0 .. Limit /\ Limit \in Nat
        BY <1>0, <3>4, JobKinds, NotificationsAssumption DEF OpenJob
      <4>4. Spent(task[t]) = MaxRetries * RetryDelay
        BY <2>0, <4>1, <4>3 DEF Spent
      <4> QED BY <4>2, <4>3, <4>4, NotificationsAssumption
    <3> QED BY <1>0, <2>0, <2>2, <3>1, <3>2, <3>3, <3>4, TaskStep
  <2> QED BY <2>1, <2>2
\* What a task is mailing was committed, and is not too old.
<1>a. ASSUME NEW t \in DOMAIN task, task[t].state = "sending",
             NEW mailed \in SUBSET {task[t].read}
      PROVE  LET r == [task[t] EXCEPT !.told = @ \cup mailed] IN
             /\ r \in Task /\ Placed
             /\ Earliest(r) <= Len(history) \/ Earliest(r) <= 1
             /\ \A i \in r.told : Earliest(r) <= i
  <2> DEFINE r == [task[t] EXCEPT !.told = @ \cup mailed]
  <2>1. task[t] \in Task /\ TaskSound(task[t], Len(history))
    BY <1>0, Domains DEF TasksSound
  <2>2. /\ r \in Task /\ Earliest(r) = Earliest(task[t])
        /\ r.told = task[t].told \cup mailed
    BY <2>1 DEF Task, Earliest
  <2> QED BY <1>0, <1>a, <2>1, <2>2 DEF TaskSound
<1>11. ASSUME NEW t \in DOMAIN task, Send(t) PROVE IInv'
  <2> DEFINE q == [task[t] EXCEPT !.told = @ \cup {task[t].read}]
  <2>1. /\ q \in Task /\ Placed
        /\ Earliest(q) <= Len(history) \/ Earliest(q) <= 1
        /\ \A i \in q.told : Earliest(q) <= i
    BY <1>11, <1>a DEF Send
  <2>2. Set(t, Ended(q, "done")) /\ UNCHANGED <<history, web, raised, lost>>
    BY <1>11 DEF Send
  <2> HIDE DEF q
  <2>3. /\ Ended(q, "done") \in Task /\ Ended(q, "done").state = "done"
        /\ Ended(q, "done").told = q.told /\ Earliest(Ended(q, "done")) = Earliest(q)
    BY <2>1, EndedTask DEF Earliest
  <2>4. TaskSound(Ended(q, "done"), Len(history))
    BY <1>0, <2>1, <2>3 DEF TaskSound
  <2> QED BY <1>0, <2>2, <2>3, <2>4, TaskStep
<1>12. ASSUME NEW t \in DOMAIN task, SendRaises(t) PROVE IInv'
  <2>1. PICK mailed \in SUBSET {task[t].read} :
           Set(t, Retried([task[t] EXCEPT !.told = @ \cup mailed]))
    BY <1>12 DEF SendRaises
  <2> DEFINE q == [task[t] EXCEPT !.told = @ \cup mailed]
  <2>2. /\ q \in Task /\ Placed
        /\ Earliest(q) <= Len(history) \/ Earliest(q) <= 1
        /\ \A i \in q.told : Earliest(q) <= i
    BY <1>12, <1>a DEF SendRaises
  <2>3. Set(t, Retried(q)) /\ UNCHANGED <<history, web>> /\ raised' = raised \cup {t}
    BY <1>12, <2>1 DEF SendRaises
  <2> HIDE DEF q
  <2> DEFINE r == Retried(q)
  <2>4. /\ r \in Task /\ r.state \in {"queued", "failed"}
        /\ r.told = q.told /\ Earliest(r) = Earliest(q)
    BY <2>2, RetriedTask DEF Earliest
  <2> HIDE DEF r
  <2>5. TaskSound(r, Len(history))
    BY <1>0, <2>2, <2>4 DEF TaskSound
  <2>6. Set(t, r)
    BY <2>3 DEF r
  <2> QED BY <1>0, <2>2, <2>3, <2>4, <2>5, <2>6, TaskStep
<1>13. ASSUME NEW t \in DOMAIN task, Lose(t) PROVE IInv'
  <2> DEFINE r == Ended(task[t], "lost")
  <2>1. task[t] \in Task /\ TaskSound(task[t], Len(history))
    BY <1>0, Domains DEF TasksSound
  <2>2. /\ r \in Task /\ r.state = "lost" /\ r.told = task[t].told
        /\ Earliest(r) = Earliest(task[t])
    BY <2>1, EndedTask DEF Earliest
  <2>3. Set(t, r) /\ UNCHANGED <<history, web>> /\ raised \subseteq raised'
    BY <1>13 DEF Lose
  <2> HIDE DEF r
  <2>4. TaskSound(r, Len(history))
    BY <2>1, <2>2 DEF TaskSound
  <2> QED BY <1>0, <2>2, <2>3, <2>4, TaskStep
<1>14. CASE Tick
  <2>1. /\ DOMAIN task' = DOMAIN task /\ Len(task') = Len(task)
        /\ history' = history /\ raised' = raised
        /\ \A w \in WebWorkers : web'[w] = IF web[w] \in OpenJob
                                          THEN [web[w] EXCEPT !.left = @ - 1] ELSE web[w]
    BY <1>0, <1>14, Ticked DEF Tick
  <2>2. ASSUME NEW t \in DOMAIN task
        PROVE  /\ task[t] \in Task
               /\ task'[t].state = task[t].state /\ task'[t].told = task[t].told
               /\ Earliest(task'[t]) = Earliest(task[t]) /\ task'[t].read = task[t].read
               /\ task'[t].tries = task[t].tries
               /\ task'[t].wait = IF task[t].wait > 0 THEN task[t].wait - 1 ELSE 0
    <3>1. /\ task[t] \in Task
          /\ task'[t] = [task[t] EXCEPT !.wait = IF @ > 0 THEN @ - 1 ELSE 0]
      BY <1>0, <1>14, Ticked, Domains
    <3> QED BY <3>1 DEF Task, Earliest
  <2>3. ASSUME NEW w \in WebWorkers
        PROVE  /\ web'[w].at = web[w].at
               /\ web[w].at = "announce" => web'[w].change = web[w].change
               /\ web[w].at = "placing" => web'[w].left = web[w].left - 1
    BY <1>0, <2>1, JobKinds DEF OpenJob
  <2>4. TasksSound'
    BY <1>0, <2>1, <2>2 DEF TasksSound, TaskSound
  <2>5. (Placed' <=> Placed) /\ (task' = <<>> <=> task = <<>>)
    BY <1>0, <2>1, EmptySeq, LenProperties DEF TypeOK, Placed
  <2>6. WebSound'
    BY <1>0, <2>1, <2>3, <2>5 DEF WebSound
  <2>7. Budget'
    <3> SUFFICES ASSUME NEW w \in WebWorkers, NEW t \in DOMAIN task,
                        web[w].at = "placing", task[t].state = "queued"
                 PROVE  Spent(task'[t]) <= Limit - (web[w].left - 1)
      BY <2>1, <2>2, <2>3 DEF Budget
    <3>1. Spent(task[t]) <= Limit - web[w].left
      BY <1>0 DEF Budget
    <3>2. /\ task[t].tries * RetryDelay \in Nat /\ task[t].wait \in 0 .. RetryDelay
          /\ web[w].left \in 0 .. Limit /\ Limit \in Nat /\ RetryDelay \in Nat
      BY <1>0, <2>2, JobKinds, NotificationsAssumption DEF Task, OpenJob
    <3>3. task[t].tries * RetryDelay - task[t].wait <= Limit - web[w].left
      BY <3>1 DEF Spent
    <3>4. Spent(task'[t]) = task[t].tries * RetryDelay
                            - (IF task[t].wait > 0 THEN task[t].wait - 1 ELSE 0)
      BY <2>2 DEF Spent
    <3> QED BY <3>2, <3>3, <3>4
  <2>8. RetriesOutlastRequest'
    BY <1>0, <2>1, <2>2, <2>3, <2>5 DEF RetriesOutlastRequest
  <2> QED BY <1>0, <2>4, <2>6, <2>7, <2>8 DEF IInv
<1>15. CASE UNCHANGED vars
  BY <1>0, <1>15
  DEF vars, IInv, TasksSound, WebSound, Budget, RetriesOutlastRequest, Placed
<1> QED BY <1>1, <1>2, <1>3, <1>4, <1>5, <1>6, <1>7, <1>8, <1>9, <1>10, <1>11, <1>12, <1>13,
           <1>14, <1>15 DEF Next, Begin, Continue, Run

LEMMA InvAlways == Spec => []IInv
BY InitInv, NextInv, PTL DEF Spec

\* Wherever a request fails, and however late the task runs, no confirmation is
\* mailed of an order that is not placed.
THEOREM ConfirmationsAreTrue == Spec => []ConfirmationTrue
<1>1. IInv => ConfirmationTrue
  <2> SUFFICES ASSUME IInv, NEW t \in DOMAIN task, task[t].told # {} PROVE Placed
    BY DEF ConfirmationTrue
  <2> QED BY Domains DEF IInv, TasksSound, TaskSound
<1> QED BY <1>1, InvAlways, PTL

\* Whatever is retried, killed or late, a mail never tells a status older than
\* the change it is about, the one before a cancellation excepted.
THEOREM MailsAreNotOlder == Spec => []MailNotOlder
<1>1. IInv => MailNotOlder
  BY DEF IInv, TasksSound, TaskSound, Earliest, MailNotOlder
<1> QED BY <1>1, InvAlways, PTL

\* For any delay and any number of retries that outlast the time limit of a
\* request, the confirmation is not given up while its order may still commit.
THEOREM RetriesOutlast == Spec => []RetriesOutlastRequest
<1>1. IInv => RetriesOutlastRequest
  BY DEF IInv
<1> QED BY <1>1, InvAlways, PTL

-----------------------------------------------------------------------------
(* No mail is forgotten.  While the order is being placed, its task waits or *)
(* has been given up, and the latter the budget excludes; so the mail of     *)
(* every change has a holder from the commit on, and only a kill ends that.  *)

PlaceHasTask ==
    \A w \in WebWorkers :
        web[w].at = "placing" =>
            \E t \in DOMAIN task :
                /\ task[t].by = "place" /\ task[t].change = 1
                /\ task[t].state \in {"queued", "failed"}

\* A PATCH announces the entry it made.
OwnChange ==
    \A w \in WebWorkers :
        web[w].at = "announce" =>
            web[w].change \in DOMAIN history /\ history[web[w].change].by = "patch"

MInv == IInv /\ PlaceHasTask /\ OwnChange /\ NoMailForgotten

Announced == {"place", "patch"}

\* A task r at place t still has, or has told, change i; the sends of the tasks
\* in fell have raised.
Carrier(r, t, i, fell) ==
    \/ r.state \in {"queued", "sending"}
    \/ r.state = "failed" /\ t \in fell
    \/ \E k \in r.told : k >= i

\* A step that leaves the tasks it finds and the changes, and does not end an
\* announcement, forgets none of the changes it finds.
LEMMA StillHandled ==
    ASSUME MInv, NEW i \in DOMAIN history \ lost', history[i].by \in Announced,
           history'[i] = history[i],
           DOMAIN task \subseteq DOMAIN task', lost \subseteq lost',
           \A t \in DOMAIN task :
              /\ task'[t].by = task[t].by /\ task'[t].change = task[t].change
              /\ task[t].by # "cancel" /\ Carrier(task[t], t, i, raised)
                    => Carrier(task'[t], t, i, raised') \/ ~Carries(t, i),
           \A w \in WebWorkers : Announces(w, i) => Handled(i)'
    PROVE  Handled(i)'
<1>1. Handled(i)
  BY DEF MInv, NoMailForgotten, Announced
<1>2. ASSUME NEW t \in DOMAIN task, Carries(t, i), Carrier(task[t], t, i, raised)
      PROVE  Handled(i)'
  <2>1. task[t].by # "cancel"
    BY <1>2 DEF Carries, Announced
  <2>2. t \in DOMAIN task' /\ Carries(t, i)' /\ Carrier(task'[t], t, i, raised')
    BY <1>2, <2>1 DEF Carries
  <2> QED BY <2>2 DEF Handled, Carrier
<1> QED BY <1>1, <1>2 DEF Handled, Carrier

\* A process goes on and no task changes.
LEMMA WebHandled ==
    ASSUME MInv, NEW w \in WebWorkers, NEW j, Becomes(w, j), UNCHANGED <<task, raised>>,
           NEW i \in DOMAIN history \ lost', history[i].by \in Announced,
           history'[i] = history[i], lost \subseteq lost', ~Announces(w, i)
    PROVE  Handled(i)'
<1>1. \A v \in WebWorkers : web'[v] = IF v = w THEN j ELSE web[v]
  BY DEF MInv, IInv, TypeOK, Becomes
<1>2. ASSUME NEW v \in WebWorkers, Announces(v, i) PROVE Handled(i)'
  <2>1. Announces(v, i)'
    BY <1>1, <1>2 DEF Announces
  <2> QED BY <2>1 DEF Handled
<1> QED BY <1>2, StillHandled

\* A task is queued, by the process that announced its change, or for another.
LEMMA DelayHandled ==
    ASSUME MInv, NEW w \in WebWorkers, NEW j, Becomes(w, j),
           NEW by \in {"place", "patch", "cancel"}, NEW change \in Nat, Delay(by, change),
           UNCHANGED <<history, raised, lost>>,
           NEW i \in DOMAIN history \ lost, history[i].by \in Announced,
           Announces(w, i) => i = change /\ by = history[i].by
    PROVE  Handled(i)'
<1>0. TypeOK /\ task \in Seq(Task) /\ Fresh(by, change) \in Task
  BY FreshTask DEF MInv, IInv, TypeOK
<1>1. /\ Len(task) \in Nat /\ DOMAIN task = 1 .. Len(task)
      /\ DOMAIN task' = 1 .. Len(task) + 1
      /\ \A t \in 1 .. Len(task) : task'[t] = task[t]
      /\ task'[Len(task) + 1] = Fresh(by, change)
  <2>1. task' = Append(task, Fresh(by, change))
    BY DEF Delay, Fresh
  <2> QED BY <1>0, <2>1, AppendProperties, LenProperties
<1>2. \A v \in WebWorkers : web'[v] = IF v = w THEN j ELSE web[v]
  BY <1>0 DEF TypeOK, Becomes
<1>3. ASSUME NEW v \in WebWorkers, Announces(v, i)
      PROVE  Handled(i)'
  <2>1. CASE v # w
    <3>1. Announces(v, i)'
      BY <1>2, <1>3, <2>1 DEF Announces
    <3> QED BY <3>1 DEF Handled
  <2>2. CASE v = w
    <3>1. i = change /\ by = history[i].by
      BY <1>3, <2>2
    <3>2. Len(task) + 1 \in DOMAIN task'
      BY <1>1
    <3>3. /\ task'[Len(task) + 1].change = i /\ task'[Len(task) + 1].by = history'[i].by
          /\ task'[Len(task) + 1].state = "queued"
      BY <1>1, <3>1 DEF Fresh
    <3> QED BY <3>2, <3>3 DEF Handled, Carries
  <2> QED BY <2>1, <2>2
<1>4. /\ DOMAIN task \subseteq DOMAIN task'
      /\ \A t \in DOMAIN task : task'[t] = task[t]
  BY <1>1
<1> QED BY <1>3, <1>4, StillHandled

\* A task gets further.
LEMMA TaskHandled ==
    ASSUME MInv, NEW t \in DOMAIN task, NEW r \in Task, Set(t, r),
           UNCHANGED <<history, web>>, raised \subseteq raised', lost \subseteq lost',
           r.by = task[t].by, r.change = task[t].change,
           NEW i \in DOMAIN history \ lost', history[i].by \in Announced,
           Carries(t, i) /\ task[t].by # "cancel" /\ Carrier(task[t], t, i, raised)
              => Carrier(r, t, i, raised')
    PROVE  Handled(i)'
<1>1. /\ DOMAIN task' = DOMAIN task
      /\ \A u \in DOMAIN task : task'[u] = IF u = t THEN r ELSE task[u]
  BY SetTask DEF MInv, IInv
<1>2. ASSUME NEW w \in WebWorkers, Announces(w, i)
      PROVE  Handled(i)'
  <2>1. Announces(w, i)'
    BY <1>2 DEF Announces
  <2> QED BY <2>1 DEF Handled
<1>3. ASSUME NEW u \in DOMAIN task
      PROVE  /\ task'[u].by = task[u].by /\ task'[u].change = task[u].change
             /\ task[u].by # "cancel" /\ Carrier(task[u], u, i, raised)
                    => Carrier(task'[u], u, i, raised') \/ ~Carries(u, i)
  <2>1. CASE u = t
    BY <1>1, <2>1
  <2>2. CASE u # t
    BY <1>1, <2>2 DEF Carrier
  <2> QED BY <2>1, <2>2
<1> QED BY <1>1, <1>2, <1>3, StillHandled

\* A commit appends one entry.
LEMMA CommitsOne ==
    ASSUME TypeOK, NEW s \in Status, NEW by \in {"place", "patch", "cancel"}, Commits(s, by)
    PROVE  /\ Len(history) \in Nat /\ DOMAIN history = 1 .. Len(history)
           /\ DOMAIN history' = 1 .. Len(history) + 1
           /\ \A i \in DOMAIN history : history'[i] = history[i]
           /\ history'[Len(history) + 1].by = by
<1>1. /\ history \in Seq(Entry) /\ [status |-> s, by |-> by] \in Entry
      /\ history' = Append(history, [status |-> s, by |-> by])
  BY DEF TypeOK, Commits, Entry
<1> QED BY <1>1, AppendProperties, LenProperties

\* Before the order is placed, nothing ends or takes the task of a request that
\* is placing it.
LEMMA UnplacedStep ==
    ASSUME MInv, IInv', [Next]_vars, ~Placed'
    PROVE  PlaceHasTask'
<1>0. /\ TypeOK /\ TypeOK' /\ TasksSound /\ WebSound /\ PlaceHasTask /\ ~Placed
      /\ Len(history) = 0 /\ Idle.at = "idle"
      /\ \A t \in DOMAIN task : task[t] \in Task
  <2>1. TypeOK /\ TypeOK' /\ TasksSound /\ WebSound /\ PlaceHasTask
    BY DEF MInv, IInv
  <2>2. history' = history \/ \E e : history' = Append(history, e)
    BY DEF Next, vars, Begin, Continue, Run, Commits, PlaceQueue, PlaceCommit, PatchRead,
           PatchSave, PatchQueue, CancelRead, CancelQueue, CancelCommit, Rollback, Kill,
           Take, Send, SendRaises, Lose, Tick
  <2>3. Len(history') # 0 => Placed'
    BY DEF Placed
  <2>4. history' = history
    BY <2>1, <2>2, <2>3 DEF TypeOK
  <2> QED BY <2>1, <2>4, Domains DEF Placed, Idle
\* The tasks keep what makes one the task of the placing, and no process begins.
<1>a. ASSUME \A t \in DOMAIN task :
                /\ t \in DOMAIN task'
                /\ task'[t].by = task[t].by /\ task'[t].change = task[t].change
                /\ task[t].state \in {"queued", "failed"}
                      => task'[t].state \in {"queued", "failed"},
             \A v \in WebWorkers : web'[v].at = "placing" => web[v].at = "placing"
      PROVE  PlaceHasTask'
  BY <1>0, <1>a DEF PlaceHasTask
<1>1. ASSUME NEW w \in WebWorkers, PlaceQueue(w) PROVE PlaceHasTask'
  <2>1. task = <<>> /\ task' = Append(task, Fresh("place", 1)) /\ Fresh("place", 1) \in Task
    BY <1>1, FreshTask DEF PlaceQueue, Delay, Fresh
  <2>2. 1 \in DOMAIN task' /\ task'[1] = Fresh("place", 1)
    BY <2>1
  <2> QED BY <2>2 DEF PlaceHasTask, Fresh
<1>2. ASSUME NEW w \in WebWorkers, PlaceCommit(w) PROVE FALSE
  BY <1>0, <1>2, Committed, Domains DEF PlaceCommit, Placed, Status
<1>3. ASSUME NEW w \in WebWorkers, Rollback(w) PROVE PlaceHasTask'
  <2>1. task' = task /\ web' = [web EXCEPT ![w] = Idle]
    BY <1>3 DEF Rollback, Becomes
  <2>2. \A v \in WebWorkers : web'[v].at = "placing" => web[v].at = "placing"
    BY <1>0, <2>1 DEF TypeOK
  <2> QED BY <1>a, <2>1, <2>2
<1>4. ASSUME NEW t \in DOMAIN task, Take(t) PROVE PlaceHasTask'
  <2> DEFINE r == Retried(task[t])
  <2>1. Set(t, r) /\ web' = web
    BY <1>0, <1>4 DEF Take
  <2>2. r \in Task /\ r.by = task[t].by /\ r.change = task[t].change /\ r.state \in {"queued", "failed"}
    BY <1>0, RetriedTask
  <2> HIDE DEF r
  <2>3. DOMAIN task' = DOMAIN task /\ \A u \in DOMAIN task : task'[u] = IF u = t THEN r ELSE task[u]
    BY <1>0, <2>1, <2>2, SetTask
  <2> QED BY <1>a, <2>1, <2>2, <2>3
<1>5. ASSUME NEW t \in DOMAIN task, Send(t) \/ SendRaises(t) \/ Lose(t) PROVE FALSE
  BY <1>0, <1>5 DEF Send, SendRaises, Lose, TasksSound, TaskSound
<1>6. CASE Tick
  <2>1. \A t \in DOMAIN task : /\ t \in DOMAIN task'
                              /\ task'[t].by = task[t].by /\ task'[t].change = task[t].change
                              /\ task'[t].state = task[t].state
    BY <1>0, <1>6, Ticked DEF Task
  <2>2. \A v \in WebWorkers : web'[v].at = web[v].at
    BY <1>0, <1>6 DEF Tick, OpenJob
  <2> QED BY <1>a, <2>1, <2>2
<1>7. CASE UNCHANGED vars
  BY <1>0, <1>7 DEF vars, PlaceHasTask
<1>8. ASSUME NEW w \in WebWorkers,
             \/ \E role \in Roles, s \in Status : PatchRead(w, role, s)
             \/ PatchSave(w) \/ PatchQueue(w) \/ Kill(w)
             \/ CancelRead(w) \/ CancelQueue(w)
      PROVE  FALSE
  BY <1>0, <1>8 DEF PatchRead, PatchSave, PatchQueue, Kill, CancelRead, CancelQueue, WebSound
<1>9. ASSUME NEW w \in WebWorkers, CancelCommit(w)
      PROVE  FALSE
  BY <1>0, <1>9 DEF CancelCommit, WebSound
<1> QED BY <1>1, <1>2, <1>3, <1>4, <1>5, <1>6, <1>7, <1>8, <1>9 DEF Next, Begin, Continue, Run

\* After that, whatever step is taken, every change has its mail.
LEMMA PlacedStep ==
    ASSUME MInv, IInv', [Next]_vars, Placed'
    PROVE  NoMailForgotten'
<1>0. /\ TypeOK /\ TypeOK' /\ TasksSound /\ WebSound /\ PlaceHasTask /\ OwnChange /\ NoMailForgotten
      /\ RetriesOutlastRequest
      /\ Len(history) \in Nat /\ DOMAIN history = 1 .. Len(history)
      /\ Placed <=> Len(history) > 0
      /\ \A t \in DOMAIN task : task[t] \in Task
      /\ Idle.at = "idle"
  BY Domains DEF MInv, IInv, Idle
<1>w. ASSUME NEW w \in WebWorkers, NEW j, Becomes(w, j), UNCHANGED <<history, task, raised>>,
             lost \subseteq lost', \A i \in DOMAIN history \ lost' : ~Announces(w, i)
      PROVE  NoMailForgotten'
  <2> SUFFICES ASSUME NEW i \in DOMAIN history \ lost', history[i].by \in Announced
               PROVE  Handled(i)'
    BY <1>w DEF NoMailForgotten, Announced
  <2> QED BY <1>w, WebHandled
\* The entries that were there are handled; the new one is left.
<1>c. ASSUME NEW w \in WebWorkers, NEW j, Becomes(w, j), UNCHANGED <<task, raised, lost>>,
             NEW s \in Status, NEW by \in {"place", "patch", "cancel"}, Commits(s, by),
             web[w].at # "announce",
             NEW n \in Nat, n = Len(history) + 1, by \in Announced => Handled(n)'
      PROVE  NoMailForgotten'
  <2>1. /\ DOMAIN history' = 1 .. Len(history) + 1
        /\ \A i \in DOMAIN history : history'[i] = history[i]
        /\ history'[Len(history) + 1].by = by
    BY <1>0, <1>c, CommitsOne
  <2> SUFFICES ASSUME NEW i \in DOMAIN history' \ lost', history'[i].by \in Announced
               PROVE  Handled(i)'
    BY DEF NoMailForgotten, Announced
  <2>2. CASE i = n
    BY <1>c, <2>1, <2>2
  <2>3. CASE i # n
    <3>1. i \in DOMAIN history \ lost' /\ history'[i] = history[i]
      BY <1>0, <1>c, <2>1, <2>3
    <3>2. ~Announces(w, i) /\ history[i].by \in Announced
      BY <1>c, <3>1 DEF Announces
    <3> QED BY <1>c, <3>1, <3>2, WebHandled
  <2> QED BY <2>2, <2>3
<1>1. ASSUME NEW w \in WebWorkers, PlaceQueue(w) PROVE FALSE
  BY <1>1 DEF PlaceQueue, Placed
<1>2. ASSUME NEW w \in WebWorkers, PlaceCommit(w) PROVE NoMailForgotten'
  <2>1. /\ web[w].at = "placing" /\ Commits("pending", "place") /\ Becomes(w, Idle)
        /\ UNCHANGED <<task, raised, lost>> /\ Len(history) = 0
    BY <1>0, <1>2 DEF PlaceCommit, WebSound
  <2>2. PICK t \in DOMAIN task : /\ task[t].by = "place" /\ task[t].change = 1
                                /\ task[t].state \in {"queued", "failed"}
    BY <1>0, <2>1 DEF PlaceHasTask
  <2>3. task[t].state = "failed" => t \in raised
    BY <1>0, <2>1 DEF RetriesOutlastRequest
  <2>4. "pending" \in Status
    BY DEF Status
  <2>5. history'[1].by = "place"
    BY <1>0, <2>1, <2>4, CommitsOne
  <2>6. Carries(t, 1)' /\ t \in DOMAIN task'
    BY <2>1, <2>2, <2>5 DEF Carries
  <2>7. \/ task'[t].state \in {"queued", "sending"}
        \/ task'[t].state = "failed" /\ t \in raised'
    BY <2>1, <2>2, <2>3
  <2>8. Handled(1)'
    BY <2>6, <2>7 DEF Handled
  <2>9. 1 \in Nat /\ 1 = Len(history) + 1 /\ web[w].at # "announce"
    BY <2>1
  <2> QED BY <1>c, <2>1, <2>4, <2>8, <2>9
<1>3. ASSUME NEW w \in WebWorkers, NEW role \in Roles, NEW s \in Status, PatchRead(w, role, s)
      PROVE  NoMailForgotten'
  <2>1. web[w].at = "idle" /\ UNCHANGED <<history, task, raised, lost>>
    BY <1>0, <1>3 DEF PatchRead
  <2>2. Becomes(w, [at |-> "patch", status |-> s])
    BY <1>3 DEF PatchRead
  <2> QED BY <1>w, <2>1, <2>2 DEF Announces
<1>4. ASSUME NEW w \in WebWorkers, PatchSave(w) PROVE NoMailForgotten'
  <2> DEFINE j == [at |-> "announce", change |-> Len(history) + 1]
  <2>1. /\ web[w].at = "patch" /\ Commits(web[w].status, "patch") /\ Becomes(w, j)
        /\ UNCHANGED <<task, raised, lost>> /\ web[w].status \in Status
    BY <1>0, <1>4, JobKinds DEF PatchSave, PatchJob
  <2>2. web'[w] = j
    BY <1>0, <2>1 DEF Becomes, TypeOK
  <2>3. PICK n \in Nat : n = Len(history) + 1
    BY <1>0
  <2>4. Handled(n)'
    BY <2>2, <2>3 DEF Handled, Announces
  <2> HIDE DEF j
  <2> QED BY <1>c, <2>1, <2>3, <2>4
<1>5. ASSUME NEW w \in WebWorkers, PatchQueue(w) PROVE NoMailForgotten'
  <2> DEFINE n == web[w].change
  <2>1. /\ web[w].at = "announce" /\ n \in Nat /\ Delay("patch", n) /\ Becomes(w, Idle)
        /\ UNCHANGED <<history, raised, lost>>
    BY <1>0, <1>5, JobKinds DEF PatchQueue, AnnounceJob
  <2> SUFFICES ASSUME NEW i \in DOMAIN history \ lost, history[i].by \in Announced
               PROVE  Handled(i)'
    BY <2>1 DEF NoMailForgotten, Announced
  <2>2. Announces(w, i) => i = n /\ "patch" = history[i].by
    BY <1>0, <2>1 DEF Announces, OwnChange
  <2> HIDE DEF n
  <2> QED BY <2>1, <2>2, DelayHandled
<1>6. ASSUME NEW w \in WebWorkers, CancelRead(w) PROVE NoMailForgotten'
  <2>1. web[w].at = "idle" /\ UNCHANGED <<history, task, raised, lost>>
    BY <1>0, <1>6 DEF CancelRead
  <2>2. Becomes(w, [at |-> "cancel"])
    BY <1>6 DEF CancelRead
  <2> QED BY <1>w, <2>1, <2>2 DEF Announces
<1>7. ASSUME NEW w \in WebWorkers, CancelQueue(w) PROVE NoMailForgotten'
  <2> DEFINE n == Len(history) + 1
             j == [at |-> "cancelling", left |-> Limit]
  <2>1. /\ web[w].at = "cancel" /\ n \in Nat /\ Delay("cancel", n) /\ Becomes(w, j)
        /\ UNCHANGED <<history, raised, lost>>
    BY <1>0, <1>7 DEF CancelQueue
  <2> SUFFICES ASSUME NEW i \in DOMAIN history \ lost, history[i].by \in Announced
               PROVE  Handled(i)'
    BY <2>1 DEF NoMailForgotten, Announced
  <2>2. ~Announces(w, i)
    BY <2>1 DEF Announces
  <2> HIDE DEF n, j
  <2> QED BY <2>1, <2>2, DelayHandled
<1>8. ASSUME NEW w \in WebWorkers, CancelCommit(w) PROVE NoMailForgotten'
  <2>1. /\ web[w].at = "cancelling" /\ Commits("cancelled", "cancel") /\ Becomes(w, Idle)
        /\ UNCHANGED <<task, raised, lost>> /\ "cancelled" \in Status
    BY <1>8 DEF CancelCommit, Status
  <2>2. PICK n \in Nat : n = Len(history) + 1
    BY <1>0
  <2>3. "cancel" \notin Announced /\ web[w].at # "announce"
    BY <2>1 DEF Announced
  <2> QED BY <1>c, <2>1, <2>2, <2>3
<1>9. ASSUME NEW w \in WebWorkers, Rollback(w) \/ Kill(w) PROVE NoMailForgotten'
  <2>1. /\ Becomes(w, Idle) /\ UNCHANGED <<history, task, raised>> /\ lost \subseteq lost'
        /\ \A i \in DOMAIN history \ lost' : ~Announces(w, i)
    BY <1>9 DEF Rollback, Kill, Announces
  <2> QED BY <1>w, <2>1
\* One task gets further.
<1>t. ASSUME NEW t \in DOMAIN task, NEW r \in Task, Set(t, r),
             UNCHANGED <<history, web>>, raised \subseteq raised', lost \subseteq lost',
             r.by = task[t].by, r.change = task[t].change,
             \A i \in DOMAIN history \ lost' :
                Carries(t, i) /\ task[t].by # "cancel" /\ Carrier(task[t], t, i, raised)
                   => Carrier(r, t, i, raised')
      PROVE  NoMailForgotten'
  <2> SUFFICES ASSUME NEW i \in DOMAIN history \ lost', history[i].by \in Announced
               PROVE  Handled(i)'
    BY <1>t DEF NoMailForgotten, Announced
  <2> QED BY <1>t, TaskHandled
<1>10. ASSUME NEW t \in DOMAIN task, Take(t) PROVE NoMailForgotten'
  <2> DEFINE r == [task[t] EXCEPT !.state = "sending", !.read = Len(history)]
  <2>1. UNCHANGED <<history, web, raised, lost>> /\ Placed
    BY <1>10 DEF Take, Placed
  <2>2. Set(t, r)
    BY <1>10, <2>1 DEF Take
  <2>3. r \in Task /\ r.by = task[t].by /\ r.change = task[t].change /\ r.state = "sending"
    BY <1>0 DEF Task
  <2> HIDE DEF r
  <2> QED BY <1>t, <2>1, <2>2, <2>3 DEF Carrier
<1>11. ASSUME NEW t \in DOMAIN task, Send(t) PROVE NoMailForgotten'
  <2> DEFINE q == [task[t] EXCEPT !.told = @ \cup {task[t].read}]
             r == Ended(q, "done")
  <2>1. UNCHANGED <<history, web, raised, lost>> /\ Set(t, r) /\ task[t].state = "sending"
    BY <1>11 DEF Send
  <2>2. q \in Task /\ q.by = task[t].by /\ q.change = task[t].change /\ task[t].read \in q.told
    BY <1>0 DEF Task
  <2> HIDE DEF q
  <2>3. r \in Task /\ r.by = task[t].by /\ r.change = task[t].change /\ task[t].read \in r.told
    BY <2>2, EndedTask
  <2>4. task[t].by # "cancel" => task[t].read >= task[t].change
    BY <1>0, <2>1 DEF TasksSound, TaskSound, Earliest, Task
  <2> HIDE DEF r
  <2> QED BY <1>t, <2>1, <2>3, <2>4 DEF Carrier, Carries
<1>12. ASSUME NEW t \in DOMAIN task, SendRaises(t) PROVE NoMailForgotten'
  <2>1. PICK mailed \in SUBSET {task[t].read} :
           Set(t, Retried([task[t] EXCEPT !.told = @ \cup mailed]))
    BY <1>12 DEF SendRaises
  <2> DEFINE q == [task[t] EXCEPT !.told = @ \cup mailed]
             r == Retried(q)
  <2>2. /\ UNCHANGED <<history, web, lost>> /\ Set(t, r) /\ raised' = raised \cup {t}
    BY <1>12, <2>1 DEF SendRaises
  <2>3. q \in Task /\ q.by = task[t].by /\ q.change = task[t].change
    BY <1>0 DEF Task
  <2> HIDE DEF q
  <2>4. /\ r \in Task /\ r.by = task[t].by /\ r.change = task[t].change
        /\ r.state \in {"queued", "failed"}
    BY <2>3, RetriedTask
  <2> HIDE DEF r
  <2> QED BY <1>t, <2>2, <2>4 DEF Carrier
<1>13. ASSUME NEW t \in DOMAIN task, Lose(t) PROVE NoMailForgotten'
  <2> DEFINE r == Ended(task[t], "lost")
  <2>1. /\ UNCHANGED <<history, web, raised>> /\ Set(t, r)
        /\ lost' = lost \cup {i \in DOMAIN history : Carries(t, i)}
    BY <1>13 DEF Lose
  <2>2. r \in Task /\ r.by = task[t].by /\ r.change = task[t].change
    BY <1>0, EndedTask
  <2> HIDE DEF r
  <2> QED BY <1>t, <2>1, <2>2
<1>14. CASE Tick
  <2> SUFFICES ASSUME NEW i \in DOMAIN history \ lost', history[i].by \in Announced
               PROVE  Handled(i)'
    BY <1>14 DEF NoMailForgotten, Announced, Tick
  <2>1. /\ DOMAIN task' = DOMAIN task /\ UNCHANGED <<history, raised, lost>>
        /\ \A w \in WebWorkers : web'[w] = IF web[w] \in OpenJob
                                          THEN [web[w] EXCEPT !.left = @ - 1] ELSE web[w]
    BY <1>0, <1>14, Ticked DEF Tick
  <2>2. \A t \in DOMAIN task :
           /\ task'[t].by = task[t].by /\ task'[t].change = task[t].change
           /\ task'[t].state = task[t].state /\ task'[t].told = task[t].told
    BY <1>0, <1>14, Ticked DEF Task
  <2>3. ASSUME NEW w \in WebWorkers, Announces(w, i) PROVE Handled(i)'
    <3>1. web'[w] = web[w]
      BY <2>1, <2>3 DEF Announces, OpenJob
    <3>2. Announces(w, i)'
      BY <2>3, <3>1 DEF Announces
    <3> QED BY <3>2 DEF Handled
  <2>4. \A t \in DOMAIN task : Carrier(task[t], t, i, raised) => Carrier(task'[t], t, i, raised')
    BY <2>1, <2>2 DEF Carrier
  <2> QED BY <2>1, <2>2, <2>3, <2>4, StillHandled
<1>15. CASE UNCHANGED vars
  BY <1>0, <1>15 DEF vars, NoMailForgotten, Handled, Announces, Carries
<1> QED BY <1>1, <1>2, <1>3, <1>4, <1>5, <1>6, <1>7, <1>8, <1>9, <1>10, <1>11, <1>12, <1>13,
           <1>14, <1>15 DEF Next, Begin, Continue, Run

LEMMA OwnChangeStays ==
    ASSUME MInv, TypeOK', [Next]_vars
    PROVE  OwnChange'
<1>0. TypeOK /\ OwnChange /\ Len(history) \in Nat /\ DOMAIN history = 1 .. Len(history)
      /\ Idle.at = "idle"
  BY Domains DEF MInv, IInv, Idle
\* The entries stay, and a process announces what it did before or its new one.
<1>a. ASSUME DOMAIN history \subseteq DOMAIN history',
             \A i \in DOMAIN history : history'[i] = history[i],
             \A w \in WebWorkers :
                web'[w].at = "announce" =>
                   \/ web[w].at = "announce" /\ web'[w].change = web[w].change
                   \/ web'[w].change \in DOMAIN history' /\ history'[web'[w].change].by = "patch"
      PROVE  OwnChange'
  BY <1>0, <1>a DEF OwnChange
<1>b. ASSUME NEW w \in WebWorkers, NEW j, Becomes(w, j), j.at # "announce",
             DOMAIN history \subseteq DOMAIN history',
             \A i \in DOMAIN history : history'[i] = history[i]
      PROVE  OwnChange'
  <2>1. \A v \in WebWorkers : web'[v] = IF v = w THEN j ELSE web[v]
    BY <1>0, <1>b DEF Becomes, TypeOK
  <2> QED BY <1>a, <1>b, <2>1
<1>1. ASSUME NEW w \in WebWorkers, PlaceQueue(w) \/ CancelRead(w) \/ CancelQueue(w)
                                   \/ PatchQueue(w) \/ Rollback(w) \/ Kill(w)
                                   \/ \E role \in Roles, s \in Status : PatchRead(w, role, s)
      PROVE  OwnChange'
  <2>1. CASE PlaceQueue(w)
    BY <1>b, <2>1 DEF PlaceQueue
  <2>2. CASE CancelRead(w) \/ CancelQueue(w)
    BY <1>b, <2>2 DEF CancelRead, CancelQueue
  <2>3. CASE PatchQueue(w) \/ Rollback(w) \/ Kill(w)
    BY <1>0, <1>b, <2>3 DEF PatchQueue, Rollback, Kill
  <2>4. ASSUME NEW role \in Roles, NEW s \in Status, PatchRead(w, role, s) PROVE OwnChange'
    BY <1>b, <2>4 DEF PatchRead
  <2> QED BY <1>1, <2>1, <2>2, <2>3, <2>4
<1>2. ASSUME NEW w \in WebWorkers, PlaceCommit(w) \/ CancelCommit(w) PROVE OwnChange'
  <2>1. Becomes(w, Idle) /\ (Commits("pending", "place") \/ Commits("cancelled", "cancel"))
    BY <1>2 DEF PlaceCommit, CancelCommit
  <2>2. "pending" \in Status /\ "cancelled" \in Status
    BY DEF Status
  <2>3. DOMAIN history' = 1 .. Len(history) + 1 /\ \A i \in DOMAIN history : history'[i] = history[i]
    BY <1>0, <2>1, <2>2, CommitsOne
  <2> QED BY <1>0, <1>b, <2>1, <2>3
<1>3. ASSUME NEW w \in WebWorkers, PatchSave(w) PROVE OwnChange'
  <2> DEFINE j == [at |-> "announce", change |-> Len(history) + 1]
  <2>1. Commits(web[w].status, "patch") /\ Becomes(w, j) /\ web[w].status \in Status
    BY <1>0, <1>3, JobKinds DEF PatchSave, PatchJob
  <2>2. /\ DOMAIN history' = 1 .. Len(history) + 1
        /\ \A i \in DOMAIN history : history'[i] = history[i]
        /\ history'[Len(history) + 1].by = "patch"
    BY <1>0, <2>1, CommitsOne
  <2>3. \A v \in WebWorkers : web'[v] = IF v = w THEN j ELSE web[v]
    BY <1>0, <2>1 DEF Becomes, TypeOK
  <2> QED BY <1>0, <1>a, <2>2, <2>3
<1>4. ASSUME Tick PROVE OwnChange'
  <2>1. \A w \in WebWorkers : web'[w].at = "announce" =>
           web[w].at = "announce" /\ web'[w].change = web[w].change
    BY <1>0, <1>4 DEF Tick, OpenJob
  <2> QED BY <1>4, <1>a, <2>1 DEF Tick
<1>5. ASSUME NEW t \in DOMAIN task, Run(t) \/ Lose(t) PROVE OwnChange'
  BY <1>0, <1>5 DEF Run, Take, Send, SendRaises, Lose, OwnChange
<1>6. CASE UNCHANGED vars
  BY <1>0, <1>6 DEF vars, OwnChange
<1> QED BY <1>1, <1>2, <1>3, <1>4, <1>5, <1>6 DEF Next, Begin, Continue

LEMMA NextMInv == MInv /\ [Next]_vars => MInv'
<1> SUFFICES ASSUME MInv, [Next]_vars PROVE MInv'
  OBVIOUS
<1>1. IInv' /\ OwnChange'
  BY NextInv, OwnChangeStays DEF MInv, IInv
<1>2. CASE Placed'
  <2>1. PlaceHasTask'
    BY <1>1, <1>2 DEF IInv, WebSound, PlaceHasTask
  <2> QED BY <1>1, <1>2, <2>1, PlacedStep DEF MInv
<1>3. CASE ~Placed'
  <2>1. DOMAIN history' = {}
    BY <1>3 DEF Placed
  <2>2. NoMailForgotten'
    BY <2>1 DEF NoMailForgotten
  <2> QED BY <1>1, <1>3, <2>2, UnplacedStep DEF MInv
<1> QED BY <1>2, <1>3

\* For any number of processes, tasks, retries and changes, every placing of the
\* order and every change by PATCH has its mail, unless the process that had it was
\* killed.
THEOREM NoMailIsForgotten == Spec => []NoMailForgotten
<1>1. Init => MInv
  <2> SUFFICES ASSUME Init PROVE PlaceHasTask /\ OwnChange /\ NoMailForgotten
    BY InitInv DEF MInv
  <2>1. \A w \in WebWorkers : web[w].at = "idle"
    BY DEF Init, Idle
  <2>2. \A i \in DOMAIN history : history[i].by = "before"
    BY DEF Init
  <2> QED BY <2>1, <2>2 DEF PlaceHasTask, OwnChange, NoMailForgotten
<1>2. MInv => NoMailForgotten
  BY DEF MInv
<1> QED BY <1>1, <1>2, NextMInv, PTL DEF Spec

=============================================================================
