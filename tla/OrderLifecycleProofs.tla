------------------------ MODULE OrderLifecycleProofs ------------------------
(***************************************************************************)
(* What is proved of OrderLifecycle for every set of orders and processes  *)
(* and any number of failures.                                             *)
(***************************************************************************)
EXTENDS OrderLifecycle, FiniteSetTheorems, TLAPS

\* The label of a process tells which record it holds.
LEMMA JobKinds ==
    ASSUME TypeOK, NEW w \in Workers
    PROVE  /\ job[w].at \in {"restore", "save", "enqueue"} => job[w] \in PatchJob
           /\ job[w].at \in {"cancel", "cancel_mail", "cancel_commit"} => job[w] \in CancelJob
           /\ job[w].at = "sweep" => job[w] \in SweepJob
           /\ job[w].at \in {"artisan", "customer"} => job[w] \in CreditJob
BY DEF TypeOK, Job, Idle, PatchJob, CancelJob, SweepJob, CreditJob

LEMMA UpdatedRow ==
    ASSUME NEW row \in Row, NEW new \in Status
    PROVE  /\ Updated(row, new) \in Row
           /\ Updated(row, new).status = new
           /\ new \in Stamped => new \in Updated(row, new).stamps
           /\ row.stamps \subseteq Updated(row, new).stamps
<1>1. 0 \in 0 .. AutoCompleteDays
  BY LifecycleAssumption
<1> QED BY <1>1 DEF Updated, Row

LEMMA SweptRow ==
    ASSUME NEW row \in Row
    PROVE  LET completed == [row EXCEPT !.status = "completed", !.stamps = @ \cup {"completed"}]
           IN  /\ completed \in Row
               /\ completed.status = "completed" /\ "completed" \in completed.stamps
BY DEF Row, Status, Stamped

LEMMA CommitTypes ==
    ASSUME TypeOK, NEW o \in Orders, NEW r \in Row, Commit(o, r)
    PROVE  order' \in [Orders -> Row] /\ seen' \in [Orders -> SUBSET Status]
<1>1. r.status \in Status
  BY DEF Row
<1> QED BY <1>1 DEF TypeOK, Commit

LEMMA CreditTypes ==
    ASSUME TypeOK, NEW o \in Orders, NEW p \in Parties, Credited(o, p)
    PROVE  credit' \in [Orders -> [Parties -> Nat]] /\ crashes' \in 0 .. MaxCrashes
BY LifecycleAssumption DEF TypeOK, Credited

LEMMA BeginTypes ==
    ASSUME TypeOK, NEW w \in Workers, NEW S \in SUBSET Orders, NEW j \in Job, Begin(w, S, j)
    PROVE  TypeOK'
BY DEF TypeOK, Begin

LEMMA InitTypeOK == Init => TypeOK
<1>1. NewRow \in Row
  BY LifecycleAssumption DEF NewRow, Row, Status
<1>2. "pending" \in Status /\ 0 \in 0 .. MaxCrashes
  BY LifecycleAssumption DEF Status
<1> QED BY <1>1, <1>2 DEF Init, TypeOK, Job

LEMMA NextTypeOK == TypeOK /\ [Next]_vars => TypeOK'
<1> SUFFICES ASSUME TypeOK, [Next]_vars PROVE TypeOK'
  OBVIOUS
<1>0. Idle \in Job /\ WebWorkers \subseteq Workers /\ CeleryWorkers \subseteq Workers
  BY DEF Job, Workers
<1>1. ASSUME NEW w \in WebWorkers, NEW o \in Orders, NEW role \in Roles, NEW new \in Status,
             PatchRead(w, o, role, new)
      PROVE  TypeOK'
  <2>1. [at |-> IF new = "cancelled" THEN "restore" ELSE "save",
         order |-> o, copy |-> order[o], new |-> new] \in Job
    BY DEF TypeOK, Job, PatchJob
  <2> QED BY <1>0, <1>1, <2>1, BeginTypes DEF PatchRead
<1>2. ASSUME NEW w \in WebWorkers, NEW o \in Orders, CancelRead(w, o)
      PROVE  TypeOK'
  <2>1. [at |-> "cancel", order |-> o, copy |-> order[o]] \in Job
    BY DEF TypeOK, Job, CancelJob
  <2> QED BY <1>0, <1>2, <2>1, BeginTypes DEF CancelRead
<1>3. ASSUME NEW w \in WebWorkers, PatchRestore(w)
      PROVE  TypeOK'
  <2>1. job[w] \in PatchJob
    BY <1>0, <1>3, JobKinds DEF PatchRestore
  <2>2. [job[w] EXCEPT !.at = "save"] \in Job
    BY <2>1 DEF Job, PatchJob
  <2> QED BY <1>0, <1>3, <2>1, <2>2 DEF PatchRestore, TypeOK, PatchJob
<1>4. ASSUME NEW w \in WebWorkers, PatchSave(w)
      PROVE  TypeOK'
  <2>1. job[w] \in PatchJob
    BY <1>0, <1>4, JobKinds DEF PatchSave
  <2>2. [job[w] EXCEPT !.at = "enqueue"] \in Job
    BY <2>1 DEF Job, PatchJob
  <2>3. Updated(job[w].copy, job[w].new) \in Row /\ job[w].order \in Orders
    BY <2>1, UpdatedRow DEF PatchJob
  <2>4. order' \in [Orders -> Row] /\ seen' \in [Orders -> SUBSET Status]
    BY <1>4, <2>3, CommitTypes DEF PatchSave
  <2> QED BY <1>0, <1>4, <2>2, <2>4 DEF PatchSave, TypeOK
<1>5. ASSUME NEW w \in WebWorkers, PatchEnqueue(w)
      PROVE  TypeOK'
  <2>1. job[w] \in PatchJob
    BY <1>0, <1>5, JobKinds DEF PatchEnqueue
  <2> QED BY <1>0, <1>5, <2>1 DEF PatchEnqueue, TypeOK, PatchJob
<1>6. ASSUME NEW w \in WebWorkers, CancelSave(w)
      PROVE  TypeOK'
  <2>1. job[w] \in CancelJob
    BY <1>0, <1>6, JobKinds DEF CancelSave
  <2>2. "cancelled" \in Status
    BY DEF Status
  <2>3. Updated(job[w].copy, "cancelled") \in Row
    BY <2>1, <2>2, UpdatedRow DEF CancelJob
  <2>4. [job[w] EXCEPT !.at = "cancel_mail", !.copy = Updated(@, "cancelled")] \in Job
    BY <2>1, <2>3 DEF Job, CancelJob
  <2>5. job' = [job EXCEPT ![w] =
                   [job[w] EXCEPT !.at = "cancel_mail", !.copy = Updated(@, "cancelled")]]
    BY <1>6 DEF CancelSave
  <2> QED BY <1>0, <1>6, <2>4, <2>5 DEF CancelSave, TypeOK
<1>7. ASSUME NEW w \in WebWorkers, CancelEnqueue(w)
      PROVE  TypeOK'
  <2>1. job[w] \in CancelJob
    BY <1>0, <1>7, JobKinds DEF CancelEnqueue
  <2>2. [job[w] EXCEPT !.at = "cancel_commit"] \in Job
    BY <2>1 DEF Job, CancelJob
  <2>3. <<job[w].order, "cancelled">> \in Orders \X Status
    BY <2>1 DEF CancelJob, Status
  <2> QED BY <1>0, <1>7, <2>2, <2>3 DEF CancelEnqueue, TypeOK
<1>8. ASSUME NEW w \in WebWorkers, CancelCommit(w)
      PROVE  TypeOK'
  <2>1. job[w] \in CancelJob
    BY <1>0, <1>8, JobKinds DEF CancelCommit
  <2>2. order' \in [Orders -> Row] /\ seen' \in [Orders -> SUBSET Status]
    BY <1>8, <2>1, CommitTypes DEF CancelCommit, CancelJob
  <2>3. returned' \in [Orders -> Nat]
    BY <1>8, <2>1 DEF CancelCommit, TypeOK, CancelJob
  <2>4. job' \in [Workers -> Job]
    BY <1>0, <1>8 DEF CancelCommit, TypeOK
  <2> QED BY <1>8, <2>2, <2>3, <2>4 DEF CancelCommit, TypeOK
<1>9. ASSUME NEW c \in CeleryWorkers, SweepStart(c)
      PROVE  TypeOK'
  <2> DEFINE batch == {o \in Orders : Due(order[o])}
  <2>1. [at |-> "sweep", batch |-> batch] \in Job
    BY DEF Job, SweepJob
  <2>2. PICK j \in Job : Begin(c, batch, j)
    BY <1>0, <1>9, <2>1 DEF SweepStart
  <2> QED BY <1>0, <2>2, BeginTypes
<1>10. ASSUME NEW c \in CeleryWorkers, NEW o \in Orders, SweepSave(c, o)
       PROVE  TypeOK'
  <2>1. job[c] \in SweepJob
    BY <1>0, <1>10, JobKinds DEF SweepSave, Completes
  <2>2. [at |-> "artisan", batch |-> job[c].batch \ {o}, order |-> o] \in Job
    BY <2>1 DEF Job, SweepJob, CreditJob
  <2>3. order' \in [Orders -> Row] /\ seen' \in [Orders -> SUBSET Status]
    BY <1>10, SweptRow, CommitTypes DEF SweepSave, Completes, TypeOK
  <2> QED BY <1>0, <1>10, <2>2, <2>3 DEF SweepSave, Completes, TypeOK
<1>11. ASSUME NEW c \in CeleryWorkers, CreditArtisan(c)
       PROVE  TypeOK'
  <2>1. job[c] \in CreditJob
    BY <1>0, <1>11, JobKinds DEF CreditArtisan
  <2>2. [job[c] EXCEPT !.at = "customer"] \in Job
    BY <2>1 DEF Job, CreditJob
  <2>3. credit' \in [Orders -> [Parties -> Nat]] /\ crashes' \in 0 .. MaxCrashes
    BY <1>11, <2>1, CreditTypes DEF CreditArtisan, CreditJob, Parties
  <2> QED BY <1>0, <1>11, <2>2, <2>3 DEF CreditArtisan, TypeOK
<1>12. ASSUME NEW c \in CeleryWorkers, CreditCustomer(c)
       PROVE  TypeOK'
  <2>1. job[c] \in CreditJob
    BY <1>0, <1>12, JobKinds DEF CreditCustomer
  <2>2. [at |-> "sweep", batch |-> job[c].batch] \in Job
    BY <2>1 DEF Job, SweepJob, CreditJob
  <2>3. credit' \in [Orders -> [Parties -> Nat]] /\ crashes' \in 0 .. MaxCrashes
    BY <1>12, <2>1, CreditTypes DEF CreditCustomer, CreditJob, Parties
  <2> QED BY <1>0, <1>12, <2>2, <2>3 DEF CreditCustomer, NextOfBatch, TypeOK
<1>13. CASE Tick
  <2>1. \A o \in Orders : order[o].age < AutoCompleteDays =>
           [order[o] EXCEPT !.age = @ + 1] \in Row
    <3> SUFFICES ASSUME NEW o \in Orders, order[o].age < AutoCompleteDays
                 PROVE  [order[o] EXCEPT !.age = @ + 1] \in Row
      OBVIOUS
    <3>1. order[o] \in Row
      BY DEF TypeOK
    <3>2. order[o].age + 1 \in 0 .. AutoCompleteDays
      BY <3>1, LifecycleAssumption DEF Row
    <3> QED BY <3>1, <3>2 DEF Row
  <2> QED BY <1>13, <2>1 DEF Tick, TypeOK
<1>14. ASSUME NEW w \in Workers, Crash(w)
       PROVE  TypeOK'
  BY <1>0, <1>14, LifecycleAssumption DEF Crash, TypeOK
<1>15. CASE UNCHANGED vars
  BY <1>15 DEF vars, TypeOK
<1> QED
  BY <1>1, <1>2, <1>3, <1>4, <1>5, <1>6, <1>7, <1>8, <1>9, <1>10, <1>11, <1>12, <1>13,
     <1>14, <1>15
  DEF Next, PatchStep, CancelStep, SweepStep

\* Every reachable state is well typed.
THEOREM TypeCorrect == Spec => []TypeOK
BY InitTypeOK, NextTypeOK, PTL DEF Spec

-----------------------------------------------------------------------------
(* The past of an order.  What a handler will write rests on a status the    *)
(* order had when the handler read it; seen only grows, so that stays true   *)
(* however stale the copy becomes.                                           *)

JobGrounded(j, past) ==
    /\ j.at \in {"restore", "save"} =>
          j.copy.status \in past[j.order] /\ <<j.copy.status, j.new>> \in Transition
    /\ j.at = "enqueue" => j.new \in past[j.order]
    /\ j.at = "cancel" =>
          j.copy.status \in past[j.order] /\ <<j.copy.status, "cancelled">> \in Transition
    /\ j.at \in {"cancel_mail", "cancel_commit"} =>
          /\ j.copy.status = "cancelled" /\ "cancelled" \in j.copy.stamps
          /\ \E r \in past[j.order] : <<r, "cancelled">> \in Transition
    /\ j.at \in {"sweep", "artisan", "customer"} => \A o \in j.batch : "delivered" \in past[o]

JobsGrounded == \A w \in Workers : JobGrounded(job[w], seen)

GInv == TypeOK /\ StatusStamped /\ HistoryGrounded /\ AnnouncedHappened /\ JobsGrounded

LEMMA InitGInv == Init => GInv
BY InitTypeOK
DEF Init, GInv, StatusStamped, HistoryGrounded, AnnouncedHappened, JobsGrounded, JobGrounded,
    NewRow, Idle, Stamped

\* A write whose status follows one the order has had.
LEMMA GroundedCommit ==
    ASSUME GInv, NEW o \in Orders, NEW r \in Row, Commit(o, r),
           r.status \in Stamped => r.status \in r.stamps,
           \E q \in seen[o] : <<q, r.status>> \in Transition
    PROVE  /\ StatusStamped' /\ HistoryGrounded'
           /\ r.status \in seen'[o]
           /\ \A x \in Orders : seen[x] \subseteq seen'[x]
<1> USE DEF GInv, TypeOK, Commit
<1>1. StatusStamped'
  BY DEF StatusStamped
<1>2. r.status \in seen'[o] /\ \A x \in Orders : seen[x] \subseteq seen'[x]
  OBVIOUS
<1>3. ASSUME NEW x \in Orders PROVE order'[x].status \in seen'[x]
  BY DEF HistoryGrounded
<1>4. ASSUME NEW x \in Orders, NEW s \in seen'[x] \ {"pending"}
      PROVE  \E q \in seen'[x] : <<q, s>> \in Transition
  <2>1. CASE s \in seen[x]
    <3>1. PICK q \in seen[x] : <<q, s>> \in Transition
      BY <1>4, <2>1 DEF HistoryGrounded
    <3> QED BY <3>1, <1>2
  <2>2. CASE s \notin seen[x]
    <3>1. x = o /\ s = r.status
      BY <1>4, <2>2
    <3>2. PICK q \in seen[o] : <<q, r.status>> \in Transition
      OBVIOUS
    <3> QED BY <3>1, <3>2, <1>2
  <2> QED BY <2>1, <2>2
<1>5. HistoryGrounded'
  BY <1>3, <1>4 DEF HistoryGrounded
<1> QED BY <1>1, <1>2, <1>5

\* The jobs of the others stay grounded when the past only grows.
LEMMA GroundedJobs ==
    ASSUME GInv, NEW w \in Workers, NEW j,
           job' = [job EXCEPT ![w] = j],
           \A x \in Orders : seen[x] \subseteq seen'[x],
           JobGrounded(j, seen')
    PROVE  JobsGrounded'
<1> SUFFICES ASSUME NEW v \in Workers PROVE JobGrounded(job'[v], seen')
  BY DEF JobsGrounded
<1>1. CASE v = w
  BY <1>1 DEF GInv, TypeOK
<1>2. CASE v # w
  <2>1. job'[v] = job[v] /\ JobGrounded(job[v], seen)
    BY <1>2 DEF GInv, TypeOK, JobsGrounded
  <2>2. /\ job[v].at \in {"restore", "save", "enqueue", "cancel", "cancel_mail", "cancel_commit"} =>
              job[v].order \in Orders
        /\ job[v].at \in {"sweep", "artisan", "customer"} => job[v].batch \subseteq Orders
    BY JobKinds DEF GInv, PatchJob, CancelJob, SweepJob, CreditJob
  <2> QED BY <2>1, <2>2 DEF JobGrounded
<1> QED BY <1>1, <1>2

LEMMA NextGInv == GInv /\ [Next]_vars => GInv'
<1> SUFFICES ASSUME GInv, [Next]_vars PROVE GInv'
  OBVIOUS
<1>0. /\ TypeOK /\ TypeOK' /\ StatusStamped /\ HistoryGrounded /\ AnnouncedHappened
      /\ WebWorkers \subseteq Workers /\ CeleryWorkers \subseteq Workers
      /\ \A w \in Workers : JobGrounded(job[w], seen)
  BY NextTypeOK DEF GInv, Workers, JobsGrounded
\* A step that leaves rows, past and mails alone.
<1>a. ASSUME NEW w \in Workers, NEW j, job' = [job EXCEPT ![w] = j],
             UNCHANGED <<order, seen, queued>>, JobGrounded(j, seen)
      PROVE  GInv'
  <2>1. JobsGrounded'
    BY <1>a, GroundedJobs
  <2> QED BY <1>0, <1>a, <2>1 DEF GInv, StatusStamped, HistoryGrounded, AnnouncedHappened
\* A step that writes a row.
<1>b. ASSUME NEW w \in Workers, NEW j, job' = [job EXCEPT ![w] = j],
             NEW o \in Orders, NEW r \in Row, Commit(o, r), queued' = queued,
             r.status \in Stamped => r.status \in r.stamps,
             \E q \in seen[o] : <<q, r.status>> \in Transition,
             r.status \in seen'[o] /\ (\A x \in Orders : seen[x] \subseteq seen'[x]) =>
                JobGrounded(j, seen')
      PROVE  GInv'
  <2>1. /\ StatusStamped' /\ HistoryGrounded'
        /\ r.status \in seen'[o]
        /\ \A x \in Orders : seen[x] \subseteq seen'[x]
    BY <1>b, GroundedCommit
  <2>2. JobsGrounded'
    BY <1>b, <2>1, GroundedJobs
  <2>3. AnnouncedHappened'
    BY <1>0, <1>b, <2>1 DEF AnnouncedHappened
  <2> QED BY <1>0, <2>1, <2>2, <2>3 DEF GInv
<1>1. ASSUME NEW w \in WebWorkers, NEW o \in Orders, NEW role \in Roles, NEW new \in Status,
             PatchRead(w, o, role, new)
      PROVE  GInv'
  <2> DEFINE j == [at |-> IF new = "cancelled" THEN "restore" ELSE "save",
                   order |-> o, copy |-> order[o], new |-> new]
  <2>1. JobGrounded(j, seen)
    BY <1>0, <1>1 DEF JobGrounded, PatchRead, MayUpdate, HistoryGrounded
  <2>2. job' = [job EXCEPT ![w] = j] /\ UNCHANGED <<order, seen, queued>>
    BY <1>1 DEF PatchRead, Begin
  <2> HIDE DEF j
  <2> QED BY <1>0, <1>a, <2>1, <2>2
<1>2. ASSUME NEW w \in WebWorkers, NEW o \in Orders, CancelRead(w, o)
      PROVE  GInv'
  <2> DEFINE j == [at |-> "cancel", order |-> o, copy |-> order[o]]
  <2>1. JobGrounded(j, seen)
    BY <1>0, <1>2 DEF JobGrounded, CancelRead, MayUpdate, HistoryGrounded
  <2>2. job' = [job EXCEPT ![w] = j] /\ UNCHANGED <<order, seen, queued>>
    BY <1>2 DEF CancelRead, Begin
  <2> HIDE DEF j
  <2> QED BY <1>0, <1>a, <2>1, <2>2
<1>3. ASSUME NEW w \in WebWorkers, PatchRestore(w)
      PROVE  GInv'
  <2> DEFINE j == [job[w] EXCEPT !.at = "save"]
  <2>1. job[w] \in PatchJob /\ job[w].at = "restore"
    BY <1>0, <1>3, JobKinds DEF PatchRestore
  <2>2. JobGrounded(j, seen)
    BY <1>0, <2>1 DEF JobGrounded, PatchJob
  <2>3. job' = [job EXCEPT ![w] = j] /\ UNCHANGED <<order, seen, queued>>
    BY <1>3 DEF PatchRestore
  <2> HIDE DEF j
  <2> QED BY <1>0, <1>a, <2>2, <2>3
<1>4. ASSUME NEW w \in WebWorkers, PatchSave(w)
      PROVE  GInv'
  <2> DEFINE j == [job[w] EXCEPT !.at = "enqueue"]
             r == Updated(job[w].copy, job[w].new)
  <2>1. job[w] \in PatchJob /\ job[w].at = "save"
    BY <1>0, <1>4, JobKinds DEF PatchSave
  <2>2. /\ job[w].order \in Orders /\ r \in Row /\ r.status = job[w].new
        /\ r.status \in Stamped => r.status \in r.stamps
    BY <2>1, UpdatedRow DEF PatchJob
  <2>3. job[w].copy.status \in seen[job[w].order]
        /\ <<job[w].copy.status, job[w].new>> \in Transition
    BY <1>0, <2>1 DEF JobGrounded
  <2>4. r.status \in seen'[job[w].order] => JobGrounded(j, seen')
    BY <2>1, <2>2 DEF JobGrounded, PatchJob
  <2>5. job' = [job EXCEPT ![w] = j] /\ Commit(job[w].order, r) /\ queued' = queued
    BY <1>4 DEF PatchSave
  <2> HIDE DEF j, r
  <2> QED BY <1>0, <1>b, <2>2, <2>3, <2>4, <2>5
<1>5. ASSUME NEW w \in WebWorkers, PatchEnqueue(w)
      PROVE  GInv'
  <2>1. job[w].at = "enqueue" /\ job[w].new \in seen[job[w].order]
    BY <1>0, <1>5 DEF PatchEnqueue, JobGrounded
  <2>2. /\ job' = [job EXCEPT ![w] = Idle] /\ UNCHANGED <<order, seen>>
        /\ queued' = queued \cup {<<job[w].order, job[w].new>>}
    BY <1>5 DEF PatchEnqueue
  <2>3. JobGrounded(Idle, seen')
    BY DEF JobGrounded, Idle
  <2>4. JobsGrounded'
    BY <1>0, <2>2, <2>3, GroundedJobs
  <2>5. AnnouncedHappened'
    BY <1>0, <2>1, <2>2 DEF AnnouncedHappened
  <2> QED BY <1>0, <2>2, <2>4, <2>5 DEF GInv, StatusStamped, HistoryGrounded
<1>6. ASSUME NEW w \in WebWorkers, CancelSave(w)
      PROVE  GInv'
  <2> DEFINE r == Updated(job[w].copy, "cancelled")
             j == [job[w] EXCEPT !.at = "cancel_mail", !.copy = r]
  <2>1. job[w] \in CancelJob /\ job[w].at = "cancel"
    BY <1>0, <1>6, JobKinds DEF CancelSave
  <2>2. r.status = "cancelled" /\ "cancelled" \in r.stamps
    BY <2>1, UpdatedRow DEF CancelJob, Status, Stamped
  <2>3. job[w].copy.status \in seen[job[w].order]
        /\ <<job[w].copy.status, "cancelled">> \in Transition
    BY <1>0, <2>1 DEF JobGrounded
  <2>4. job' = [job EXCEPT ![w] = j] /\ UNCHANGED <<order, seen, queued>>
    BY <1>6 DEF CancelSave
  <2> HIDE DEF r
  <2>5. JobGrounded(j, seen)
    BY <2>1, <2>2, <2>3 DEF JobGrounded, CancelJob
  <2> HIDE DEF j
  <2> QED BY <1>0, <1>a, <2>4, <2>5
<1>7. ASSUME NEW w \in WebWorkers, CancelEnqueue(w)
      PROVE  GInv'
  <2> DEFINE j == [job[w] EXCEPT !.at = "cancel_commit"]
  <2>1. job[w] \in CancelJob /\ job[w].at = "cancel_mail"
    BY <1>0, <1>7, JobKinds DEF CancelEnqueue
  <2>2. /\ job' = [job EXCEPT ![w] = j] /\ UNCHANGED <<order, seen>>
        /\ queued' = queued \cup {<<job[w].order, "cancelled">>}
    BY <1>7 DEF CancelEnqueue
  <2>3. JobGrounded(j, seen')
    BY <1>0, <2>1, <2>2 DEF JobGrounded, CancelJob
  <2> HIDE DEF j
  <2>4. JobsGrounded'
    BY <1>0, <2>2, <2>3, GroundedJobs
  <2>5. AnnouncedHappened'
    BY <1>0, <2>2 DEF AnnouncedHappened
  <2> QED BY <1>0, <2>2, <2>4, <2>5 DEF GInv, StatusStamped, HistoryGrounded
<1>8. ASSUME NEW w \in WebWorkers, CancelCommit(w)
      PROVE  GInv'
  <2>1. job[w] \in CancelJob /\ job[w].at = "cancel_commit"
    BY <1>0, <1>8, JobKinds DEF CancelCommit
  <2>2. /\ job[w].copy.status = "cancelled" /\ "cancelled" \in job[w].copy.stamps
        /\ \E q \in seen[job[w].order] : <<q, "cancelled">> \in Transition
    BY <1>0, <2>1 DEF JobGrounded
  <2>3. job' = [job EXCEPT ![w] = Idle] /\ Commit(job[w].order, job[w].copy) /\ queued' = queued
    BY <1>8 DEF CancelCommit
  <2>4. JobGrounded(Idle, seen')
    BY DEF JobGrounded, Idle
  <2>5. job[w].order \in Orders /\ job[w].copy \in Row
    BY <2>1 DEF CancelJob
  <2> QED BY <1>0, <1>b, <2>2, <2>3, <2>4, <2>5
<1>9. ASSUME NEW c \in CeleryWorkers, SweepStart(c)
      PROVE  GInv'
  <2> DEFINE batch == {o \in Orders : Due(order[o])}
             j == IF batch = {} THEN Idle ELSE [at |-> "sweep", batch |-> batch]
  <2>1. \A o \in batch : "delivered" \in seen[o]
    BY <1>0 DEF Due, HistoryGrounded
  <2>2. job' = [job EXCEPT ![c] = j] /\ UNCHANGED <<order, seen, queued>>
    BY <1>9 DEF SweepStart, Begin
  <2> HIDE DEF batch
  <2>3. JobGrounded(j, seen)
    BY <2>1 DEF JobGrounded, Idle
  <2> HIDE DEF j
  <2> QED BY <1>0, <1>a, <2>2, <2>3
<1>10. ASSUME NEW c \in CeleryWorkers, NEW o \in Orders, SweepSave(c, o)
       PROVE  GInv'
  <2> DEFINE r == [order[o] EXCEPT !.status = "completed", !.stamps = @ \cup {"completed"}]
             j == [at |-> "artisan", batch |-> job[c].batch \ {o}, order |-> o]
  <2>1. job[c] \in SweepJob /\ job[c].at = "sweep" /\ o \in job[c].batch
    BY <1>0, <1>10, JobKinds DEF SweepSave, Completes
  <2>2. r \in Row /\ r.status = "completed" /\ "completed" \in r.stamps
    BY SweptRow, <1>0 DEF TypeOK
  <2>3. \A x \in job[c].batch : "delivered" \in seen[x]
    BY <1>0, <2>1 DEF JobGrounded
  <2>4. "delivered" \in seen[o] /\ <<"delivered", "completed">> \in Transition
    BY <2>1, <2>3 DEF Transition
  <2>5. job' = [job EXCEPT ![c] = j] /\ Commit(o, r) /\ queued' = queued
    BY <1>10 DEF SweepSave, Completes
  <2>6. (\A x \in Orders : seen[x] \subseteq seen'[x]) => JobGrounded(j, seen')
    BY <2>1, <2>3 DEF JobGrounded, SweepJob
  <2> HIDE DEF j, r
  <2> QED BY <1>0, <1>b, <2>2, <2>4, <2>5, <2>6
<1>11. ASSUME NEW c \in CeleryWorkers, CreditArtisan(c)
       PROVE  GInv'
  <2> DEFINE j == [job[c] EXCEPT !.at = "customer"]
  <2>1. job[c] \in CreditJob /\ job[c].at = "artisan"
    BY <1>0, <1>11, JobKinds DEF CreditArtisan
  <2>2. JobGrounded(j, seen)
    BY <1>0, <2>1 DEF JobGrounded, CreditJob
  <2>3. job' = [job EXCEPT ![c] = j] /\ UNCHANGED <<order, seen, queued>>
    BY <1>11 DEF CreditArtisan
  <2> HIDE DEF j
  <2> QED BY <1>0, <1>a, <2>2, <2>3
<1>12. ASSUME NEW c \in CeleryWorkers, CreditCustomer(c)
       PROVE  GInv'
  <2> DEFINE j == IF job[c].batch = {} THEN Idle ELSE [at |-> "sweep", batch |-> job[c].batch]
  <2>1. job[c] \in CreditJob /\ job[c].at = "customer"
    BY <1>0, <1>12, JobKinds DEF CreditCustomer
  <2>2. JobGrounded(j, seen)
    BY <1>0, <2>1 DEF JobGrounded, CreditJob, Idle
  <2>3. job' = [job EXCEPT ![c] = j] /\ UNCHANGED <<order, seen, queued>>
    BY <1>12 DEF CreditCustomer, NextOfBatch
  <2> HIDE DEF j
  <2> QED BY <1>0, <1>a, <2>2, <2>3
<1>13. CASE Tick
  <2>1. \A o \in Orders : order'[o].status = order[o].status /\ order'[o].stamps = order[o].stamps
    BY <1>0, <1>13 DEF Tick, TypeOK, Row
  <2>2. UNCHANGED <<job, seen, queued>>
    BY <1>13 DEF Tick
  <2> QED BY <1>0, <2>1, <2>2
      DEF GInv, StatusStamped, HistoryGrounded, AnnouncedHappened, JobsGrounded
<1>14. ASSUME NEW w \in Workers, Crash(w)
       PROVE  GInv'
  <2>1. JobGrounded(Idle, seen)
    BY DEF JobGrounded, Idle
  <2>2. job' = [job EXCEPT ![w] = Idle] /\ UNCHANGED <<order, seen, queued>>
    BY <1>14 DEF Crash
  <2> QED BY <1>a, <2>1, <2>2
<1>15. CASE UNCHANGED vars
  BY <1>0, <1>15
  DEF vars, GInv, StatusStamped, HistoryGrounded, AnnouncedHappened, JobsGrounded
<1> QED
  BY <1>1, <1>2, <1>3, <1>4, <1>5, <1>6, <1>7, <1>8, <1>9, <1>10, <1>11, <1>12, <1>13,
     <1>14, <1>15
  DEF Next, PatchStep, CancelStep, SweepStep

LEMMA GroundedAlways == Spec => []GInv
BY InitGInv, NextGInv, PTL DEF Spec

\* Whatever overlaps and fails, a status with a time-stamp column has its stamp.
THEOREM StampsTrueToStatus == Spec => []StatusStamped
<1>1. GInv => StatusStamped
  BY DEF GInv
<1> QED BY <1>1, GroundedAlways, PTL

\* Whatever overlaps and fails, every status an order has ever had follows, in
\* the table of validate_status, another one it has had.
THEOREM HistoryAlwaysGrounded == Spec => []HistoryGrounded
<1>1. GInv => HistoryGrounded
  BY DEF GInv
<1> QED BY <1>1, GroundedAlways, PTL

\* No mail is queued for a status that never was, cancellations aside.
THEOREM MailsTellTheTruth == Spec => []AnnouncedHappened
<1>1. GInv => AnnouncedHappened
  BY DEF GInv
<1> QED BY <1>1, GroundedAlways, PTL

-----------------------------------------------------------------------------
(* An order that no two processes were about to write at once.  Its copy is  *)
(* never stale, so each write makes a move of the table, keeps the stamps,   *)
(* and the units are back exactly when the order is cancelled.               *)

\* j has put the units back and not yet written the row.
Restored(j) == j.at = "save" /\ j.new = "cancelled"

Units(row) == IF row.status = "cancelled" THEN 1 ELSE 0

\* What the only writer of a row knows of it.
JobFresh(j, row) ==
    /\ j.at \in {"restore", "save", "cancel"} => j.copy = row
    /\ j.at = "restore" => j.new = "cancelled"
    /\ j.at \in {"cancel_mail", "cancel_commit"} =>
          /\ <<row.status, "cancelled">> \in Transition
          /\ row.stamps \subseteq j.copy.stamps
    /\ j.at \in {"sweep", "artisan", "customer"} => row.status = "delivered"

Counted(o) ==
    /\ Writers(o) = {} => returned[o] = Units(order[o])
    /\ \A w \in Writers(o) :
          returned[o] = IF Restored(job[w]) THEN 1 ELSE Units(order[o])

Calm(o) ==
    /\ \A v, w \in Writers(o) : v = w
    /\ \A w \in Writers(o) : JobFresh(job[w], order[o])
    /\ crashes = 0 => Counted(o)

SInv == GInv /\ \A o \in Orders \ raced : Calm(o)

\* What a step does to a row.
RowMoves(o) ==
    /\ \/ order'[o].status = order[o].status
       \/ <<order[o].status, order'[o].status>> \in Transition
    /\ order[o].stamps \subseteq order'[o].stamps

\* An order stays raced.
LEMMA RacedGrows == [Next]_vars => raced \subseteq raced'
BY DEF Next, vars, PatchRead, CancelRead, SweepStart, Begin, PatchStep, PatchRestore, PatchSave,
       PatchEnqueue, CancelStep, CancelSave, CancelEnqueue, CancelCommit, SweepStep, SweepSave, Completes,
       CreditArtisan, CreditCustomer, NextOfBatch, Tick, Crash

\* Where no units are back, a cancellation may start.
LEMMA NotCancelled ==
    ASSUME NEW row \in Row, NEW s, <<row.status, s>> \in Transition
    PROVE  Units(row) = 0
BY DEF Units, Transition

\* The row stays, and so does its writer, if it has one.
LEMMA StillCalm ==
    ASSUME TypeOK, NEW o \in Orders, Calm(o), NEW w \in Workers, NEW j,
           job' = [job EXCEPT ![w] = j],
           order'[o] = order[o], returned'[o] = returned[o], crashes' = 0 => crashes = 0,
           Writes(j, o) <=> Writes(job[w], o),
           Writes(j, o) => JobFresh(j, order[o]) /\ (Restored(j) <=> Restored(job[w]))
    PROVE  Calm(o)'
<1>1. \A v \in Workers : job'[v] = IF v = w THEN j ELSE job[v]
  BY DEF TypeOK
<1>2. Writers(o)' = Writers(o)
  BY <1>1 DEF Writers
<1>3. \A v \in Writers(o) : /\ JobFresh(job'[v], order'[o])
                            /\ Restored(job'[v]) <=> Restored(job[v])
  BY <1>1 DEF Calm, Writers
<1>4. Units(order'[o]) = Units(order[o])
  OBVIOUS
<1>5. Counted(o) => Counted(o)'
  BY <1>2, <1>3, <1>4 DEF Counted
<1> QED BY <1>2, <1>3, <1>5 DEF Calm

\* A process that has read the row is its only writer, or the order is raced.
LEMMA BegunCalm ==
    ASSUME TypeOK, NEW o \in Orders \ raced', Calm(o), NEW w \in Workers, NEW S, NEW j,
           Begin(w, S, j), ~Restored(j),
           Writes(j, o) => o \in S /\ JobFresh(j, order[o])
    PROVE  Calm(o)'
<1>1. /\ \A v \in Workers : job'[v] = IF v = w THEN j ELSE job[v]
      /\ job' = [job EXCEPT ![w] = j] /\ job[w] = Idle
      /\ order' = order /\ returned' = returned /\ crashes' = crashes
  BY DEF TypeOK, Begin
<1>2. ~Writes(job[w], o)
  BY <1>1 DEF Writes, Idle
<1>3. CASE Writes(j, o)
  <2>1. Writers(o) = {}
    BY <1>3 DEF Begin
  <2>2. Writers(o)' = {w}
    BY <1>1, <1>3, <2>1 DEF Writers
  <2>3. Counted(o) => Counted(o)'
    BY <1>1, <2>1, <2>2 DEF Counted
  <2> QED BY <1>1, <1>3, <2>2, <2>3 DEF Calm
<1>4. CASE ~Writes(j, o)
  BY <1>1, <1>2, <1>4, StillCalm
<1> QED BY <1>3, <1>4

\* A writer that is done with the row leaves it with no writer.
LEMMA WrittenCalm ==
    ASSUME TypeOK, NEW o \in Orders, Calm(o), NEW w \in Workers, NEW j,
           job' = [job EXCEPT ![w] = j], Writes(job[w], o), ~Writes(j, o),
           crashes' = 0 => returned'[o] = Units(order'[o])
    PROVE  Calm(o)'
<1>1. \A v \in Workers : job'[v] = IF v = w THEN j ELSE job[v]
  BY DEF TypeOK
<1>2. Writers(o)' = {}
  BY <1>1 DEF Writers, Calm
<1> QED BY <1>2 DEF Calm, Counted

LEMMA CalmStep ==
    ASSUME SInv, [Next]_vars, NEW o \in Orders \ raced'
    PROVE  Calm(o)' /\ RowMoves(o)
<1>0. /\ TypeOK /\ TypeOK' /\ Calm(o) /\ o \in Orders \ raced' /\ o \in Orders
      /\ WebWorkers \subseteq Workers /\ CeleryWorkers \subseteq Workers
      /\ \A w \in Workers : JobGrounded(job[w], seen)
      /\ order \in [Orders -> Row] /\ returned \in [Orders -> Nat] /\ crashes \in Nat
      /\ order[o] \in Row
  BY RacedGrows, NextTypeOK DEF SInv, GInv, Workers, JobsGrounded, TypeOK
<1>f. ASSUME NEW w \in Workers, Writes(job[w], o)
      PROVE  JobFresh(job[w], order[o])
  BY <1>0, <1>f DEF Calm, Writers
<1>n. ASSUME NEW w \in Workers, Writes(job[w], o), crashes = 0
      PROVE  returned[o] = IF Restored(job[w]) THEN 1 ELSE Units(order[o])
  BY <1>0, <1>n DEF Calm, Writers, Counted
<1>m. ASSUME order'[o] = order[o]
      PROVE  RowMoves(o)
  BY <1>m DEF RowMoves
<1>1. ASSUME NEW w \in WebWorkers, NEW x \in Orders, NEW role \in Roles, NEW new \in Status,
             PatchRead(w, x, role, new)
      PROVE  Calm(o)' /\ RowMoves(o)
  <2> DEFINE j == [at |-> IF new = "cancelled" THEN "restore" ELSE "save",
                   order |-> x, copy |-> order[x], new |-> new]
  <2>1. Begin(w, {x}, j) /\ order' = order
    BY <1>1 DEF PatchRead, Begin
  <2>2. ~Restored(j) /\ (Writes(j, o) => o \in {x} /\ JobFresh(j, order[o]))
    BY DEF Restored, Writes, JobFresh
  <2> HIDE DEF j
  <2> QED BY <1>0, <1>m, <2>1, <2>2, BegunCalm
<1>2. ASSUME NEW w \in WebWorkers, NEW x \in Orders, CancelRead(w, x)
      PROVE  Calm(o)' /\ RowMoves(o)
  <2> DEFINE j == [at |-> "cancel", order |-> x, copy |-> order[x]]
  <2>1. Begin(w, {x}, j) /\ order' = order
    BY <1>2 DEF CancelRead, Begin
  <2>2. ~Restored(j) /\ (Writes(j, o) => o \in {x} /\ JobFresh(j, order[o]))
    BY DEF Restored, Writes, JobFresh
  <2> HIDE DEF j
  <2> QED BY <1>0, <1>m, <2>1, <2>2, BegunCalm
<1>3. ASSUME NEW w \in WebWorkers, PatchRestore(w)
      PROVE  Calm(o)' /\ RowMoves(o)
  <2>w. w \in Workers
    BY <1>0
  <2>1. job[w] \in PatchJob /\ job[w].at = "restore"
    BY <1>0, <1>3, <2>w, JobKinds DEF PatchRestore
  <2> DEFINE j == [job[w] EXCEPT !.at = "save"]
  <2>2. /\ job' = [job EXCEPT ![w] = j] /\ order' = order /\ crashes' = crashes
        /\ returned' = [returned EXCEPT ![job[w].order] = @ + 1]
    BY <1>3 DEF PatchRestore
  <2>3. /\ j.at = "save" /\ j.copy = job[w].copy /\ j.order = job[w].order
        /\ j.new = job[w].new
    BY <2>1 DEF PatchJob
  <2> HIDE DEF j
  <2>4. CASE job[w].order # o
    <3>1. ~Writes(j, o) /\ ~Writes(job[w], o) /\ returned'[o] = returned[o]
      BY <1>0, <2>1, <2>2, <2>3, <2>4 DEF Writes
    <3> QED BY <1>0, <1>m, <2>w, <2>2, <3>1, StillCalm
  <2>5. CASE job[w].order = o
    <3>1. Writes(job[w], o) /\ Writes(j, o)
      BY <2>1, <2>3, <2>5 DEF Writes
    <3>2. JobFresh(job[w], order[o]) /\ <<job[w].copy.status, job[w].new>> \in Transition
      BY <1>0, <1>f, <2>w, <2>1, <3>1 DEF JobGrounded
    <3>3. JobFresh(j, order[o]) /\ Restored(j) /\ ~Restored(job[w]) /\ Units(order[o]) = 0
      BY <1>0, <2>1, <2>3, <3>2, NotCancelled DEF JobFresh, Restored
    <3>4. \A v \in Workers : job'[v] = IF v = w THEN j ELSE job[v]
      BY <1>0, <2>2 DEF TypeOK
    <3>5. Writers(o)' = {w}
      BY <1>0, <2>w, <3>1, <3>4 DEF Writers, Calm
    <3>6. crashes = 0 => returned'[o] = 1
      BY <1>0, <1>n, <2>w, <2>2, <2>5, <3>1, <3>3
    <3>7. crashes' = 0 => Counted(o)'
      BY <2>2, <2>w, <3>3, <3>4, <3>5, <3>6 DEF Counted
    <3> QED BY <1>m, <2>2, <2>w, <3>3, <3>4, <3>5, <3>7 DEF Calm
  <2> QED BY <2>4, <2>5
<1>4. ASSUME NEW w \in WebWorkers, PatchSave(w)
      PROVE  Calm(o)' /\ RowMoves(o)
  <2>w. w \in Workers
    BY <1>0
  <2>1. job[w] \in PatchJob /\ job[w].at = "save"
    BY <1>0, <1>4, <2>w, JobKinds DEF PatchSave
  <2> DEFINE j == [job[w] EXCEPT !.at = "enqueue"]
             r == Updated(job[w].copy, job[w].new)
  <2>2. /\ job' = [job EXCEPT ![w] = j] /\ order' = [order EXCEPT ![job[w].order] = r]
        /\ crashes' = crashes /\ returned' = returned
    BY <1>4 DEF PatchSave, Commit
  <2>3. ~Writes(j, o) /\ job[w].order \in Orders
    BY <2>1 DEF PatchJob, Writes
  <2>4. r \in Row /\ r.status = job[w].new /\ job[w].copy.stamps \subseteq r.stamps
    BY <2>1, UpdatedRow DEF PatchJob
  <2> HIDE DEF j, r
  <2>5. CASE job[w].order # o
    <3>1. ~Writes(job[w], o) /\ order'[o] = order[o]
      BY <1>0, <2>1, <2>2, <2>5 DEF Writes
    <3> QED BY <1>0, <1>m, <2>w, <2>2, <2>3, <3>1, StillCalm
  <2>6. CASE job[w].order = o
    <3>1. Writes(job[w], o) /\ order'[o] = r
      BY <1>0, <2>1, <2>2, <2>6 DEF Writes
    <3>2. job[w].copy = order[o] /\ <<order[o].status, job[w].new>> \in Transition
      BY <1>0, <1>f, <2>w, <2>1, <3>1 DEF JobGrounded, JobFresh
    <3>3. crashes = 0 => returned[o] = Units(r)
      BY <1>0, <1>n, <2>w, <2>1, <2>4, <3>1, <3>2, NotCancelled DEF Restored, Units
    <3>4. Calm(o)'
      BY <1>0, <2>w, <2>2, <2>3, <3>1, <3>3, WrittenCalm
    <3> QED BY <2>4, <3>1, <3>2, <3>4 DEF RowMoves
  <2> QED BY <2>5, <2>6
<1>5. ASSUME NEW w \in WebWorkers, PatchEnqueue(w)
      PROVE  Calm(o)' /\ RowMoves(o)
  <2>1. /\ job' = [job EXCEPT ![w] = Idle] /\ order' = order /\ returned' = returned
        /\ crashes' = crashes /\ job[w].at = "enqueue" /\ w \in Workers
    BY <1>0, <1>5 DEF PatchEnqueue
  <2>2. ~Writes(Idle, o) /\ ~Writes(job[w], o)
    BY <2>1 DEF Writes, Idle
  <2> QED BY <1>0, <1>m, <2>1, <2>2, StillCalm
<1>6. ASSUME NEW w \in WebWorkers, CancelSave(w)
      PROVE  Calm(o)' /\ RowMoves(o)
  <2>w. w \in Workers
    BY <1>0
  <2>1. job[w] \in CancelJob /\ job[w].at = "cancel"
    BY <1>0, <1>6, <2>w, JobKinds DEF CancelSave
  <2> DEFINE r == Updated(job[w].copy, "cancelled")
             j == [job[w] EXCEPT !.at = "cancel_mail", !.copy = r]
  <2>2. job' = [job EXCEPT ![w] = j] /\ UNCHANGED <<order, returned, crashes>>
    BY <1>6 DEF CancelSave
  <2>3. job[w].copy.stamps \subseteq r.stamps
    BY <2>1, UpdatedRow DEF CancelJob, Status
  <2> HIDE DEF r
  <2>4. j.at = "cancel_mail" /\ j.copy = r /\ j.order = job[w].order
    BY <2>1 DEF CancelJob
  <2> HIDE DEF j
  <2>5. Writes(j, o) <=> Writes(job[w], o)
    BY <2>1, <2>4 DEF Writes
  <2>6. ASSUME Writes(job[w], o)
        PROVE  JobFresh(j, order[o]) /\ (Restored(j) <=> Restored(job[w]))
    <3>1. job[w].copy = order[o] /\ <<job[w].copy.status, "cancelled">> \in Transition
      BY <1>0, <1>f, <2>w, <2>1, <2>6 DEF JobFresh, JobGrounded
    <3> QED BY <2>1, <2>3, <2>4, <3>1 DEF JobFresh, Restored
  <2> QED BY <1>0, <1>m, <2>w, <2>2, <2>5, <2>6, StillCalm
<1>7. ASSUME NEW w \in WebWorkers, CancelEnqueue(w)
      PROVE  Calm(o)' /\ RowMoves(o)
  <2>w. w \in Workers
    BY <1>0
  <2>1. job[w] \in CancelJob /\ job[w].at = "cancel_mail"
    BY <1>0, <1>7, <2>w, JobKinds DEF CancelEnqueue
  <2> DEFINE j == [job[w] EXCEPT !.at = "cancel_commit"]
  <2>2. job' = [job EXCEPT ![w] = j] /\ UNCHANGED <<order, returned, crashes>>
    BY <1>7 DEF CancelEnqueue
  <2>3. j.at = "cancel_commit" /\ j.copy = job[w].copy /\ j.order = job[w].order
    BY <2>1 DEF CancelJob
  <2> HIDE DEF j
  <2>4. Writes(j, o) <=> Writes(job[w], o)
    BY <2>1, <2>3 DEF Writes
  <2>5. ASSUME Writes(job[w], o)
        PROVE  JobFresh(j, order[o]) /\ (Restored(j) <=> Restored(job[w]))
    BY <1>f, <2>w, <2>1, <2>3, <2>5 DEF JobFresh, Restored
  <2> QED BY <1>0, <1>m, <2>w, <2>2, <2>4, <2>5, StillCalm
<1>8. ASSUME NEW w \in WebWorkers, CancelCommit(w)
      PROVE  Calm(o)' /\ RowMoves(o)
  <2>w. w \in Workers
    BY <1>0
  <2>1. job[w] \in CancelJob /\ job[w].at = "cancel_commit"
    BY <1>0, <1>8, <2>w, JobKinds DEF CancelCommit
  <2>2. /\ job' = [job EXCEPT ![w] = Idle]
        /\ order' = [order EXCEPT ![job[w].order] = job[w].copy]
        /\ returned' = [returned EXCEPT ![job[w].order] = @ + 1] /\ crashes' = crashes
    BY <1>8 DEF CancelCommit, Commit
  <2>3. ~Writes(Idle, o) /\ job[w].copy.status = "cancelled"
    BY <1>0, <2>w, <2>1 DEF Writes, Idle, JobGrounded
  <2>4. CASE job[w].order # o
    <3>1. ~Writes(job[w], o) /\ order'[o] = order[o] /\ returned'[o] = returned[o]
      BY <1>0, <2>1, <2>2, <2>4 DEF Writes
    <3> QED BY <1>0, <1>m, <2>w, <2>2, <2>3, <3>1, StillCalm
  <2>5. CASE job[w].order = o
    <3>1. /\ Writes(job[w], o) /\ order'[o] = job[w].copy
          /\ returned'[o] = returned[o] + 1
      BY <1>0, <2>1, <2>2, <2>5 DEF Writes
    <3>2. /\ <<order[o].status, "cancelled">> \in Transition
          /\ order[o].stamps \subseteq job[w].copy.stamps
      BY <1>f, <2>w, <2>1, <3>1 DEF JobFresh
    <3>3. crashes = 0 => returned[o] = 0
      BY <1>0, <1>n, <2>w, <2>1, <3>1, <3>2, NotCancelled DEF Restored
    <3>4. crashes' = 0 => returned'[o] = Units(order'[o])
      BY <2>2, <2>3, <3>1, <3>3 DEF Units
    <3>5. Calm(o)'
      BY <1>0, <2>w, <2>2, <2>3, <3>1, <3>4, WrittenCalm
    <3> QED BY <2>3, <3>1, <3>2, <3>5 DEF RowMoves
  <2> QED BY <2>4, <2>5
<1>9. ASSUME NEW c \in CeleryWorkers, SweepStart(c)
      PROVE  Calm(o)' /\ RowMoves(o)
  <2> DEFINE batch == {x \in Orders : Due(order[x])}
             j == IF batch = {} THEN Idle ELSE [at |-> "sweep", batch |-> batch]
  <2>1. Begin(c, batch, j) /\ order' = order
    BY <1>9 DEF SweepStart, Begin
  <2>2. \A x \in batch : order[x].status = "delivered"
    BY DEF Due
  <2> HIDE DEF batch
  <2>3. ~Restored(j) /\ (Writes(j, o) => o \in batch /\ JobFresh(j, order[o]))
    BY <2>2 DEF Restored, Writes, JobFresh, Idle
  <2> HIDE DEF j
  <2> QED BY <1>0, <1>m, <2>1, <2>3, BegunCalm
<1>10. ASSUME NEW c \in CeleryWorkers, NEW x \in Orders, SweepSave(c, x)
       PROVE  Calm(o)' /\ RowMoves(o)
  <2>w. c \in Workers
    BY <1>0
  <2>1. job[c] \in SweepJob /\ job[c].at = "sweep" /\ x \in job[c].batch
    BY <1>0, <1>10, <2>w, JobKinds DEF SweepSave, Completes
  <2> DEFINE r == [order[x] EXCEPT !.status = "completed", !.stamps = @ \cup {"completed"}]
             j == [at |-> "artisan", batch |-> job[c].batch \ {x}, order |-> x]
  <2>2. /\ job' = [job EXCEPT ![c] = j] /\ order' = [order EXCEPT ![x] = r]
        /\ UNCHANGED <<returned, crashes>>
    BY <1>10 DEF SweepSave, Completes, Commit
  <2>3. r \in Row /\ r.status = "completed" /\ order[x].stamps \subseteq r.stamps
    BY <1>0, SweptRow DEF Row
  <2> HIDE DEF r
  <2>4. CASE x # o
    <3>1. order'[o] = order[o] /\ (Writes(j, o) <=> Writes(job[c], o))
      BY <1>0, <2>1, <2>2, <2>4 DEF Writes
    <3>2. Writes(j, o) => JobFresh(j, order[o]) /\ (Restored(j) <=> Restored(job[c]))
      BY <1>f, <2>w, <2>1, <3>1 DEF JobFresh, Restored
    <3> HIDE DEF j
    <3> QED BY <1>0, <1>m, <2>w, <2>2, <3>1, <3>2, StillCalm
  <2>5. CASE x = o
    <3>1. Writes(job[c], o) /\ ~Writes(j, o) /\ order'[o] = r
      BY <1>0, <2>1, <2>2, <2>5 DEF Writes
    <3>2. order[o].status = "delivered"
      BY <1>f, <2>w, <2>1, <3>1 DEF JobFresh
    <3>3. crashes = 0 => returned[o] = Units(r)
      BY <1>n, <2>w, <2>1, <2>3, <3>1, <3>2 DEF Restored, Units
    <3>4. <<order[o].status, r.status>> \in Transition
      BY <2>3, <3>2 DEF Transition
    <3> HIDE DEF j
    <3>5. Calm(o)'
      BY <1>0, <2>w, <2>2, <3>1, <3>3, WrittenCalm
    <3> QED BY <2>3, <2>5, <3>1, <3>4, <3>5 DEF RowMoves
  <2> QED BY <2>4, <2>5
<1>11. ASSUME NEW c \in CeleryWorkers, CreditArtisan(c)
       PROVE  Calm(o)' /\ RowMoves(o)
  <2>w. c \in Workers
    BY <1>0
  <2>1. job[c] \in CreditJob /\ job[c].at = "artisan"
    BY <1>0, <1>11, <2>w, JobKinds DEF CreditArtisan
  <2> DEFINE j == [job[c] EXCEPT !.at = "customer"]
  <2>2. job' = [job EXCEPT ![c] = j] /\ UNCHANGED <<order, returned>>
    BY <1>11 DEF CreditArtisan
  <2>5. crashes' = 0 => crashes = 0
    BY <1>0, <1>11 DEF CreditArtisan, Credited
  <2>3. j.at = "customer" /\ j.batch = job[c].batch
    BY <2>1 DEF CreditJob
  <2> HIDE DEF j
  <2>4. /\ Writes(j, o) <=> Writes(job[c], o)
        /\ Writes(j, o) => JobFresh(j, order[o]) /\ (Restored(j) <=> Restored(job[c]))
    BY <1>f, <2>w, <2>1, <2>3 DEF Writes, JobFresh, Restored
  <2> QED BY <1>0, <1>m, <2>w, <2>2, <2>4, <2>5, StillCalm
<1>12. ASSUME NEW c \in CeleryWorkers, CreditCustomer(c)
       PROVE  Calm(o)' /\ RowMoves(o)
  <2>w. c \in Workers
    BY <1>0
  <2>1. job[c] \in CreditJob /\ job[c].at = "customer"
    BY <1>0, <1>12, <2>w, JobKinds DEF CreditCustomer
  <2> DEFINE j == IF job[c].batch = {} THEN Idle ELSE [at |-> "sweep", batch |-> job[c].batch]
  <2>2. job' = [job EXCEPT ![c] = j] /\ UNCHANGED <<order, returned>>
    BY <1>12 DEF CreditCustomer, NextOfBatch
  <2>5. crashes' = 0 => crashes = 0
    BY <1>0, <1>12 DEF CreditCustomer, Credited
  <2>3. Writes(j, o) <=> Writes(job[c], o)
    BY <2>1 DEF Writes, Idle
  <2>4. Writes(j, o) => JobFresh(j, order[o]) /\ (Restored(j) <=> Restored(job[c]))
    BY <1>f, <2>w, <2>1, <2>3 DEF Writes, JobFresh, Restored, Idle
  <2> HIDE DEF j
  <2> QED BY <1>0, <1>m, <2>w, <2>2, <2>3, <2>4, <2>5, StillCalm
<1>13. CASE Tick
  <2>1. /\ order'[o].status = order[o].status /\ order'[o].stamps = order[o].stamps
        /\ returned' = returned /\ crashes' = crashes
    BY <1>0, <1>13 DEF Tick, Row
  <2>2. \A v \in Workers : job[v] = Idle /\ job'[v] = Idle
    BY <1>13 DEF Tick
  <2>3. Writers(o) = {} /\ Writers(o)' = {}
    BY <2>2 DEF Writers, Writes, Idle
  <2> QED BY <1>0, <2>1, <2>3 DEF Calm, Counted, Units, RowMoves
<1>14. ASSUME NEW w \in Workers, Crash(w)
       PROVE  Calm(o)' /\ RowMoves(o)
  <2>1. /\ \A v \in Workers : job'[v] = IF v = w THEN Idle ELSE job[v]
        /\ order' = order /\ crashes' # 0
    BY <1>0, <1>14 DEF Crash, TypeOK
  <2>2. ~Writes(Idle, o)
    BY DEF Writes, Idle
  <2>3. Writers(o)' = Writers(o) \ {w}
    BY <2>1, <2>2 DEF Writers
  <2>4. \A v \in Writers(o) \ {w} : job'[v] = job[v]
    BY <2>1 DEF Writers
  <2> QED BY <1>0, <1>m, <2>1, <2>3, <2>4 DEF Calm
<1>15. CASE UNCHANGED vars
  <2>1. order' = order /\ job' = job /\ returned' = returned /\ crashes' = crashes
    BY <1>15 DEF vars
  <2>2. Writers(o)' = Writers(o)
    BY <2>1 DEF Writers
  <2> QED BY <1>0, <1>m, <2>1, <2>2 DEF Calm, Counted
<1> QED
  BY <1>1, <1>2, <1>3, <1>4, <1>5, <1>6, <1>7, <1>8, <1>9, <1>10, <1>11, <1>12, <1>13,
     <1>14, <1>15
  DEF Next, PatchStep, CancelStep, SweepStep

LEMMA InitSInv == Init => SInv
<1> SUFFICES ASSUME Init PROVE SInv
  OBVIOUS
<1>1. GInv
  BY InitGInv
<1>2. ASSUME NEW o \in Orders PROVE Calm(o)
  <2>1. Writers(o) = {}
    BY DEF Init, Writers, Writes, Idle
  <2>2. returned[o] = 0 /\ Units(order[o]) = 0
    BY DEF Init, Units, NewRow
  <2> QED BY <2>1, <2>2 DEF Calm, Counted
<1> QED BY <1>1, <1>2 DEF SInv

LEMMA NextSInv == SInv /\ [Next]_vars => SInv'
BY CalmStep, NextGInv DEF SInv

\* Until two processes are about to write an order at once, its status moves as
\* the table of validate_status says, whatever fails and whatever else runs.
THEOREM OrdersFollowFlow == Spec => FlowUnlessRaced
<1>1. SInv /\ [Next]_vars =>
          [\A o \in Orders \ raced' :
              order'[o].status # order[o].status =>
                  <<order[o].status, order'[o].status>> \in Transition]_vars
  BY CalmStep DEF RowMoves
<1> QED BY <1>1, InitSInv, NextSInv, PTL DEF Spec, FlowUnlessRaced

\* A step changes at most one row, a day at most the ages.
LEMMA OneRowMoves ==
    ASSUME TypeOK, [Next]_vars
    PROVE  \/ \A o \in Orders : order'[o].status = order[o].status
           \/ \E o : \A x \in Orders \ {o} : order'[x] = order[x]
<1>1. \/ order' = order
      \/ \E o, r : Commit(o, r)
      \/ Tick
  BY DEF Next, vars, PatchRead, CancelRead, SweepStart, Begin, PatchStep, PatchRestore, PatchSave,
     PatchEnqueue, CancelStep, CancelSave, CancelEnqueue, CancelCommit, SweepStep, SweepSave, Completes,
     CreditArtisan, CreditCustomer, NextOfBatch, Crash
<1>2. CASE order' = order
  BY <1>2
<1>3. CASE \E o, r : Commit(o, r)
  BY <1>3 DEF Commit, TypeOK
<1>4. CASE Tick
  BY <1>4 DEF Tick, TypeOK, Row
<1> QED BY <1>1, <1>2, <1>3, <1>4

\* A shop in which no two processes are ever about to write one order at once
\* implements OrderFlow, step by step: any number of requests and sweeps, killed
\* anywhere, may overlap as long as they are about different orders.
THEOREM CalmShopFollowsFlow == Spec /\ [](raced = {}) => FlowSpec
<1> DEFINE status == [o \in Orders |-> order[o].status]
<1>1. Init => Flow!Init
  BY DEF Init, NewRow, Flow!Init
<1>2. SInv /\ [Next]_vars /\ (raced = {})' => [Flow!Next]_status
  <2> SUFFICES ASSUME SInv, [Next]_vars, (raced = {})' PROVE [Flow!Next]_status
    OBVIOUS
  <2>1. TypeOK /\ TypeOK'
    BY NextTypeOK DEF SInv, GInv
  <2>2. \A o \in Orders : \/ order'[o].status = order[o].status
                          \/ <<order[o].status, order'[o].status>> \in Transition
    BY CalmStep DEF RowMoves
  <2>3. CASE \A o \in Orders : order'[o].status = order[o].status
    BY <2>3
  <2>4. CASE \E o \in Orders : order'[o].status # order[o].status
    <3>1. PICK o \in Orders : order'[o].status # order[o].status
      BY <2>4
    <3>2. \A x \in Orders \ {o} : order'[x] = order[x]
      BY <2>1, <3>1, OneRowMoves
    <3>3. PICK s \in Flow!Status : s = order'[o].status /\ <<status[o], s>> \in Flow!Transition
      BY <2>1, <2>2, <3>1 DEF TypeOK, Row, Status, Flow!Status, Transition, Flow!Transition
    <3>4. status' = [status EXCEPT ![o] = s]
      BY <3>2, <3>3
    <3> HIDE DEF status
    <3>5. Flow!Move(o, s)
      BY <3>3, <3>4 DEF Flow!Move, status
    <3>6. Flow!Next
      BY <3>3, <3>5 DEF Flow!Next
    <3> QED BY <3>6
  <2> QED BY <2>3, <2>4
<1> QED BY <1>1, <1>2, InitSInv, NextSInv, PTL DEF Spec, FlowSpec, Flow!Spec

\* Until two processes are about to write an order at once, no write loses one of
\* its time stamps.
THEOREM StampsAreKept == Spec => StampsKept
<1>1. SInv /\ [Next]_vars =>
          [\A o \in Orders \ raced' : order[o].stamps \subseteq order'[o].stamps]_vars
  BY CalmStep DEF RowMoves
<1> QED BY <1>1, InitSInv, NextSInv, PTL DEF Spec, StampsKept

\* Without a killed process, the units of an order that is not raced are put back
\* exactly when it is cancelled, through either endpoint.
THEOREM StockIsReturnedOnce == Spec => []StockReturnedOnce
<1>1. SInv => StockReturnedOnce
  BY DEF SInv, Calm, Counted, Units, StockReturnedOnce
<1> QED BY <1>1, InitSInv, NextSInv, PTL DEF Spec

-----------------------------------------------------------------------------
(* Time.  A copy and its row are of the same day, since no process is at     *)
(* work when a day passes; so an order that has been delivered for a day is  *)
(* never again written as delivered.                                         *)

Late == {"delivered", "completed", "refunded"}

RowDated(row) ==
    /\ "delivered" \in row.stamps => row.status \in Late
    /\ row.age >= 1 => "delivered" \in row.stamps

Old(o) == order[o].age >= 1

\* Delivered for a day and past the sweep's filter: it stays so.
Settled(o) == Old(o) /\ order[o].status # "delivered"

HoldsCopy(j) == j.at \in {"restore", "save", "cancel", "cancel_mail", "cancel_commit"}

CopyDated(j) ==
    HoldsCopy(j) => RowDated(j.copy) /\ (j.copy.age >= 1 <=> Old(j.order))

DInv ==
    /\ GInv
    /\ \A o \in Orders : RowDated(order[o])
    /\ \A w \in Workers : CopyDated(job[w])

\* What a step never takes back.
Lasts(o) ==
    /\ Old(o) => Old(o)'
    /\ Settled(o) => Settled(o)'
    /\ seen[o] \subseteq seen'[o]

DatedStep ==
    /\ \A o \in Orders : RowDated(order'[o]) /\ Lasts(o)
    /\ \A w \in Workers : CopyDated(job[w])'

LEMMA UpdatedDated ==
    ASSUME NEW row \in Row, NEW new \in Status, RowDated(row),
           <<row.status, new>> \in Transition
    PROVE  LET u == Updated(row, new)
           IN  RowDated(u) /\ (u.age >= 1 <=> row.age >= 1) /\ (row.age >= 1 => new # "delivered")
<1>1. "delivered" \in row.stamps => new \in Late \ {"delivered"}
  BY DEF RowDated, Late, Transition
<1>2. row.age >= 1 => new # "delivered" /\ "delivered" \in row.stamps
  BY <1>1 DEF RowDated
<1>3. CASE new = "delivered"
  <2>1. Updated(row, new).age = 0 /\ Updated(row, new).status \in Late
    BY <1>3 DEF Updated, Late
  <2> QED BY <1>2, <1>3, <2>1 DEF RowDated
<1>4. CASE new # "delivered"
  <2>1. /\ Updated(row, new).age = row.age
        /\ Updated(row, new).status = new
        /\ "delivered" \in Updated(row, new).stamps <=> "delivered" \in row.stamps
    BY <1>4 DEF Updated
  <2> QED BY <1>1, <1>2, <2>1 DEF RowDated
<1> QED BY <1>3, <1>4

\* A step that leaves the rows alone.
LEMMA DatedJob ==
    ASSUME DInv, NEW w \in Workers, NEW j, job' = [job EXCEPT ![w] = j],
           UNCHANGED <<order, seen>>, CopyDated(j)
    PROVE  DatedStep
<1>1. ASSUME NEW v \in Workers PROVE CopyDated(job[v])'
  <2>1. job'[v] = job[v] \/ job'[v] = j
    BY DEF DInv, GInv, TypeOK
  <2>2. CopyDated(job[v])
    BY DEF DInv
  <2> QED BY <2>1, <2>2 DEF CopyDated, Old, HoldsCopy
<1> QED BY <1>1 DEF DatedStep, DInv, Lasts, Old, Settled

\* A write that ends in a job without a copy.
LEMMA DatedCommit ==
    ASSUME DInv, NEW w \in Workers, NEW j, job' = [job EXCEPT ![w] = j], ~HoldsCopy(j),
           NEW o \in Orders, NEW r \in Row, Commit(o, r), RowDated(r),
           r.age >= 1 <=> Old(o), Settled(o) => r.status # "delivered"
    PROVE  DatedStep
<1>0. /\ order \in [Orders -> Row] /\ seen \in [Orders -> SUBSET Status]
      /\ job \in [Workers -> Job]
  BY DEF DInv, GInv, TypeOK
<1>1. ASSUME NEW x \in Orders
      PROVE  order'[x] = (IF x = o THEN r ELSE order[x]) /\ seen[x] \subseteq seen'[x]
  BY <1>0 DEF Commit
<1>2. ASSUME NEW x \in Orders PROVE Old(x)' <=> Old(x)
  BY <1>1 DEF Old
<1>3. ASSUME NEW x \in Orders PROVE RowDated(order'[x]) /\ Lasts(x)
  BY <1>1, <1>2 DEF DInv, Lasts, Settled
<1>4. ASSUME NEW v \in Workers PROVE CopyDated(job[v])'
  <2>1. CASE v = w
    BY <1>0, <2>1 DEF CopyDated, HoldsCopy
  <2>2. CASE v # w
    <3>1. job'[v] = job[v] /\ CopyDated(job[v])
      BY <1>0, <2>2 DEF DInv
    <3>2. HoldsCopy(job[v]) => job[v].order \in Orders
      BY JobKinds DEF HoldsCopy, DInv, GInv, PatchJob, CancelJob
    <3> QED BY <1>2, <3>1, <3>2 DEF CopyDated, HoldsCopy
  <2> QED BY <2>1, <2>2
<1> QED BY <1>3, <1>4 DEF DatedStep

LEMMA InitDInv == Init => DInv
BY InitGInv DEF Init, DInv, RowDated, CopyDated, HoldsCopy, NewRow, Idle

LEMMA NextDInv == DInv /\ [Next]_vars => DInv' /\ \A o \in Orders : Lasts(o)
<1> SUFFICES ASSUME DInv, [Next]_vars
             PROVE  DatedStep
  BY NextGInv DEF DInv, DatedStep
<1>0. /\ TypeOK /\ WebWorkers \subseteq Workers /\ CeleryWorkers \subseteq Workers
      /\ \A w \in Workers : JobGrounded(job[w], seen) /\ CopyDated(job[w])
      /\ \A o \in Orders : RowDated(order[o]) /\ order[o] \in Row
  BY DEF DInv, GInv, JobsGrounded, Workers, TypeOK
<1>1. ASSUME NEW w \in WebWorkers, NEW o \in Orders,
             \/ \E role \in Roles, new \in Status : PatchRead(w, o, role, new)
             \/ CancelRead(w, o)
      PROVE  DatedStep
  <2>1. ASSUME NEW role \in Roles, NEW new \in Status, PatchRead(w, o, role, new)
        PROVE  DatedStep
    <3> DEFINE j == [at |-> IF new = "cancelled" THEN "restore" ELSE "save",
                     order |-> o, copy |-> order[o], new |-> new]
    <3>1. CopyDated(j)
      BY <1>0 DEF CopyDated, Old
    <3>2. job' = [job EXCEPT ![w] = j] /\ UNCHANGED <<order, seen>>
      BY <2>1 DEF PatchRead, Begin
    <3> HIDE DEF j
    <3> QED BY <1>0, <3>1, <3>2, DatedJob
  <2>2. CASE CancelRead(w, o)
    <3> DEFINE j == [at |-> "cancel", order |-> o, copy |-> order[o]]
    <3>1. CopyDated(j)
      BY <1>0 DEF CopyDated, Old
    <3>2. job' = [job EXCEPT ![w] = j] /\ UNCHANGED <<order, seen>>
      BY <2>2 DEF CancelRead, Begin
    <3> HIDE DEF j
    <3> QED BY <1>0, <3>1, <3>2, DatedJob
  <2> QED BY <1>1, <2>1, <2>2
<1>2. ASSUME NEW w \in WebWorkers, PatchRestore(w) \/ PatchEnqueue(w)
      PROVE  DatedStep
  <2>1. job[w] \in PatchJob /\ CopyDated(job[w])
    BY <1>0, <1>2, JobKinds DEF PatchRestore, PatchEnqueue
  <2>2. CASE PatchRestore(w)
    <3>1. CopyDated([job[w] EXCEPT !.at = "save"])
      BY <2>1, <2>2 DEF PatchRestore, PatchJob, CopyDated, HoldsCopy
    <3>2. job' = [job EXCEPT ![w] = [job[w] EXCEPT !.at = "save"]] /\ UNCHANGED <<order, seen>>
      BY <2>2 DEF PatchRestore
    <3> QED BY <1>0, <3>1, <3>2, DatedJob
  <2>3. CASE PatchEnqueue(w)
    <3>1. CopyDated(Idle)
      BY DEF CopyDated, HoldsCopy, Idle
    <3> QED BY <1>0, <2>3, <3>1, DatedJob DEF PatchEnqueue
  <2> QED BY <1>2, <2>2, <2>3
<1>3. ASSUME NEW w \in WebWorkers, PatchSave(w)
      PROVE  DatedStep
  <2> DEFINE o == job[w].order
             r == Updated(job[w].copy, job[w].new)
             j == [job[w] EXCEPT !.at = "enqueue"]
  <2>1. job[w] \in PatchJob
    BY <1>0, <1>3, JobKinds DEF PatchSave
  <2>2. <<job[w].copy.status, job[w].new>> \in Transition
    BY <1>0, <1>3 DEF PatchSave, JobGrounded
  <2>3. RowDated(job[w].copy) /\ (job[w].copy.age >= 1 <=> Old(o))
    BY <1>0, <1>3 DEF PatchSave, CopyDated, HoldsCopy
  <2>4. /\ r \in Row /\ r.status = job[w].new /\ RowDated(r)
        /\ r.age >= 1 <=> job[w].copy.age >= 1
        /\ job[w].copy.age >= 1 => job[w].new # "delivered"
    BY <2>1, <2>2, <2>3, UpdatedRow, UpdatedDated DEF PatchJob
  <2>5. ~HoldsCopy(j) /\ o \in Orders
    BY <2>1 DEF HoldsCopy, PatchJob
  <2>6. job' = [job EXCEPT ![w] = j] /\ Commit(o, r)
    BY <1>3 DEF PatchSave
  <2>7. (r.age >= 1 <=> Old(o)) /\ (Settled(o) => r.status # "delivered")
    BY <2>3, <2>4 DEF Settled
  <2> HIDE DEF o, r, j
  <2> QED BY <1>0, <2>4, <2>5, <2>6, <2>7, DatedCommit
<1>4. ASSUME NEW w \in WebWorkers, CancelSave(w) \/ CancelEnqueue(w)
      PROVE  DatedStep
  <2>1. job[w] \in CancelJob /\ CopyDated(job[w]) /\ JobGrounded(job[w], seen)
    BY <1>0, <1>4, JobKinds DEF CancelSave, CancelEnqueue
  <2>2. CASE CancelSave(w)
    <3> DEFINE u == Updated(job[w].copy, "cancelled")
               j == [job[w] EXCEPT !.at = "cancel_mail", !.copy = u]
    <3>1. <<job[w].copy.status, "cancelled">> \in Transition /\ RowDated(job[w].copy)
          /\ (job[w].copy.age >= 1 <=> Old(job[w].order))
      BY <2>1, <2>2 DEF CancelSave, JobGrounded, CopyDated, HoldsCopy
    <3>2. RowDated(u) /\ (u.age >= 1 <=> Old(job[w].order))
      BY <2>1, <3>1, UpdatedDated DEF CancelJob, Status
    <3>3. j.copy = u /\ j.order = job[w].order
      BY <2>1 DEF CancelJob
    <3>4. CopyDated(j)
      BY <3>2, <3>3 DEF CopyDated
    <3>5. job' = [job EXCEPT ![w] = j] /\ UNCHANGED <<order, seen>>
      BY <2>2 DEF CancelSave
    <3> HIDE DEF j
    <3> QED BY <1>0, <3>4, <3>5, DatedJob
  <2>3. CASE CancelEnqueue(w)
    <3>1. CopyDated([job[w] EXCEPT !.at = "cancel_commit"])
      BY <2>1, <2>3 DEF CancelEnqueue, CancelJob, CopyDated, HoldsCopy
    <3>2. job' = [job EXCEPT ![w] = [job[w] EXCEPT !.at = "cancel_commit"]]
          /\ UNCHANGED <<order, seen>>
      BY <2>3 DEF CancelEnqueue
    <3> QED BY <1>0, <3>1, <3>2, DatedJob
  <2> QED BY <1>4, <2>2, <2>3
<1>5. ASSUME NEW w \in WebWorkers, CancelCommit(w)
      PROVE  DatedStep
  <2>1. job[w] \in CancelJob
    BY <1>0, <1>5, JobKinds DEF CancelCommit
  <2>2. job[w].copy.status = "cancelled"
    BY <1>0, <1>5 DEF CancelCommit, JobGrounded
  <2>3. RowDated(job[w].copy) /\ (job[w].copy.age >= 1 <=> Old(job[w].order))
    BY <1>0, <1>5 DEF CancelCommit, CopyDated, HoldsCopy
  <2>4. job' = [job EXCEPT ![w] = Idle] /\ Commit(job[w].order, job[w].copy)
    BY <1>5 DEF CancelCommit
  <2>5. ~HoldsCopy(Idle) /\ job[w].order \in Orders /\ job[w].copy \in Row
    BY <2>1 DEF HoldsCopy, Idle, CancelJob
  <2> QED BY <1>0, <2>2, <2>3, <2>4, <2>5, DatedCommit
<1>6. ASSUME NEW c \in CeleryWorkers, SweepStart(c) \/ CreditArtisan(c) \/ CreditCustomer(c)
      PROVE  DatedStep
  <2>1. PICK j : job' = [job EXCEPT ![c] = j] /\ ~HoldsCopy(j) /\ UNCHANGED <<order, seen>>
    <3>1. CASE SweepStart(c)
      <4> DEFINE batch == {o \in Orders : Due(order[o])}
                 j == IF batch = {} THEN Idle ELSE [at |-> "sweep", batch |-> batch]
      <4>1. ~HoldsCopy(j)
        BY DEF HoldsCopy, Idle
      <4>2. job' = [job EXCEPT ![c] = j] /\ UNCHANGED <<order, seen>>
        BY <3>1 DEF SweepStart, Begin
      <4> HIDE DEF j
      <4> QED BY <4>1, <4>2
    <3>2. CASE CreditArtisan(c)
      <4>1. job[c] \in CreditJob
        BY <1>0, <3>2, JobKinds DEF CreditArtisan
      <4>2. ~HoldsCopy([job[c] EXCEPT !.at = "customer"])
        BY <4>1 DEF HoldsCopy, CreditJob
      <4>3. job' = [job EXCEPT ![c] = [job[c] EXCEPT !.at = "customer"]]
            /\ UNCHANGED <<order, seen>>
        BY <3>2 DEF CreditArtisan
      <4> QED BY <4>2, <4>3
    <3>3. CASE CreditCustomer(c)
      BY <3>3 DEF CreditCustomer, NextOfBatch, HoldsCopy, Idle
    <3> QED BY <1>6, <3>1, <3>2, <3>3
  <2> QED BY <1>0, <2>1, DatedJob DEF CopyDated
<1>7. ASSUME NEW c \in CeleryWorkers, NEW o \in Orders, SweepSave(c, o)
      PROVE  DatedStep
  <2> DEFINE r == [order[o] EXCEPT !.status = "completed", !.stamps = @ \cup {"completed"}]
             j == [at |-> "artisan", batch |-> job[c].batch \ {o}, order |-> o]
  <2>1. r \in Row /\ r.status = "completed"
    BY <1>0 DEF Row, Status, Stamped
  <2>2. r.age = order[o].age /\ ("delivered" \in r.stamps <=> "delivered" \in order[o].stamps)
    BY <1>0 DEF Row
  <2>3. RowDated(r) /\ (r.age >= 1 <=> Old(o))
    BY <1>0, <2>1, <2>2 DEF RowDated, Old, Late
  <2>4. job' = [job EXCEPT ![c] = j] /\ Commit(o, r) /\ ~HoldsCopy(j)
    BY <1>7 DEF SweepSave, Completes, HoldsCopy
  <2> HIDE DEF r, j
  <2> QED BY <1>0, <2>1, <2>3, <2>4, DatedCommit
<1>8. ASSUME NEW w \in Workers, Crash(w)
      PROVE  DatedStep
  <2>1. CopyDated(Idle)
    BY DEF CopyDated, HoldsCopy, Idle
  <2> QED BY <1>0, <1>8, <2>1, DatedJob DEF Crash
<1>9. ASSUME Tick
      PROVE  DatedStep
  <2>1. \A v \in Workers : CopyDated(job[v])'
    BY <1>9 DEF Tick, CopyDated, HoldsCopy, Idle
  <2>2. ASSUME NEW x \in Orders PROVE RowDated(order'[x]) /\ Lasts(x)
    <3>1. /\ order'[x].status = order[x].status /\ order'[x].stamps = order[x].stamps
          /\ \/ order'[x].age = order[x].age
             \/ "delivered" \in order[x].stamps /\ order'[x].age = order[x].age + 1
          /\ order[x].age \in Nat
          /\ seen' = seen
      BY <1>0, <1>9, LifecycleAssumption DEF Tick, Row
    <3> QED BY <1>0, <3>1 DEF RowDated, Lasts, Old, Settled
  <2> QED BY <2>1, <2>2 DEF DatedStep
<1>10. ASSUME UNCHANGED vars
       PROVE  DatedStep
  BY <1>0, <1>10 DEF vars, DatedStep, CopyDated, Lasts, Old, Settled
<1> QED
  BY <1>1, <1>2, <1>3, <1>4, <1>5, <1>6, <1>7, <1>8, <1>9, <1>10
  DEF Next, PatchStep, CancelStep, SweepStep

-----------------------------------------------------------------------------
(* Counting.  One sweep at a time: the daily schedule starts it, and it ends *)
(* long before the next (CELERY_TASK_TIME_LIMIT is 30 minutes).              *)

OneSweep == \A c, d \in CeleryWorkers : c = d

Uncounted(o) == \A p \in Parties : credit[o][p] = 0

Sweeps(j) == j.at \in {"sweep", "artisan", "customer"}

\* What the sweep knows of the orders before it and of the one it counts.
Counting(w) ==
    LET j == job[w] IN
    /\ Sweeps(j) =>
          w \in CeleryWorkers /\ \A o \in j.batch : Old(o) /\ Uncounted(o)
    /\ j.at \in {"artisan", "customer"} =>
          /\ Settled(j.order) /\ j.order \notin j.batch
          /\ "completed" \in seen[j.order]
          /\ credit[j.order]["customer"] = 0
    /\ j.at = "artisan" => credit[j.order]["artisan"] = 0

CountedOnce(o) ==
    \A p \in Parties :
        credit[o][p] > 0 =>
            credit[o][p] = 1 /\ Settled(o) /\ "completed" \in seen[o] /\ o \in HasProfile

CInv ==
    /\ DInv
    /\ \A w \in Workers : Counting(w)
    /\ \A o \in Orders : CountedOnce(o)

CountedStep ==
    /\ \A w \in Workers : Counting(w)'
    /\ \A o \in Orders : CountedOnce(o)'

LEMMA InitCInv == Init => CInv
BY InitDInv DEF Init, CInv, Counting, CountedOnce, Sweeps, Idle

\* A step that counts nothing keeps what a sweep knows, and the counts.
LEMMA CountingStays ==
    ASSUME CInv, credit' = credit, \A o \in Orders : Lasts(o)
    PROVE  /\ \A w \in Workers : job'[w] = job[w] => Counting(w)'
           /\ \A o \in Orders : CountedOnce(o)'
<1>1. ASSUME NEW w \in Workers, job'[w] = job[w] PROVE Counting(w)'
  <2>1. Counting(w)
    BY DEF CInv
  <2>2. /\ Sweeps(job[w]) => job[w].batch \subseteq Orders
        /\ job[w].at \in {"artisan", "customer"} => job[w].order \in Orders
    BY JobKinds DEF CInv, DInv, GInv, Sweeps, SweepJob, CreditJob
  <2> QED BY <1>1, <2>1, <2>2 DEF Counting, Lasts, Uncounted, Sweeps
<1>2. ASSUME NEW o \in Orders PROVE CountedOnce(o)'
  BY <1>2 DEF CInv, CountedOnce, Lasts
<1> QED BY <1>1, <1>2

\* A step of a process that does not sweep afterwards.
LEMMA CountingJob ==
    ASSUME CInv, NEW w \in Workers, NEW j, job' = [job EXCEPT ![w] = j], ~Sweeps(j),
           credit' = credit, \A o \in Orders : Lasts(o)
    PROVE  CountedStep
<1>1. ASSUME NEW v \in Workers PROVE Counting(v)'
  <2>1. CASE v = w
    <3>1. job'[v] = j
      BY <2>1 DEF CInv, DInv, GInv, TypeOK
    <3> QED BY <3>1 DEF Counting, Sweeps
  <2>2. CASE v # w
    BY <2>2, CountingStays DEF CInv, DInv, GInv, TypeOK
  <2> QED BY <2>1, <2>2
<1> QED BY <1>1, CountingStays DEF CountedStep

\* A profile counts the order the only sweep is at.
LEMMA CountingCredit ==
    ASSUME OneSweep, CInv, NEW c \in CeleryWorkers, CreditArtisan(c) \/ CreditCustomer(c),
           \A o \in Orders : Lasts(o)
    PROVE  CountedStep
<1> DEFINE x == job[c].order
           p == job[c].at
<1>a. p \in {"artisan", "customer"} /\ Credited(x, p) /\ \A v \in Workers \ {c} : job'[v] = job[v]
  BY DEF CreditArtisan, CreditCustomer, NextOfBatch, CInv, DInv, GInv, TypeOK
<1>0. /\ c \in Workers /\ job[c] \in CreditJob /\ x \in Orders /\ p \in Parties
      /\ job[c].batch \subseteq Orders
      /\ credit \in [Orders -> [Parties -> Nat]]
      /\ job \in [Workers -> Job]
      /\ Counting(c) /\ CountedOnce(x)
  <2>1. job[c] \in CreditJob /\ c \in Workers
    BY <1>a, JobKinds DEF CInv, DInv, GInv, Workers
  <2> QED BY <1>a, <2>1 DEF CInv, DInv, GInv, TypeOK, CreditJob, Parties
<1>1. /\ Settled(x) /\ x \notin job[c].batch /\ "completed" \in seen[x]
      /\ credit[x][p] = 0 /\ credit[x]["customer"] = 0
      /\ \A o \in job[c].batch : Old(o) /\ Uncounted(o)
  BY <1>0, <1>a DEF Counting, Sweeps
<1>2. /\ \A o \in Orders \ {x} : credit'[o] = credit[o]
      /\ \A q \in Parties \ {p} : credit'[x][q] = credit[x][q]
      /\ credit'[x][p] \in {0, 1}
      /\ credit'[x][p] = 1 => x \in HasProfile
  BY <1>0, <1>1, <1>a DEF Credited
<1>b. \/ job'[c] = Idle
      \/ job'[c] = [at |-> "sweep", batch |-> job[c].batch]
      \/ p = "artisan" /\ job'[c] = [job[c] EXCEPT !.at = "customer"]
  BY <1>0 DEF CreditArtisan, CreditCustomer, NextOfBatch
<1> HIDE DEF p
<1>3. ASSUME NEW o \in Orders PROVE CountedOnce(o)'
  <2>1. CountedOnce(o) /\ Lasts(o)
    BY DEF CInv
  <2>2. CASE o # x
    BY <1>2, <2>1, <2>2 DEF CountedOnce, Lasts
  <2>3. CASE o = x
    <3>1. Settled(o)' /\ "completed" \in seen'[o]
      BY <1>1, <2>1, <2>3 DEF Lasts
    <3>2. ASSUME NEW q \in Parties, credit'[o][q] > 0
          PROVE  credit'[o][q] = 1 /\ o \in HasProfile
      BY <1>2, <2>1, <2>3, <3>2 DEF CountedOnce
    <3> QED BY <3>1, <3>2 DEF CountedOnce
  <2> QED BY <2>2, <2>3
<1>4. ASSUME NEW v \in Workers PROVE Counting(v)'
  <2>1. CASE v # c
    <3>1. job'[v] = job[v] /\ ~Sweeps(job[v])
      BY <1>a, <2>1 DEF CInv, Counting, OneSweep, Sweeps
    <3> QED BY <3>1 DEF Counting, Sweeps
  <2>2. CASE v = c
    <3>1. \A o \in job[c].batch : (Old(o) /\ Uncounted(o))'
      BY <1>0, <1>1, <1>2 DEF Lasts, Uncounted
    <3>2. CASE job'[c] = Idle
      BY <2>2, <3>2 DEF Counting, Sweeps, Idle
    <3>3. CASE job'[c] = [at |-> "sweep", batch |-> job[c].batch]
      BY <2>2, <3>1, <3>3 DEF Counting, Sweeps
    <3>4. CASE p = "artisan" /\ job'[c] = [job[c] EXCEPT !.at = "customer"]
      <4>1. job'[c].at = "customer" /\ job'[c].order = x /\ job'[c].batch = job[c].batch
        BY <1>0, <3>4 DEF CreditJob
      <4>2. Settled(x)' /\ "completed" \in seen'[x] /\ credit'[x]["customer"] = 0
        BY <1>0, <1>1, <1>2, <3>4 DEF Lasts, Parties
      <4> QED BY <1>1, <2>2, <3>1, <4>1, <4>2 DEF Counting, Sweeps
    <3> QED BY <1>b, <3>2, <3>3, <3>4
  <2> QED BY <2>1, <2>2
<1> QED BY <1>3, <1>4 DEF CountedStep

LEMMA NextCInv == OneSweep /\ CInv /\ [Next]_vars => CInv'
<1> SUFFICES ASSUME OneSweep, CInv, [Next]_vars
             PROVE  CountedStep
  BY NextDInv DEF CInv, CountedStep
<1>0. /\ DInv' /\ \A o \in Orders : Lasts(o)
      /\ TypeOK /\ WebWorkers \subseteq Workers /\ CeleryWorkers \subseteq Workers
  BY NextDInv DEF CInv, DInv, GInv, Workers
<1>1. ASSUME NEW w \in Workers, NEW j, job' = [job EXCEPT ![w] = j], ~Sweeps(j),
             credit' = credit
      PROVE  CountedStep
  BY <1>0, <1>1, CountingJob
<1>2. ASSUME NEW w \in WebWorkers, NEW o \in Orders,
             \/ \E role \in Roles, new \in Status : PatchRead(w, o, role, new)
             \/ CancelRead(w, o)
      PROVE  CountedStep
  <2>1. PICK j : job' = [job EXCEPT ![w] = j] /\ ~Sweeps(j) /\ credit' = credit
    BY <1>2 DEF PatchRead, CancelRead, Begin, Sweeps
  <2> QED BY <1>0, <1>1, <2>1
<1>3. ASSUME NEW w \in WebWorkers, PatchStep(w) \/ CancelStep(w)
      PROVE  CountedStep
  <2>1. /\ job[w].at \in {"restore", "save", "enqueue"} => job[w] \in PatchJob
        /\ job[w].at \in {"cancel", "cancel_mail", "cancel_commit"} => job[w] \in CancelJob
    BY <1>0, JobKinds
  <2>2. CASE PatchRestore(w)
    <3>1. ~Sweeps([job[w] EXCEPT !.at = "save"])
      BY <2>1, <2>2 DEF PatchRestore, PatchJob, Sweeps
    <3> QED BY <1>0, <1>1, <2>2, <3>1 DEF PatchRestore
  <2>3. CASE PatchSave(w)
    <3>1. ~Sweeps([job[w] EXCEPT !.at = "enqueue"])
      BY <2>1, <2>3 DEF PatchSave, PatchJob, Sweeps
    <3> QED BY <1>0, <1>1, <2>3, <3>1 DEF PatchSave
  <2>4. CASE PatchEnqueue(w) \/ CancelCommit(w)
    <3>1. ~Sweeps(Idle)
      BY DEF Sweeps, Idle
    <3> QED BY <1>0, <1>1, <2>4, <3>1 DEF PatchEnqueue, CancelCommit
  <2>5. CASE CancelSave(w)
    <3> DEFINE j == [job[w] EXCEPT !.at = "cancel_mail", !.copy = Updated(@, "cancelled")]
    <3>1. ~Sweeps(j)
      BY <2>1, <2>5 DEF CancelSave, CancelJob, Sweeps
    <3>2. job' = [job EXCEPT ![w] = j] /\ credit' = credit
      BY <2>5 DEF CancelSave
    <3> HIDE DEF j
    <3> QED BY <1>0, <1>1, <3>1, <3>2
  <2>6. CASE CancelEnqueue(w)
    <3>1. ~Sweeps([job[w] EXCEPT !.at = "cancel_commit"])
      BY <2>1, <2>6 DEF CancelEnqueue, CancelJob, Sweeps
    <3> QED BY <1>0, <1>1, <2>6, <3>1 DEF CancelEnqueue
  <2> QED BY <1>3, <2>2, <2>3, <2>4, <2>5, <2>6 DEF PatchStep, CancelStep
<1>4. ASSUME NEW c \in CeleryWorkers, SweepStart(c)
      PROVE  CountedStep
  <2> DEFINE batch == {o \in Orders : Due(order[o])}
  <2>1. job' = [job EXCEPT ![c] = IF batch = {} THEN Idle ELSE [at |-> "sweep", batch |-> batch]]
        /\ UNCHANGED <<order, credit>>
    BY <1>4 DEF SweepStart, Begin
  <2>2. ASSUME NEW o \in batch PROVE (Old(o) /\ Uncounted(o))'
    <3>1. Old(o) /\ ~Settled(o)
      BY LifecycleAssumption DEF Due, Old, Settled
    <3>2. CountedOnce(o) /\ \A p \in Parties : credit[o][p] \in Nat
      BY <1>0 DEF CInv, TypeOK
    <3>3. Uncounted(o)
      BY <3>1, <3>2 DEF CountedOnce, Uncounted
    <3> QED BY <2>1, <3>1, <3>3 DEF Old, Uncounted
  <2>3. CASE batch = {}
    <3>1. ~Sweeps(Idle) /\ job' = [job EXCEPT ![c] = Idle]
      BY <2>1, <2>3 DEF Sweeps, Idle
    <3> QED BY <1>0, <1>1, <2>1, <3>1
  <2>4. CASE batch # {}
    <3>1. job'[c] = [at |-> "sweep", batch |-> batch]
      BY <1>0, <2>1, <2>4 DEF TypeOK
    <3>2. Counting(c)'
      BY <2>2, <3>1 DEF Counting, Sweeps
    <3>3. \A v \in Workers \ {c} : job'[v] = job[v]
      BY <1>0, <2>1 DEF TypeOK
    <3> QED BY <1>0, <2>1, <3>2, <3>3, CountingStays DEF CountedStep
  <2> QED BY <2>3, <2>4
<1>5. ASSUME NEW c \in CeleryWorkers, NEW o \in Orders, SweepSave(c, o)
      PROVE  CountedStep
  <2>1. /\ job[c].at = "sweep" /\ o \in job[c].batch /\ credit' = credit
        /\ job' = [job EXCEPT ![c] = [at |-> "artisan", batch |-> job[c].batch \ {o}, order |-> o]]
        /\ order'[o].status = "completed" /\ "completed" \in seen'[o]
    <3> DEFINE r == [order[o] EXCEPT !.status = "completed", !.stamps = @ \cup {"completed"}]
    <3>1. /\ order \in [Orders -> Row] /\ seen \in [Orders -> SUBSET Status]
          /\ r.status = "completed"
      BY <1>0 DEF TypeOK, Row
    <3>2. Commit(o, r)
      BY <1>5 DEF SweepSave, Completes
    <3> HIDE DEF r
    <3>3. order'[o] = r /\ "completed" \in seen'[o]
      BY <3>1, <3>2 DEF Commit
    <3> QED BY <1>5, <3>1, <3>3 DEF SweepSave, Completes
  <2>2. job[c].batch \subseteq Orders /\ \A x \in job[c].batch : Old(x) /\ Uncounted(x)
    BY <1>0, <2>1, JobKinds DEF CInv, Counting, Sweeps, SweepJob
  <2>3. \A x \in job[c].batch : (Old(x) /\ Uncounted(x))'
    BY <1>0, <2>1, <2>2 DEF Lasts, Uncounted
  <2>4. Settled(o)'
    BY <2>1, <2>3 DEF Settled
  <2>5. job'[c] = [at |-> "artisan", batch |-> job[c].batch \ {o}, order |-> o]
    BY <1>0, <2>1 DEF TypeOK
  <2>6. Counting(c)'
    BY <2>1, <2>3, <2>4, <2>5 DEF Counting, Sweeps, Uncounted, Parties
  <2>7. \A v \in Workers \ {c} : job'[v] = job[v]
    BY <1>0, <2>1 DEF TypeOK
  <2> QED BY <1>0, <2>1, <2>6, <2>7, CountingStays DEF CountedStep
<1>6. ASSUME NEW c \in CeleryWorkers, CreditArtisan(c) \/ CreditCustomer(c)
      PROVE  CountedStep
  BY <1>0, <1>6, CountingCredit
<1>7. ASSUME NEW w \in Workers, Crash(w)
      PROVE  CountedStep
  <2>1. ~Sweeps(Idle)
    BY DEF Sweeps, Idle
  <2> QED BY <1>1, <1>7, <2>1 DEF Crash
<1>8. ASSUME Tick \/ UNCHANGED vars
      PROVE  CountedStep
  <2>1. job' = job /\ credit' = credit
    BY <1>8 DEF Tick, vars
  <2> QED BY <1>0, <2>1, CountingStays DEF CountedStep
<1> QED
  BY <1>2, <1>3, <1>4, <1>5, <1>6, <1>7, <1>8 DEF Next, SweepStep

\* With one sweep at a time, no profile counts an order twice, and none counts an
\* order that was not completed, whatever requests write beside the sweep and
\* wherever it is killed.
THEOREM SalesCountedOnce == ASSUME OneSweep PROVE Spec => []CreditedAtMostOnce
<1>1. CInv => CreditedAtMostOnce
  BY DEF CInv, CountedOnce, CreditedAtMostOnce
<1>2. CInv /\ [Next]_vars => CInv'
  BY NextCInv
<1> QED BY <1>1, <1>2, InitCInv, PTL DEF Spec

-----------------------------------------------------------------------------
(* Losses.  A step makes at most one order forgotten, and only a failure     *)
(* does: the order its process was counting.                                 *)

LInv == TypeOK /\ LossesAreFailures

\* Party p has not counted o, which the sweep completed, and nobody will.
Lost(o, p) ==
    /\ o \in swept \cap HasProfile /\ p \in Parties
    /\ credit[o][p] = 0 /\ \A w \in Workers : ~WillCredit(w, o, p)

\* Only what a process was to count can become lost.
LostStep(x) ==
    \A o \in Orders, p \in Parties : Lost(o, p)' /\ o # x => Lost(o, p)

LEMMA LostForgotten ==
    ASSUME TypeOK
    PROVE  Forgotten = {o \in Orders : \E p \in Parties : Lost(o, p)}
BY DEF Forgotten, Lost, TypeOK

\* One order more is forgotten at most.
LEMMA OneMoreForgotten ==
    ASSUME LInv, TypeOK', NEW x \in Orders, LostStep(x), crashes' = crashes + 1
    PROVE  LossesAreFailures'
<1>1. Forgotten' \subseteq Forgotten \cup {x}
  BY LostForgotten DEF LInv, Forgotten, Lost, LostStep, TypeOK
<1>2. IsFiniteSet(Forgotten) /\ Cardinality(Forgotten) \in Nat /\ Cardinality(Forgotten) <= crashes
  BY FS_CardinalityType DEF LInv, LossesAreFailures
<1>3. /\ IsFiniteSet(Forgotten \cup {x})
      /\ Cardinality(Forgotten \cup {x}) <= Cardinality(Forgotten) + 1
      /\ Cardinality(Forgotten \cup {x}) \in Nat
  BY <1>2, FS_AddElement, FS_CardinalityType
<1>4. IsFiniteSet(Forgotten') /\ Cardinality(Forgotten') <= Cardinality(Forgotten \cup {x})
  BY <1>1, <1>3, FS_Subset
<1>5. Cardinality(Forgotten') \in Nat /\ crashes \in Nat
  BY <1>4, FS_CardinalityType DEF LInv, TypeOK
<1> QED BY <1>2, <1>3, <1>4, <1>5 DEF LossesAreFailures

\* No order more is forgotten.
LEMMA NoMoreForgotten ==
    ASSUME LInv, TypeOK', \A o \in Orders, p \in Parties : Lost(o, p)' => Lost(o, p),
           crashes' = crashes \/ crashes' = crashes + 1
    PROVE  LossesAreFailures'
<1>1. Forgotten' \subseteq Forgotten
  BY DEF LInv, Forgotten, Lost, TypeOK
<1>2. IsFiniteSet(Forgotten) /\ Cardinality(Forgotten) \in Nat /\ Cardinality(Forgotten) <= crashes
  BY FS_CardinalityType DEF LInv, LossesAreFailures
<1>3. IsFiniteSet(Forgotten') /\ Cardinality(Forgotten') <= Cardinality(Forgotten)
  BY <1>1, <1>2, FS_Subset
<1>4. Cardinality(Forgotten') \in Nat /\ crashes \in Nat
  BY <1>3, FS_CardinalityType DEF LInv, TypeOK
<1> QED BY <1>2, <1>3, <1>4 DEF LossesAreFailures

\* A process with no order to count goes on.
LEMMA NothingLost ==
    ASSUME TypeOK, TypeOK', NEW w \in Workers, NEW j, job' = [job EXCEPT ![w] = j],
           job[w].at \notin Parties, UNCHANGED <<credit, swept>>
    PROVE  \A o \in Orders, p \in Parties : Lost(o, p)' => Lost(o, p)
<1> SUFFICES ASSUME NEW o \in Orders, NEW p \in Parties, Lost(o, p)'
             PROVE  Lost(o, p)
  OBVIOUS
<1>1. ASSUME NEW v \in Workers PROVE ~WillCredit(v, o, p)
  <2>1. CASE v = w
    BY <2>1 DEF WillCredit, Parties
  <2>2. CASE v # w
    <3>1. job'[v] = job[v]
      BY <2>2 DEF TypeOK
    <3>2. ~WillCredit(v, o, p)'
      BY DEF Lost
    <3> QED BY <3>1, <3>2 DEF WillCredit
  <2> QED BY <2>1, <2>2
<1> QED BY <1>1 DEF Lost

LEMMA NextLInv == LInv /\ [Next]_vars => LInv'
<1> SUFFICES ASSUME LInv, [Next]_vars
             PROVE  LossesAreFailures'
  BY NextTypeOK DEF LInv
<1>0. /\ TypeOK /\ TypeOK' /\ job \in [Workers -> Job]
      /\ WebWorkers \subseteq Workers /\ CeleryWorkers \subseteq Workers
  BY NextTypeOK DEF LInv, TypeOK, Workers
<1>1. ASSUME NEW w \in Workers, NEW j, job' = [job EXCEPT ![w] = j],
             job[w].at \notin Parties, UNCHANGED <<credit, swept>>,
             crashes' = crashes \/ crashes' = crashes + 1
      PROVE  LossesAreFailures'
  BY <1>0, <1>1, NothingLost, NoMoreForgotten
<1>2. ASSUME NEW w \in WebWorkers, NEW o \in Orders,
             \/ \E role \in Roles, new \in Status : PatchRead(w, o, role, new)
             \/ CancelRead(w, o)
      PROVE  LossesAreFailures'
  <2>1. PICK j : job' = [job EXCEPT ![w] = j] /\ job[w] = Idle
                 /\ UNCHANGED <<credit, swept, crashes>>
    BY <1>2 DEF PatchRead, CancelRead, Begin
  <2>2. job[w].at \notin Parties
    BY <2>1 DEF Idle, Parties
  <2> QED BY <1>0, <1>1, <2>1, <2>2
<1>3. ASSUME NEW w \in WebWorkers, PatchStep(w) \/ CancelStep(w)
      PROVE  LossesAreFailures'
  <2>1. PICK j : job' = [job EXCEPT ![w] = j] /\ job[w].at \notin Parties
                 /\ UNCHANGED <<credit, swept, crashes>>
    BY <1>3 DEF PatchStep, CancelStep, PatchRestore, PatchSave, PatchEnqueue, CancelSave,
                CancelEnqueue, CancelCommit, Parties
  <2> QED BY <1>0, <1>1, <2>1
<1>4. ASSUME NEW c \in CeleryWorkers, SweepStart(c)
      PROVE  LossesAreFailures'
  <2>1. PICK j : job' = [job EXCEPT ![c] = j] /\ job[c] = Idle
                 /\ UNCHANGED <<credit, swept, crashes>>
    BY <1>4 DEF SweepStart, Begin
  <2>2. job[c].at \notin Parties
    BY <2>1 DEF Idle, Parties
  <2> QED BY <1>0, <1>1, <2>1, <2>2
<1>5. ASSUME NEW c \in CeleryWorkers, NEW x \in Orders, SweepSave(c, x)
      PROVE  LossesAreFailures'
  <2>1. /\ job[c].at = "sweep" /\ UNCHANGED <<credit, crashes>> /\ swept' = swept \cup {x}
        /\ job' = [job EXCEPT ![c] = [at |-> "artisan", batch |-> job[c].batch \ {x}, order |-> x]]
    BY <1>5 DEF SweepSave, Completes
  <2>2. /\ c \in Workers /\ job'[c].at = "artisan" /\ job'[c].order = x
        /\ \A v \in Workers \ {c} : job'[v] = job[v]
    BY <1>0, <2>1
  <2>3. ASSUME NEW o \in Orders, NEW p \in Parties, Lost(o, p)'
        PROVE  Lost(o, p)
    <3>1. ~WillCredit(c, o, p)'
      BY <2>2, <2>3 DEF Lost
    <3>2. o # x
      BY <2>2, <3>1 DEF WillCredit
    <3>3. \A v \in Workers \ {c} : ~WillCredit(v, o, p)
      BY <2>2, <2>3 DEF Lost, WillCredit
    <3>4. ~WillCredit(c, o, p)
      BY <2>1 DEF WillCredit, Parties
    <3> QED BY <2>1, <2>3, <3>2, <3>3, <3>4 DEF Lost
  <2> QED BY <1>0, <2>1, <2>3, NoMoreForgotten
<1>6. ASSUME NEW w \in Workers, Crash(w), job[w].at \in Parties
      PROVE  LossesAreFailures'
  <2>1. job[w] \in CreditJob
    BY <1>0, <1>6, JobKinds DEF Parties
  <2>2. /\ UNCHANGED <<credit, swept>> /\ crashes' = crashes + 1
        /\ \A v \in Workers \ {w} : job'[v] = job[v]
    BY <1>0, <1>6 DEF Crash
  <2>3. LostStep(job[w].order)
    BY <2>2 DEF LostStep, Lost, WillCredit
  <2> QED BY <1>0, <2>1, <2>2, <2>3, OneMoreForgotten DEF CreditJob
<1>7. ASSUME NEW w \in Workers, Crash(w), job[w].at \notin Parties
      PROVE  LossesAreFailures'
  BY <1>0, <1>1, <1>7 DEF Crash
<1>8. ASSUME NEW c \in CeleryWorkers, CreditArtisan(c) \/ CreditCustomer(c)
      PROVE  LossesAreFailures'
  <2> DEFINE x == job[c].order
             q == job[c].at
  <2>1. /\ c \in Workers /\ q \in Parties /\ Credited(x, q) /\ swept' = swept
        /\ \A v \in Workers \ {c} : job'[v] = job[v]
    BY <1>0, <1>8 DEF CreditArtisan, CreditCustomer, NextOfBatch, Parties
  <2>2. job[c] \in CreditJob /\ x \in Orders
    BY <1>0, <2>1, JobKinds DEF CreditJob, Parties
  <2>3. credit \in [Orders -> [Parties -> Nat]]
    BY <1>0 DEF TypeOK
  <2>4. q = "artisan" => job'[c].at = "customer" /\ job'[c].order = x
    BY <1>0, <1>8, <2>2 DEF CreditArtisan, CreditCustomer, CreditJob
  <2>5. CASE crashes' = crashes
               /\ credit' = [credit EXCEPT ![x][q] = IF x \in HasProfile THEN @ + 1 ELSE @]
    <3>1. ASSUME NEW o \in Orders, NEW p \in Parties, Lost(o, p)'
          PROVE  Lost(o, p)
      <4>1. credit'[o][p] = 0 /\ o \in swept \cap HasProfile /\ ~WillCredit(c, o, p)'
        BY <2>1, <3>1 DEF Lost
      <4>2. ~(o = x /\ p = q)
        BY <2>3, <2>5, <4>1
      <4>3. credit[o][p] = 0
        BY <2>1, <2>2, <2>3, <2>5, <4>1, <4>2
      <4>4. ~WillCredit(c, o, p)
        BY <2>4, <4>1, <4>2 DEF WillCredit, Parties
      <4>5. \A v \in Workers \ {c} : ~WillCredit(v, o, p)
        BY <2>1, <3>1 DEF Lost, WillCredit
      <4> QED BY <4>1, <4>3, <4>4, <4>5 DEF Lost
    <3> QED BY <1>0, <2>5, <3>1, NoMoreForgotten
  <2>6. CASE crashes' = crashes + 1 /\ credit' = credit
    <3>1. LostStep(x)
      BY <2>1, <2>6 DEF LostStep, Lost, WillCredit
    <3> QED BY <1>0, <2>2, <2>6, <3>1, OneMoreForgotten
  <2> QED BY <2>1, <2>5, <2>6 DEF Credited
<1>9. ASSUME Tick \/ UNCHANGED vars
      PROVE  LossesAreFailures'
  <2>1. UNCHANGED <<job, credit, swept, crashes>>
    BY <1>9 DEF Tick, vars
  <2>2. Forgotten' = Forgotten
    BY <2>1 DEF Forgotten, WillCredit
  <2> QED BY <2>1, <2>2 DEF LInv, LossesAreFailures
<1> QED
  BY <1>2, <1>3, <1>4, <1>5, <1>6, <1>7, <1>8, <1>9 DEF Next, SweepStep

\* However many orders a sweep has before it and whatever requests write beside
\* it, every kill or dropped exception costs the profiles the count of one
\* completed order at most, and nothing else does.
THEOREM FailuresLoseOneOrderEach == Spec => []LossesAreFailures
<1>1. Init => LInv
  <2> SUFFICES ASSUME Init PROVE LossesAreFailures
    BY InitTypeOK DEF LInv
  <2>1. Forgotten = {}
    BY DEF Init, Forgotten
  <2>2. IsFiniteSet({}) /\ Cardinality({}) = 0
    BY FS_EmptySet
  <2> QED BY <2>1, <2>2 DEF Init, LossesAreFailures
<1>2. LInv => LossesAreFailures
  BY DEF LInv
<1> QED BY <1>1, <1>2, NextLInv, PTL DEF Spec

=============================================================================
