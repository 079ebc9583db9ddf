-------------------------- MODULE ProductPageProofs --------------------------
(***************************************************************************)
(* What is proved of ProductPage for every set of favorites, images and    *)
(* processes.  Each property rests on the same fact: a request that is not *)
(* marked as overlapped is alone with the thing it works on.               *)
(***************************************************************************)
EXTENDS ProductPage, FiniteSetTheorems, TLAPS

\* The label of a process tells which record it holds.
LEMMA JobKinds ==
    ASSUME TypeOK, NEW w \in WebWorkers
    PROVE  /\ job[w].at \in {"insert", "again", "add", "delete"} => job[w] \in SaveJob
           /\ job[w].at \in {"demote", "image"} => job[w] \in ImageJob
           /\ job[w].at \in {"view", "edit"} => job[w] \in ViewJob
           /\ job[w] # Idle => job[w].at # "idle"
BY DEF TypeOK, Job, Idle, SaveJob, ImageJob, ViewJob

LEMMA BeginTypeOK ==
    ASSUME TypeOK, NEW w \in WebWorkers, NEW j \in Job, Begin(w, j)
    PROVE  TypeOK'
<1>1. job' \in [WebWorkers -> Job] /\ overlapped' \subseteq WebWorkers
  BY DEF TypeOK, Begin
<1> QED BY <1>1 DEF TypeOK, Begin

\* The request of w ends and writes well-typed values, or goes on with job j.
LEMMA StepTypeOK ==
    ASSUME TypeOK, NEW w \in WebWorkers, NEW j \in Job,
           job' = [job EXCEPT ![w] = j], UNCHANGED overlapped
    PROVE  job' \in [WebWorkers -> Job] /\ overlapped' \subseteq WebWorkers
BY DEF TypeOK

LEMMA StartTypeOK ==
    ASSUME TypeOK, NEW w \in WebWorkers, Start(w)
    PROVE  /\ TypeOK'
           /\ \E j \in Job \ {Idle} : Begin(w, j)
<1>1. SUFFICES \E j \in Job \ {Idle} : Begin(w, j)
  BY BeginTypeOK
<1>2. ASSUME NEW x \in Favorites, Remove(w, x) PROVE \E j \in Job \ {Idle} : Begin(w, j)
  <2>1. [at |-> "delete", on |-> x, id |-> saved[x]] \in Job \ {Idle}
    BY <1>2 DEF Remove, TypeOK, Job, SaveJob, Idle
  <2> QED BY <1>2, <2>1 DEF Remove
<1>3. ASSUME NEW x \in Favorites, NEW i \in RowIds, Toggle(w, x, i) \/ Add(w, x, i)
      PROVE  \E j \in Job \ {Idle} : Begin(w, j)
  <2>1. \A at \in {"insert", "add", "delete"} :
            [at |-> at, on |-> x, id |-> i] \in Job \ {Idle}
    BY DEF Job, SaveJob, Idle
  <2> QED BY <1>3, <2>1 DEF Toggle, Add
<1>4. ASSUME NEW i \in ImageIds, NEW primary \in BOOLEAN, Upload(w, i, primary)
      PROVE  \E j \in Job \ {Idle} : Begin(w, j)
  <2>1. /\ [at |-> "demote", on |-> "primary", id |-> i] \in Job \ {Idle}
        /\ [at |-> "image", on |-> "none", id |-> i] \in Job \ {Idle}
    BY DEF Job, ImageJob, Idle
  <2> QED BY <1>4, <2>1 DEF Upload
<1>5. ASSUME NEW at \in {"view", "edit"}, LoadProduct(w, at)
      PROVE  \E j \in Job \ {Idle} : Begin(w, j)
  <2>1. [at |-> at, on |-> "views", count |-> view_count] \in Job \ {Idle}
    BY DEF TypeOK, Job, ViewJob, Idle
  <2> QED BY <1>5, <2>1 DEF LoadProduct
<1> QED BY <1>2, <1>3, <1>4, <1>5 DEF Start

\* What a step of a request does with the request itself: it goes on, with the
\* same thing, or ends.
GoesOn(w) ==
    \E j \in Job :
        /\ j.at \in {"again", "delete", "image"}
        /\ j.on = job[w].on
        /\ job' = [job EXCEPT ![w] = j]

Ends(w) == job' = [job EXCEPT ![w] = Idle]

LEMMA JobSteps ==
    ASSUME TypeOK, NEW w \in WebWorkers, Continue(w) \/ Crash(w)
    PROVE  /\ job[w] # Idle
           /\ GoesOn(w) \/ Ends(w)
           /\ UNCHANGED overlapped
<1>1. CASE InsertRow(w)
  <2>1. job[w] \in SaveJob /\ job[w] # Idle
    BY <1>1, JobKinds DEF InsertRow, Idle, SaveJob
  <2>2. CASE End(w)
    BY <2>1, <2>2 DEF End, Ends
  <2>3. CASE job' = [job EXCEPT ![w].at = "again"] /\ UNCHANGED overlapped
    <3> DEFINE j == [job[w] EXCEPT !.at = "again"]
    <3>1. j \in Job /\ j.at = "again" /\ j.on = job[w].on
      BY <2>1 DEF Job, SaveJob
    <3>2. job' = [job EXCEPT ![w] = j]
      BY <2>3
    <3> HIDE DEF j
    <3> QED BY <2>1, <2>3, <3>1, <3>2 DEF GoesOn
  <2> QED BY <1>1, <2>2, <2>3 DEF InsertRow, Answered, Raise
<1>2. CASE GetAgain(w)
  <2>1. job[w] \in SaveJob /\ job[w] # Idle
    BY <1>2, JobKinds DEF GetAgain, Idle, SaveJob
  <2>2. CASE saved[job[w].on] = NoRow
    BY <1>2, <2>1, <2>2 DEF GetAgain, Raise, End, Ends
  <2>3. CASE saved[job[w].on] # NoRow
    <3> DEFINE j == [job[w] EXCEPT !.at = "delete", !.id = saved[job[w].on]]
    <3>1. saved[job[w].on] \in RowIds
      BY <2>1, <2>3 DEF SaveJob, TypeOK
    <3>2. j \in Job /\ j.at = "delete" /\ j.on = job[w].on
      BY <2>1, <3>1 DEF Job, SaveJob
    <3>3. job' = [job EXCEPT ![w] = j] /\ UNCHANGED overlapped
      BY <1>2, <2>3 DEF GetAgain
    <3> HIDE DEF j
    <3> QED BY <2>1, <3>2, <3>3 DEF GoesOn
  <2> QED BY <2>2, <2>3
<1>3. CASE DeleteRow(w)
  BY <1>3 DEF DeleteRow, Answered, End, Ends, Idle
<1>4. CASE Demote(w)
  <2> DEFINE j == [job[w] EXCEPT !.at = "image"]
  <2>1. job[w] \in ImageJob /\ job[w] # Idle
    BY <1>4, JobKinds DEF Demote, Idle, ImageJob
  <2>2. j \in Job /\ j.at = "image" /\ j.on = job[w].on
    BY <2>1 DEF Job, ImageJob
  <2>3. job' = [job EXCEPT ![w] = j] /\ UNCHANGED overlapped
    BY <1>4 DEF Demote
  <2> HIDE DEF j
  <2> QED BY <2>1, <2>2, <2>3 DEF GoesOn
<1>5. CASE InsertImage(w)
  BY <1>5 DEF InsertImage, End, Ends, Idle
<1>6. CASE CountView(w) \/ SaveForm(w)
  BY <1>6 DEF CountView, SaveForm, StoreCount, End, Ends, Idle
<1>7. CASE Crash(w)
  BY <1>7 DEF Crash, End, Ends
<1> QED BY <1>1, <1>2, <1>3, <1>4, <1>5, <1>6, <1>7 DEF Continue

LEMMA StepsKeepJobs ==
    ASSUME TypeOK, NEW w \in WebWorkers, Continue(w) \/ Crash(w)
    PROVE  job' \in [WebWorkers -> Job] /\ overlapped' \subseteq WebWorkers
<1>1. Idle \in Job
  BY DEF Job
<1> QED BY <1>1, JobSteps, StepTypeOK DEF GoesOn, Ends

LEMMA NextTypeOK == TypeOK /\ [Next]_vars => TypeOK'
<1> SUFFICES ASSUME TypeOK, [Next]_vars PROVE TypeOK'
  OBVIOUS
<1>1. ASSUME NEW w \in WebWorkers, Continue(w) PROVE TypeOK'
  <2>1. job' \in [WebWorkers -> Job] /\ overlapped' \subseteq WebWorkers
    BY <1>1, StepsKeepJobs
  <2>2. ASSUME NEW thing \in Things, Doubt(w, thing) PROVE doubtful' \subseteq Things
    BY <2>2 DEF Doubt, TypeOK
  <2>3. CASE InsertRow(w)
    <3>1. job[w] \in SaveJob /\ job[w].on \in Things
      BY <2>3, JobKinds DEF InsertRow, SaveJob, Things
    <3> QED BY <2>1, <2>2, <2>3, <3>1 DEF InsertRow, Answered, Raise, TypeOK, SaveJob
  <2>4. CASE GetAgain(w)
    BY <2>1, <2>4 DEF GetAgain, Raise, TypeOK
  <2>5. CASE DeleteRow(w)
    <3>1. job[w] \in SaveJob /\ job[w].on \in Things
      BY <2>5, JobKinds DEF DeleteRow, SaveJob, Things
    <3> QED BY <2>1, <2>2, <2>5, <3>1 DEF DeleteRow, Answered, TypeOK, SaveJob
  <2>6. CASE Demote(w)
    BY <2>1, <2>6 DEF Demote, TypeOK
  <2>7. CASE InsertImage(w)
    <3>1. job[w] \in ImageJob /\ "primary" \in Things
      BY <2>7, JobKinds DEF InsertImage, Things
    <3> QED BY <2>1, <2>2, <2>7, <3>1 DEF InsertImage, TypeOK, ImageJob
  <2>8. CASE CountView(w) \/ SaveForm(w)
    <3>1. job[w] \in ViewJob /\ "views" \in Things
      BY <2>8, JobKinds DEF CountView, SaveForm, Things
    <3>2. views' \in 0 .. MaxViews /\ view_count' \in Nat
      BY <2>8, <3>1, PageAssumption DEF CountView, SaveForm, StoreCount, TypeOK, ViewJob
    <3>3. doubtful' \subseteq Things /\ UNCHANGED <<saved, images, answer>>
      BY <2>8, <3>1 DEF CountView, SaveForm, StoreCount, TypeOK
    <3> QED BY <2>1, <3>2, <3>3 DEF TypeOK
  <2> QED BY <1>1, <2>3, <2>4, <2>5, <2>6, <2>7, <2>8 DEF Continue
<1>2. ASSUME NEW w \in WebWorkers, Crash(w) PROVE TypeOK'
  BY <1>2, StepsKeepJobs DEF Crash, TypeOK
<1>3. ASSUME NEW i \in ImageIds, DeleteImage(i) PROVE TypeOK'
  BY <1>3 DEF DeleteImage, TypeOK
<1>4. CASE UNCHANGED vars
  BY <1>4 DEF vars, TypeOK
<1> QED BY <1>1, <1>2, <1>3, <1>4, StartTypeOK DEF Next

LEMMA InitTypeOK == Init => TypeOK
BY PageAssumption DEF Init, TypeOK, Job

\* Every reachable state is well typed, for any favorites, images and processes.
THEOREM TypeCorrect == Spec => []TypeOK
BY InitTypeOK, NextTypeOK, PTL DEF Spec

-----------------------------------------------------------------------------
(* Requests that are not marked as overlapped are alone.                     *)

Alone ==
    \A v, w \in WebWorkers : \A thing \in Things :
        v # w /\ On(v, thing) /\ On(w, thing) => v \in overlapped /\ w \in overlapped

LEMMA BeginAlone ==
    ASSUME TypeOK, Alone, NEW w \in WebWorkers, NEW j \in Job \ {Idle}, Begin(w, j)
    PROVE  Alone'
<1> DEFINE rivals == {v \in WebWorkers : j.on \in Things /\ On(v, j.on)}
<1>1. SUFFICES ASSUME NEW u \in WebWorkers, NEW v \in WebWorkers, NEW thing \in Things,
                      u # v, On(u, thing)', On(v, thing)'
               PROVE  u \in overlapped' /\ v \in overlapped'
  BY DEF Alone
<1>2. /\ job' = [job EXCEPT ![w] = j] /\ job[w] = Idle
      /\ overlapped' = IF rivals = {} THEN overlapped \ {w} ELSE overlapped \cup rivals \cup {w}
  BY DEF Begin
<1>3. CASE u # w /\ v # w
  <2>1. On(u, thing) /\ On(v, thing)
    BY <1>1, <1>2, <1>3 DEF On, TypeOK
  <2> QED BY <1>1, <1>2, <1>3, <2>1 DEF Alone
<1>4. ASSUME NEW x \in WebWorkers, x # w, On(x, thing)', On(w, thing)'
      PROVE  x \in overlapped' /\ w \in overlapped'
  <2>1. On(x, thing) /\ thing = j.on
    BY <1>2, <1>4 DEF On, TypeOK
  <2>2. x \in rivals
    BY <2>1
  <2> QED BY <1>2, <2>2
<1> QED BY <1>1, <1>3, <1>4

LEMMA NextAlone == TypeOK /\ Alone /\ [Next]_vars => Alone'
<1> SUFFICES ASSUME TypeOK, Alone, [Next]_vars PROVE Alone'
  OBVIOUS
<1>1. ASSUME NEW w \in WebWorkers, Start(w) PROVE Alone'
  BY <1>1, StartTypeOK, BeginAlone
<1>2. ASSUME NEW w \in WebWorkers, Continue(w) \/ Crash(w) PROVE Alone'
  <2>1. job[w] # Idle /\ UNCHANGED overlapped /\ (GoesOn(w) \/ Ends(w))
    BY <1>2, JobSteps
  <2>2. ASSUME NEW v \in WebWorkers, NEW thing \in Things, On(v, thing)'
        PROVE  On(v, thing)
    BY <2>1, <2>2 DEF On, GoesOn, Ends, TypeOK
  <2> QED BY <2>1, <2>2 DEF Alone
<1>3. ASSUME NEW i \in ImageIds, DeleteImage(i) PROVE Alone'
  BY <1>3 DEF DeleteImage, Alone, On
<1>4. CASE UNCHANGED vars
  BY <1>4 DEF vars, Alone, On
<1> QED BY <1>1, <1>2, <1>3, <1>4 DEF Next

LEMMA InitAlone == Init => Alone
BY DEF Init, Alone, On

\* Another request that is not overlapped works on something else than w.
LEMMA Elsewhere ==
    ASSUME TypeOK, Alone, NEW w \in WebWorkers, NEW v \in WebWorkers \ overlapped,
           v # w, job[w] # Idle, job[v] # Idle, job[v].on \in Things
    PROVE  job[v].on # job[w].on
BY DEF Alone, On

-----------------------------------------------------------------------------
(* Favorites                                                                 *)

\* A request that is not overlapped still finds the row it found.
KnowsRow(w) ==
    /\ job[w].at = "delete" => saved[job[w].on] = job[w].id
    /\ job[w].at \in {"insert", "add"} => saved[job[w].on] = NoRow
    /\ job[w].at # "again"

RowKnown == \A w \in WebWorkers \ overlapped : KnowsRow(w)

SaveInv == RowKnown /\ AnswerStands

LEMMA NextSaveInv == TypeOK /\ Alone /\ SaveInv /\ [Next]_vars => SaveInv'
<1> SUFFICES ASSUME TypeOK, Alone, SaveInv, [Next]_vars PROVE SaveInv'
  OBVIOUS
<1> USE DEF SaveInv
<1>1. ASSUME NEW w \in WebWorkers, Start(w) PROVE SaveInv'
  <2>1. UNCHANGED <<saved, answer, doubtful>>
    BY <1>1, StartTypeOK DEF Begin
  <2>2. ASSUME NEW j, Begin(w, j),
               j.at = "delete" => saved[j.on] = j.id,
               j.at \in {"insert", "add"} => saved[j.on] = NoRow,
               j.at # "again"
        PROVE  RowKnown'
    BY <2>1, <2>2 DEF Begin, RowKnown, KnowsRow, TypeOK
  <2>3. RowKnown'
    <3>1. ASSUME NEW x \in Favorites, Remove(w, x) PROVE RowKnown'
      BY <2>2, <3>1 DEF Remove
    <3>2. ASSUME NEW x \in Favorites, NEW i \in RowIds, Toggle(w, x, i) \/ Add(w, x, i)
          PROVE  RowKnown'
      BY <2>2, <3>2 DEF Toggle, Add
    <3>3. ASSUME NEW i \in ImageIds, NEW primary \in BOOLEAN, Upload(w, i, primary)
          PROVE  RowKnown'
      BY <2>2, <3>3 DEF Upload
    <3>4. ASSUME NEW at \in {"view", "edit"}, LoadProduct(w, at) PROVE RowKnown'
      BY <2>2, <3>4 DEF LoadProduct
    <3> QED BY <1>1, <3>1, <3>2, <3>3, <3>4 DEF Start
  <2> QED BY <2>1, <2>3 DEF AnswerStands
<1>2. ASSUME NEW w \in WebWorkers, Continue(w) \/ Crash(w),
             \A x \in Favorites : saved'[x] # saved[x] => x = job[w].on,
             w \notin overlapped => Ends(w) \/ job'[w].at \notin {"insert", "add", "delete", "again"}
      PROVE  RowKnown'
  <2>1. /\ job[w] # Idle /\ UNCHANGED overlapped
        /\ \A v \in WebWorkers \ {w} : job'[v] = job[v]
    BY <1>2, JobSteps DEF GoesOn, Ends, TypeOK
  <2>2. ASSUME NEW v \in WebWorkers \ overlapped, v # w,
               job[v].at \in {"insert", "add", "delete"}
        PROVE  saved'[job[v].on] = saved[job[v].on]
    <3>1. job[v] \in SaveJob /\ job[v] # Idle
      BY <2>2, JobKinds DEF Idle
    <3>2. job[v].on \in Favorites /\ job[v].on \in Things
      BY <3>1 DEF SaveJob, Things
    <3> QED BY <1>2, <2>1, <2>2, <3>1, <3>2, Elsewhere
  <2>3. ASSUME NEW v \in WebWorkers \ overlapped, v # w PROVE KnowsRow(v)'
    BY <2>1, <2>2, <2>3 DEF RowKnown, KnowsRow
  <2>4. w \notin overlapped => KnowsRow(w)'
    BY <1>2 DEF KnowsRow, Ends, Idle, TypeOK
  <2> QED BY <2>1, <2>3, <2>4 DEF RowKnown, KnowsRow
<1>3. ASSUME NEW w \in WebWorkers, NEW added \in BOOLEAN,
             job[w].on \in Favorites, Answered(w, job[w].on, added),
             \A x \in Favorites : saved'[x] # saved[x] => x = job[w].on,
             w \notin overlapped => (saved'[job[w].on] # NoRow <=> added)
      PROVE  AnswerStands'
  <2>1. /\ answer' = [answer EXCEPT ![job[w].on] = added]
        /\ doubtful' = IF w \in overlapped THEN doubtful \cup {job[w].on} ELSE doubtful \ {job[w].on}
    BY <1>3 DEF Answered, Doubt
  <2> QED BY <1>3, <2>1 DEF AnswerStands, TypeOK
<1>4. ASSUME NEW w \in WebWorkers, Continue(w) PROVE SaveInv'
  <2>1. CASE InsertRow(w)
    <3>1. job[w] \in SaveJob
      BY <2>1, JobKinds DEF InsertRow
    <3>2. job[w].id # NoRow /\ job[w].on \in Favorites
      BY <3>1, PageAssumption DEF SaveJob
    <3>3. CASE saved[job[w].on] = NoRow
      <4>1. saved' = [saved EXCEPT ![job[w].on] = job[w].id] /\ Answered(w, job[w].on, TRUE)
        BY <2>1, <3>3 DEF InsertRow
      <4>2. Ends(w)
        BY <4>1 DEF Answered, End, Ends
      <4>3. saved'[job[w].on] # NoRow /\ \A x \in Favorites : saved'[x] # saved[x] => x = job[w].on
        BY <3>2, <4>1 DEF TypeOK
      <4>4. AnswerStands'
        BY <1>3, <3>2, <4>1, <4>3
      <4> QED BY <1>2, <1>4, <4>2, <4>3, <4>4
    <3>4. CASE saved[job[w].on] # NoRow
      <4>1. w \in overlapped /\ UNCHANGED <<saved, answer, doubtful>>
        BY <2>1, <3>4 DEF InsertRow, Raise, RowKnown, KnowsRow
      <4> QED BY <1>2, <1>4, <4>1 DEF AnswerStands
    <3> QED BY <3>3, <3>4
  <2>2. CASE GetAgain(w)
    <3>1. w \in overlapped /\ UNCHANGED <<saved, answer, doubtful>>
      BY <2>2 DEF GetAgain, Raise, RowKnown, KnowsRow
    <3> QED BY <1>2, <1>4, <3>1 DEF AnswerStands
  <2>3. CASE DeleteRow(w)
    <3>1. job[w] \in SaveJob
      BY <2>3, JobKinds DEF DeleteRow
    <3>2. job[w].on \in Favorites
      BY <3>1 DEF SaveJob
    <3>3. /\ saved' = IF saved[job[w].on] = job[w].id
                      THEN [saved EXCEPT ![job[w].on] = NoRow] ELSE saved
          /\ Answered(w, job[w].on, FALSE)
      BY <2>3 DEF DeleteRow
    <3>4. Ends(w)
      BY <3>3 DEF Answered, End, Ends
    <3>5. /\ \A x \in Favorites : saved'[x] # saved[x] => x = job[w].on
          /\ w \notin overlapped => saved'[job[w].on] = NoRow
      BY <2>3, <3>2, <3>3 DEF TypeOK, RowKnown, KnowsRow, DeleteRow
    <3>6. AnswerStands'
      BY <1>3, <3>2, <3>3, <3>5
    <3> QED BY <1>2, <1>4, <3>4, <3>5, <3>6
  <2>4. CASE Demote(w)
    <3>1. job'[w].at = "image" /\ UNCHANGED <<saved, answer, doubtful>>
      <4>1. job[w] \in ImageJob
        BY <2>4, JobKinds DEF Demote
      <4> QED BY <2>4, <4>1 DEF Demote, ImageJob, TypeOK
    <3> QED BY <1>2, <1>4, <3>1 DEF AnswerStands
  <2>5. CASE InsertImage(w) \/ CountView(w) \/ SaveForm(w)
    <3>1. Ends(w) /\ UNCHANGED <<saved, answer>>
      BY <2>5 DEF InsertImage, CountView, SaveForm, StoreCount, End, Ends
    <3>2. doubtful' \cap Favorites = doubtful \cap Favorites
      BY <2>5, PageAssumption DEF InsertImage, CountView, SaveForm, StoreCount, Doubt
    <3> QED BY <1>2, <1>4, <3>1, <3>2 DEF AnswerStands
  <2> QED BY <1>4, <2>1, <2>2, <2>3, <2>4, <2>5 DEF Continue
<1>5. ASSUME NEW w \in WebWorkers, Crash(w) PROVE SaveInv'
  <2>1. Ends(w) /\ UNCHANGED <<saved, answer, doubtful>>
    BY <1>5 DEF Crash, End, Ends
  <2> QED BY <1>2, <1>5, <2>1 DEF AnswerStands
<1>6. ASSUME NEW i \in ImageIds, DeleteImage(i) PROVE SaveInv'
  BY <1>6 DEF DeleteImage, RowKnown, KnowsRow, AnswerStands
<1>7. CASE UNCHANGED vars
  BY <1>7 DEF vars, RowKnown, KnowsRow, AnswerStands
<1> QED BY <1>1, <1>4, <1>5, <1>6, <1>7 DEF Next

\* For any favorites and processes: what the last answer said is what is stored,
\* unless requests about that favorite overlapped.
THEOREM AnswersStand == Spec => []AnswerStands
<1>1. Init => SaveInv
  BY PageAssumption DEF Init, SaveInv, RowKnown, KnowsRow, AnswerStands, Idle
<1>2. SaveInv => AnswerStands
  BY DEF SaveInv
<1> QED BY InitTypeOK, InitAlone, NextTypeOK, NextAlone, NextSaveInv, <1>1, <1>2, PTL DEF Spec

-----------------------------------------------------------------------------
(* Images                                                                    *)

\* An upload that is not overlapped has taken the mark from all images.
MarkFree ==
    \A w \in WebWorkers \ overlapped :
        job[w].at = "image" /\ job[w].on = "primary" => Primary = {}

PrimaryInv == MarkFree /\ OnePrimary

LEMMA NextPrimaryInv == TypeOK /\ Alone /\ PrimaryInv /\ [Next]_vars => PrimaryInv'
<1> SUFFICES ASSUME TypeOK, Alone, PrimaryInv, [Next]_vars PROVE PrimaryInv'
  OBVIOUS
<1> USE DEF PrimaryInv
<1>1. ASSUME Primary' \subseteq Primary, "primary" \in doubtful => "primary" \in doubtful',
             \A w \in WebWorkers \ overlapped' :
                job'[w].at = "image" /\ job'[w].on = "primary" =>
                   w \notin overlapped /\ job'[w] = job[w]
      PROVE  PrimaryInv'
  BY <1>1 DEF MarkFree, OnePrimary
<1>2. ASSUME NEW w \in WebWorkers, Start(w) PROVE PrimaryInv'
  <2>1. UNCHANGED <<images, doubtful>> /\ Primary' = Primary
    BY <1>2, StartTypeOK DEF Begin, Primary
  <2>2. ASSUME NEW j, Begin(w, j), ~(j.at = "image" /\ j.on = "primary") PROVE PrimaryInv'
    BY <2>1, <2>2, <1>1 DEF Begin, TypeOK
  <2>3. ASSUME NEW x \in Favorites, Remove(w, x) PROVE PrimaryInv'
    BY <2>2, <2>3 DEF Remove
  <2>4. ASSUME NEW x \in Favorites, NEW i \in RowIds, Toggle(w, x, i) \/ Add(w, x, i)
        PROVE  PrimaryInv'
    BY <2>2, <2>4 DEF Toggle, Add
  <2>5. ASSUME NEW i \in ImageIds, NEW primary \in BOOLEAN, Upload(w, i, primary)
        PROVE  PrimaryInv'
    BY <2>2, <2>5 DEF Upload
  <2>6. ASSUME NEW at \in {"view", "edit"}, LoadProduct(w, at) PROVE PrimaryInv'
    BY <2>2, <2>6 DEF LoadProduct
  <2> QED BY <1>2, <2>3, <2>4, <2>5, <2>6 DEF Start
<1>3. ASSUME NEW w \in WebWorkers, Continue(w) \/ Crash(w), Primary' \subseteq Primary,
             "primary" \in doubtful => "primary" \in doubtful',
             Ends(w) \/ job'[w].at # "image"
      PROVE  PrimaryInv'
  <2>1. UNCHANGED overlapped /\ \A v \in WebWorkers \ {w} : job'[v] = job[v]
    BY <1>3, JobSteps DEF GoesOn, Ends, TypeOK
  <2> QED BY <1>1, <1>3, <2>1 DEF Ends, Idle, TypeOK
<1>4. ASSUME NEW w \in WebWorkers, Continue(w) PROVE PrimaryInv'
  <2>1. CASE InsertRow(w) \/ GetAgain(w) \/ DeleteRow(w)
    <3>1. job[w] \in SaveJob
      BY <2>1, JobKinds DEF InsertRow, GetAgain, DeleteRow
    <3>2. UNCHANGED images /\ Primary' = Primary
      BY <2>1 DEF InsertRow, GetAgain, DeleteRow, Primary
    <3>3. "primary" \in doubtful => "primary" \in doubtful'
      BY <2>1, <3>1, PageAssumption DEF InsertRow, GetAgain, DeleteRow, Answered, Raise, Doubt, SaveJob
    <3>4. Ends(w) \/ job'[w].at # "image"
      BY <2>1, <3>1 DEF InsertRow, GetAgain, DeleteRow, Answered, Raise, End, Ends, TypeOK, SaveJob
    <3> QED BY <1>3, <1>4, <3>2, <3>3, <3>4
  <2>2. CASE Demote(w)
    <3>1. job[w] \in ImageJob
      BY <2>2, JobKinds DEF Demote
    <3>2. /\ images' = [i \in ImageIds |-> IF images[i] = "primary" THEN "plain" ELSE images[i]]
          /\ job' = [job EXCEPT ![w].at = "image"]
          /\ UNCHANGED <<overlapped, doubtful>>
      BY <2>2 DEF Demote
    <3>3. Primary' = {}
      BY <3>2 DEF Primary, TypeOK
    <3> QED BY <3>2, <3>3 DEF MarkFree, OnePrimary
  <2>3. CASE InsertImage(w)
    <3>1. job[w] \in ImageJob /\ job[w] # Idle
      BY <2>3, JobKinds DEF InsertImage, Idle, ImageJob
    <3>2. CASE job[w].on = "none"
      <4>1. images' = [images EXCEPT ![job[w].id] = "plain"] /\ UNCHANGED doubtful
        BY <2>3, <3>2 DEF InsertImage
      <4>2. Primary' \subseteq Primary
        BY <3>1, <4>1 DEF Primary, TypeOK, ImageJob
      <4> QED BY <1>3, <1>4, <2>3, <4>1, <4>2 DEF InsertImage, End, Ends
    <3>3. CASE job[w].on = "primary"
      <4>1. /\ images' = [images EXCEPT ![job[w].id] = "primary"]
            /\ doubtful' = IF w \in overlapped THEN doubtful \cup {"primary"} ELSE doubtful \ {"primary"}
            /\ job' = [job EXCEPT ![w] = Idle] /\ UNCHANGED overlapped
        BY <2>3, <3>3 DEF InsertImage, Doubt, End
      <4>2. ASSUME NEW v \in WebWorkers \ overlapped,
                   job'[v].at = "image", job'[v].on = "primary"
            PROVE  FALSE
        <5>1. v # w /\ job[v] = job'[v]
          BY <4>1, <4>2 DEF TypeOK, Idle
        <5>2. "primary" \in Things /\ job[v] # Idle
          BY <4>2, <5>1 DEF Things, Idle
        <5> QED BY <3>1, <3>3, <4>2, <5>1, <5>2, Elsewhere
      <4>3. MarkFree'
        BY <4>1, <4>2 DEF MarkFree
      <4>4. w \notin overlapped => Primary' \subseteq {job[w].id}
        BY <2>3, <3>1, <3>3, <4>1 DEF MarkFree, Primary, TypeOK, ImageJob, InsertImage
      <4>5. OnePrimary'
        BY <4>1, <4>4 DEF OnePrimary
      <4> QED BY <4>3, <4>5
    <3> QED BY <3>1, <3>2, <3>3 DEF ImageJob
  <2>4. CASE CountView(w) \/ SaveForm(w)
    <3>1. UNCHANGED images /\ Primary' = Primary /\ Ends(w)
      BY <2>4 DEF CountView, SaveForm, StoreCount, End, Ends, Primary
    <3>2. "primary" \in doubtful => "primary" \in doubtful'
      BY <2>4 DEF CountView, SaveForm, StoreCount
    <3> QED BY <1>3, <1>4, <3>1, <3>2
  <2> QED BY <1>4, <2>1, <2>2, <2>3, <2>4 DEF Continue
<1>5. ASSUME NEW w \in WebWorkers, Crash(w) PROVE PrimaryInv'
  <2>1. Ends(w) /\ UNCHANGED <<images, doubtful>> /\ Primary' = Primary
    BY <1>5 DEF Crash, End, Ends, Primary
  <2> QED BY <1>3, <1>5, <2>1
<1>6. ASSUME NEW i \in ImageIds, DeleteImage(i) PROVE PrimaryInv'
  <2>1. Primary' \subseteq Primary
    BY <1>6 DEF DeleteImage, Primary, TypeOK
  <2> QED BY <1>1, <1>6, <2>1 DEF DeleteImage
<1>7. CASE UNCHANGED vars
  BY <1>7 DEF vars, MarkFree, OnePrimary, Primary
<1> QED BY <1>2, <1>4, <1>5, <1>6, <1>7 DEF Next

\* For any images and processes: a product has one primary image at most, unless
\* uploads of primary images overlapped since the last that did not.
THEOREM AtMostOnePrimary == Spec => []OnePrimary
<1>1. Init => PrimaryInv
  BY DEF Init, PrimaryInv, MarkFree, OnePrimary, Primary, Idle
<1>2. PrimaryInv => OnePrimary
  BY DEF PrimaryInv
<1> QED BY InitTypeOK, InitAlone, NextTypeOK, NextAlone, NextPrimaryInv, <1>1, <1>2, PTL DEF Spec

-----------------------------------------------------------------------------
(* The limit of images                                                       *)

Uploading == {w \in WebWorkers : job[w].at \in {"demote", "image"}}

\* Every upload at work was let in below the limit.
UploadsBounded ==
    Cardinality(Stored) + Cardinality(Uploading) <= MaxImages + Cardinality(WebWorkers) - 1

LEMMA Finite ==
    /\ IsFiniteSet(Stored) /\ IsFiniteSet(Uploading)
    /\ Cardinality(Stored) \in Nat /\ Cardinality(Uploading) \in Nat
    /\ Cardinality(WebWorkers) \in Nat /\ Cardinality(WebWorkers) >= 1
<1>1. IsFiniteSet(Stored) /\ IsFiniteSet(Uploading)
  <2>1. Stored \subseteq ImageIds /\ Uploading \subseteq WebWorkers
    BY DEF Stored, Uploading
  <2> QED BY <2>1, FS_Subset, PageAssumption
<1>2. Cardinality(WebWorkers) \in Nat /\ Cardinality(WebWorkers) # 0
  BY PageAssumption, FS_CardinalityType, FS_EmptySet
<1> QED BY <1>1, <1>2, FS_CardinalityType

\* Neither images nor uploads become more.
LEMMA FewerUploads ==
    ASSUME UploadsBounded, Stored' \subseteq Stored, Uploading' \subseteq Uploading
    PROVE  UploadsBounded'
<1>1. /\ IsFiniteSet(Stored) /\ IsFiniteSet(Uploading)
      /\ Cardinality(Stored) \in Nat /\ Cardinality(Uploading) \in Nat
      /\ Cardinality(WebWorkers) \in Nat
  BY Finite
<1>2. /\ Cardinality(Stored') <= Cardinality(Stored) /\ Cardinality(Stored') \in Nat
      /\ Cardinality(Uploading') <= Cardinality(Uploading) /\ Cardinality(Uploading') \in Nat
  <2>1. \A S, T : IsFiniteSet(T) /\ S \subseteq T =>
            Cardinality(S) <= Cardinality(T) /\ Cardinality(S) \in Nat
    BY FS_Subset, FS_CardinalityType
  <2> QED BY <1>1, <2>1
<1>3. MaxImages \in Nat
  BY PageAssumption
<1> QED BY <1>1, <1>2, <1>3 DEF UploadsBounded

LEMMA NextUploadsBounded == TypeOK /\ UploadsBounded /\ [Next]_vars => UploadsBounded'
<1> SUFFICES ASSUME TypeOK, UploadsBounded, [Next]_vars PROVE UploadsBounded'
  OBVIOUS
<1>1. ASSUME NEW w \in WebWorkers, NEW j, Begin(w, j), j.at \notin {"demote", "image"}
      PROVE  UploadsBounded'
  <2>1. Stored' = Stored /\ Uploading' \subseteq Uploading
    BY <1>1 DEF Begin, Stored, Uploading, TypeOK
  <2> QED BY <2>1, FewerUploads
<1>2. ASSUME NEW w \in WebWorkers, Start(w) PROVE UploadsBounded'
  <2>1. ASSUME NEW x \in Favorites, Remove(w, x) PROVE UploadsBounded'
    BY <2>1, <1>1 DEF Remove
  <2>2. ASSUME NEW x \in Favorites, NEW i \in RowIds, Toggle(w, x, i) \/ Add(w, x, i)
        PROVE  UploadsBounded'
    BY <2>2, <1>1 DEF Toggle, Add
  <2>3. ASSUME NEW at \in {"view", "edit"}, LoadProduct(w, at) PROVE UploadsBounded'
    BY <2>3, <1>1 DEF LoadProduct
  <2>4. ASSUME NEW i \in ImageIds, NEW primary \in BOOLEAN, Upload(w, i, primary)
        PROVE  UploadsBounded'
    <3>1. Stored' = Stored /\ Cardinality(Stored) < MaxImages
      BY <2>4 DEF Upload, Begin, Stored
    <3>2. IsFiniteSet(WebWorkers) /\ Uploading' \subseteq WebWorkers
      BY PageAssumption DEF Uploading
    <3>3. Cardinality(Uploading') <= Cardinality(WebWorkers) /\ Cardinality(Uploading') \in Nat
      BY <3>2, FS_Subset, FS_CardinalityType
    <3>4. Cardinality(Stored) \in Nat /\ Cardinality(WebWorkers) \in Nat /\ MaxImages \in Nat
      BY Finite, PageAssumption
    <3>5. Cardinality(Stored') < MaxImages /\ Cardinality(Stored') \in Nat
      BY <3>1, <3>4
    <3> QED BY <3>3, <3>4, <3>5 DEF UploadsBounded
  <2> QED BY <1>2, <2>1, <2>2, <2>3, <2>4 DEF Start
<1>3. ASSUME NEW w \in WebWorkers, Continue(w) PROVE UploadsBounded'
  <2>1. CASE InsertRow(w) \/ GetAgain(w) \/ DeleteRow(w)
    <3>1. job[w] \in SaveJob /\ UNCHANGED images
      BY <2>1, JobKinds DEF InsertRow, GetAgain, DeleteRow
    <3>2. /\ \A v \in WebWorkers \ {w} : job'[v] = job[v]
          /\ job'[w].at \notin {"demote", "image"}
      BY <2>1, <3>1 DEF InsertRow, GetAgain, DeleteRow, Answered, Raise, End, TypeOK, SaveJob, Idle
    <3>3. Stored' = Stored /\ Uploading' \subseteq Uploading
      BY <3>1, <3>2 DEF Stored, Uploading
    <3> QED BY <3>3, FewerUploads
  <2>2. CASE Demote(w)
    <3>1. Stored' = Stored /\ Uploading' \subseteq Uploading
      BY <2>2 DEF Demote, Stored, Uploading, TypeOK
    <3> QED BY <3>1, FewerUploads
  <2>3. CASE InsertImage(w)
    <3>1. job[w] \in ImageJob /\ w \in Uploading
      BY <2>3, JobKinds DEF InsertImage, Uploading
    <3>2. Stored' \subseteq Stored \cup {job[w].id} /\ Uploading' = Uploading \ {w}
      BY <2>3, <3>1 DEF InsertImage, End, Stored, Uploading, TypeOK, Idle, ImageJob
    <3>3. /\ Cardinality(Uploading') = Cardinality(Uploading) - 1
          /\ Cardinality(Stored') <= Cardinality(Stored) + 1 /\ Cardinality(Stored') \in Nat
      <4>1. IsFiniteSet(Stored) /\ IsFiniteSet(Uploading)
            /\ Cardinality(Stored) \in Nat /\ Cardinality(Uploading) \in Nat
        BY Finite
      <4>2. IsFiniteSet(Stored \cup {job[w].id})
            /\ Cardinality(Stored \cup {job[w].id}) <= Cardinality(Stored) + 1
            /\ Cardinality(Stored \cup {job[w].id}) \in Nat
        <5>1. \A S, x : IsFiniteSet(S) =>
                  /\ IsFiniteSet(S \cup {x})
                  /\ Cardinality(S \cup {x}) \in {Cardinality(S), Cardinality(S) + 1}
          BY FS_AddElement
        <5>2. Cardinality(Stored \cup {job[w].id}) \in {Cardinality(Stored), Cardinality(Stored) + 1}
          BY <4>1, <5>1
        <5>3. IsFiniteSet(Stored \cup {job[w].id})
          BY <4>1, <5>1
        <5> QED BY <4>1, <5>2, <5>3
      <4>3. Cardinality(Stored') <= Cardinality(Stored \cup {job[w].id}) /\ Cardinality(Stored') \in Nat
        BY <3>2, <4>2, FS_Subset, FS_CardinalityType
      <4>4. Cardinality(Uploading \ {w}) = Cardinality(Uploading) - 1
        BY <3>1, <4>1, FS_RemoveElement
      <4> QED BY <3>2, <4>1, <4>2, <4>3, <4>4
    <3>4. /\ Cardinality(Stored) \in Nat /\ Cardinality(Uploading) \in Nat
          /\ Cardinality(WebWorkers) \in Nat /\ MaxImages \in Nat
      BY Finite, PageAssumption
    <3> QED BY <3>3, <3>4 DEF UploadsBounded
  <2>4. CASE CountView(w) \/ SaveForm(w)
    <3>1. Stored' = Stored /\ Uploading' \subseteq Uploading
      BY <2>4 DEF CountView, SaveForm, StoreCount, End, Stored, Uploading, TypeOK, Idle
    <3> QED BY <3>1, FewerUploads
  <2> QED BY <1>3, <2>1, <2>2, <2>3, <2>4 DEF Continue
<1>4. ASSUME NEW w \in WebWorkers, Crash(w) PROVE UploadsBounded'
  <2>1. Stored' = Stored /\ Uploading' \subseteq Uploading
    BY <1>4 DEF Crash, End, Stored, Uploading, TypeOK, Idle
  <2> QED BY <2>1, FewerUploads
<1>5. ASSUME NEW i \in ImageIds, DeleteImage(i) PROVE UploadsBounded'
  <2>1. Stored' \subseteq Stored /\ Uploading' = Uploading
    BY <1>5 DEF DeleteImage, Stored, Uploading, TypeOK
  <2> QED BY <2>1, FewerUploads
<1>6. CASE UNCHANGED vars
  <2>1. Stored' = Stored /\ Uploading' = Uploading
    BY <1>6 DEF vars, Stored, Uploading
  <2> QED BY <2>1, FewerUploads
<1> QED BY <1>2, <1>3, <1>4, <1>5, <1>6 DEF Next

\* For any number of processes and any limit: overlapping uploads exceed the limit
\* of images by less than the number of processes.
THEOREM ImagesAreBounded == Spec => []ImagesBounded
<1>1. Init => UploadsBounded
  <2> SUFFICES ASSUME Init PROVE UploadsBounded
    OBVIOUS
  <2>1. Stored = {} /\ Uploading = {}
    BY DEF Init, Stored, Uploading, Idle
  <2>2. Cardinality(Stored) = 0 /\ Cardinality(Uploading) = 0
    BY <2>1, FS_EmptySet
  <2>3. Cardinality(WebWorkers) \in Nat /\ Cardinality(WebWorkers) >= 1 /\ MaxImages \in Nat
    BY Finite, PageAssumption
  <2> QED BY <2>2, <2>3 DEF UploadsBounded
<1>2. UploadsBounded => ImagesBounded
  <2> SUFFICES ASSUME UploadsBounded PROVE ImagesBounded
    OBVIOUS
  <2>1. /\ Cardinality(Stored) \in Nat /\ Cardinality(Uploading) \in Nat
        /\ Cardinality(WebWorkers) \in Nat /\ MaxImages \in Nat
    BY Finite, PageAssumption
  <2> QED BY <2>1 DEF UploadsBounded, ImagesBounded
<1> QED BY InitTypeOK, NextTypeOK, NextUploadsBounded, <1>1, <1>2, PTL DEF Spec

-----------------------------------------------------------------------------
(* Views                                                                     *)

\* A loaded count is at most the views; one that is not overlapped is the count.
CountKnown ==
    \A w \in WebWorkers :
        job[w].at \in {"view", "edit"} =>
            /\ job[w].count <= views
            /\ w \notin overlapped => job[w].count = view_count

CountInv == CountKnown /\ ViewsCounted

LEMMA NextCountInv == TypeOK /\ Alone /\ CountInv /\ [Next]_vars => CountInv'
<1> SUFFICES ASSUME TypeOK, Alone, CountInv, [Next]_vars PROVE CountInv'
  OBVIOUS
<1> USE DEF CountInv
<1>1. ASSUME UNCHANGED <<view_count, views>>, "views" \in doubtful => "views" \in doubtful',
             \A w \in WebWorkers :
                \/ job'[w].at \notin {"view", "edit"}
                \/ job'[w].count = view_count
                \/ job'[w] = job[w] /\ (w \in overlapped => w \in overlapped')
      PROVE  CountInv'
  BY <1>1 DEF CountKnown, ViewsCounted, TypeOK
<1>2. ASSUME NEW w \in WebWorkers, NEW j, Begin(w, j),
             j.at \in {"view", "edit"} => j.count = view_count
      PROVE  CountInv'
  BY <1>1, <1>2 DEF Begin, TypeOK
<1>3. ASSUME NEW w \in WebWorkers, Start(w) PROVE CountInv'
  <2>1. ASSUME NEW x \in Favorites, Remove(w, x) PROVE CountInv'
    BY <2>1, <1>2 DEF Remove
  <2>2. ASSUME NEW x \in Favorites, NEW i \in RowIds, Toggle(w, x, i) \/ Add(w, x, i)
        PROVE  CountInv'
    BY <2>2, <1>2 DEF Toggle, Add
  <2>3. ASSUME NEW at \in {"view", "edit"}, LoadProduct(w, at) PROVE CountInv'
    BY <2>3, <1>2 DEF LoadProduct
  <2>4. ASSUME NEW i \in ImageIds, NEW primary \in BOOLEAN, Upload(w, i, primary)
        PROVE  CountInv'
    BY <2>4, <1>2 DEF Upload
  <2> QED BY <1>3, <2>1, <2>2, <2>3, <2>4 DEF Start
<1>4. ASSUME NEW w \in WebWorkers, Continue(w) \/ Crash(w), UNCHANGED <<view_count, views>>,
             "views" \in doubtful => "views" \in doubtful'
      PROVE  CountInv'
  BY <1>1, <1>4, JobSteps DEF GoesOn, Ends, Idle, TypeOK
<1>5. ASSUME NEW w \in WebWorkers, Continue(w) PROVE CountInv'
  <2>1. CASE InsertRow(w) \/ GetAgain(w) \/ DeleteRow(w)
    <3>1. job[w] \in SaveJob
      BY <2>1, JobKinds DEF InsertRow, GetAgain, DeleteRow
    <3>2. "views" \in doubtful => "views" \in doubtful'
      BY <2>1, <3>1, PageAssumption DEF InsertRow, GetAgain, DeleteRow, Answered, Raise, Doubt, SaveJob
    <3> QED BY <1>4, <1>5, <2>1, <3>2 DEF InsertRow, GetAgain, DeleteRow
  <2>2. CASE Demote(w)
    BY <1>4, <1>5, <2>2 DEF Demote
  <2>3. CASE InsertImage(w)
    <3>1. "views" \in doubtful => "views" \in doubtful'
      BY <2>3 DEF InsertImage, Doubt
    <3> QED BY <1>4, <1>5, <2>3, <3>1 DEF InsertImage
  <2>4. CASE CountView(w) \/ SaveForm(w)
    <3>1. job[w] \in ViewJob /\ job[w].at \in {"view", "edit"} /\ job[w] # Idle /\ job[w].on = "views"
      BY <2>4, JobKinds DEF CountView, SaveForm, Idle, ViewJob
    <3>2. /\ job' = [job EXCEPT ![w] = Idle] /\ UNCHANGED overlapped
          /\ doubtful' = IF w \in overlapped THEN doubtful \cup {"views"} ELSE doubtful
      BY <2>4 DEF CountView, SaveForm, StoreCount, End
    <3>3. ASSUME NEW v \in WebWorkers, job'[v].at \in {"view", "edit"}
          PROVE  v \in overlapped /\ w \in overlapped /\ job'[v] = job[v]
      <4>1. v # w /\ job'[v] = job[v]
        BY <3>2, <3>3 DEF TypeOK, Idle
      <4>2. job[v] \in ViewJob /\ job[v] # Idle /\ "views" \in Things
        BY <3>3, <4>1, JobKinds DEF Idle, Things
      <4>3. On(v, "views") /\ On(w, "views")
        BY <3>1, <4>2 DEF On, ViewJob
      <4> QED BY <4>1, <4>2, <4>3 DEF Alone
    <3>4. /\ job[w].count \in Nat /\ views \in Nat /\ view_count \in Nat
          /\ job[w].count <= views /\ (w \notin overlapped => job[w].count = view_count)
      BY <3>1 DEF TypeOK, ViewJob, CountKnown
    <3>5. \/ view_count' = job[w].count + 1 /\ views' = views + 1
          \/ view_count' = job[w].count /\ views' = views
      BY <2>4 DEF CountView, SaveForm, StoreCount
    <3>6. ViewsCounted'
      BY <3>2, <3>4, <3>5 DEF ViewsCounted
    <3>7. ASSUME NEW v \in WebWorkers, job'[v].at \in {"view", "edit"}
          PROVE  job'[v].count <= views'
      <4>1. job[v] \in ViewJob /\ job[v].count <= views /\ job'[v] = job[v]
        BY <3>3, <3>7, JobKinds DEF CountKnown
      <4> QED BY <3>4, <3>5, <4>1 DEF ViewJob
    <3>8. CountKnown'
      BY <3>2, <3>3, <3>7 DEF CountKnown
    <3> QED BY <3>6, <3>8
  <2> QED BY <1>5, <2>1, <2>2, <2>3, <2>4 DEF Continue
<1>6. ASSUME NEW w \in WebWorkers, Crash(w) PROVE CountInv'
  BY <1>4, <1>6 DEF Crash
<1>7. ASSUME NEW i \in ImageIds, DeleteImage(i) PROVE CountInv'
  BY <1>1, <1>7 DEF DeleteImage
<1>8. CASE UNCHANGED vars
  BY <1>1, <1>8 DEF vars
<1> QED BY <1>3, <1>5, <1>6, <1>7, <1>8 DEF Next

\* For any number of processes: the count never exceeds the views, and is exact as
\* long as no two requests had the product loaded at once.
THEOREM ViewsAreCounted == Spec => []ViewsCounted
<1>1. Init => CountInv
  BY PageAssumption DEF Init, CountInv, CountKnown, ViewsCounted, Idle
<1>2. CountInv => ViewsCounted
  BY DEF CountInv
<1> QED BY InitTypeOK, InitAlone, NextTypeOK, NextAlone, NextCountInv, <1>1, <1>2, PTL DEF Spec

=============================================================================
