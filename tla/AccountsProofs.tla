--------------------------- MODULE AccountsProofs ---------------------------
(***************************************************************************)
(* What is proved of Accounts for every set of addresses, names and        *)
(* processes.  The properties share one invariant: what a process holds of *)
(* the rows it loaded (Grounded), exact for the rows that are not raced,   *)
(* since nobody else has those open (Alone).                               *)
(***************************************************************************)
EXTENDS Accounts, TLAPS

\* A missing row differs from every row.
LEMMA Missing == NoUser \notin UserRow /\ NoProfile \notin Profile
<1>1. NoUser \notin UserRow
  <2> SUFFICES ASSUME NoUser \in UserRow PROVE FALSE
    OBVIOUS
  <2>1. NoUser.role \in {"customer", "artisan"}
    BY DEF UserRow
  <2> QED BY <2>1 DEF NoUser
<1>2. NoProfile \notin Profile
  <2> SUFFICES ASSUME NoProfile \in Profile PROVE FALSE
    OBVIOUS
  <2>1. DOMAIN NoProfile = {"shop_name", "slug", "total"}
    BY DEF Profile
  <2>2. DOMAIN NoProfile = {"shop_name"}
    BY DEF NoProfile
  <2> QED BY <2>1, <2>2
<1> QED BY <1>1, <1>2

\* The label of a process tells which record it holds.
LEMMA JobKinds ==
    ASSUME TypeOK, NEW w \in Workers
    PROVE  /\ job[w].at \in {"user", "profile"} => job[w] \in RegisterJob
           /\ job[w].at \in {"me", "password"} => job[w] \in UserJob
           /\ job[w].at = "form" => job[w] \in FormJob
           /\ job[w].at = "credit" => job[w] \in CreditJob
BY DEF TypeOK, Job, Idle, RegisterJob, UserJob, FormJob, CreditJob

LEMMA LoadedIs ==
    ASSUME NEW j
    PROVE  /\ j.at \in {"me", "password"} => Loaded(j) = {<<"user", j.email>>}
           /\ j.at \in {"form", "credit"} => Loaded(j) = {<<"profile", j.email>>}
           /\ j.at \notin {"me", "password", "form", "credit"} => Loaded(j) = {}
BY DEF Loaded

-----------------------------------------------------------------------------
(* How a request starts                                                      *)

\* What the first query of a request found.
Fresh(j) ==
    /\ j.at \in {"user", "me", "password", "form", "credit"}
    /\ j.at = "user" => (j.shop_name = NoName <=> j.row.role = "customer")
    /\ j.at \in {"me", "password"} =>
          /\ user[j.email] # NoUser /\ j.copy = user[j.email]
          /\ j.at = "me" => j.password = j.copy.password
    /\ j.at = "form" =>
          /\ profile[j.email] # NoProfile
          /\ \/ j.copy = profile[j.email]
             \/ /\ user[j.email].role = "artisan"
                /\ \E name \in Names : j.copy = Renamed(profile[j.email], name)
    /\ j.at = "credit" =>
          profile[j.email] # NoProfile /\ j.total = profile[j.email].total + 1

LEMMA Rename ==
    ASSUME NEW row \in Profile, NEW name \in Names
    PROVE  /\ Renamed(row, name) \in Profile
           /\ Renamed(row, name).shop_name = name
           /\ Renamed(row, name).slug = Slug[name]
           /\ Renamed(row, name).total = row.total
BY AccountAssumption DEF Renamed, Profile, Slugs

LEMMA StartKinds ==
    ASSUME TypeOK, NEW w \in Workers, Start(w)
    PROVE  \E j \in Job : Fresh(j) /\ Begin(w, j)
<1>1. ASSUME NEW s \in Spellings, NEW role \in {"customer", "artisan"}, NEW p \in Passwords,
             NEW name \in Workshop \cup {NoName}, RegisterRead(w, s, role, p, name)
      PROVE  \E j \in Job : Fresh(j) /\ Begin(w, j)
  <2> DEFINE j == [at |-> "user", email |-> Normal[s], shop_name |-> name,
                   row |-> [role |-> role, password |-> p]]
  <2>1. j \in Job
    BY DEF Emails, UserRow, RegisterJob, Job
  <2>2. Fresh(j)
    BY <1>1 DEF Fresh, RegisterRead
  <2> QED BY <1>1, <2>1, <2>2 DEF RegisterRead
<1>2. ASSUME NEW e \in Emails, NEW p \in Passwords, NEW at \in {"me", "password"},
             user[e] # NoUser, at = "me" => p = user[e].password,
             Begin(w, [at |-> at, email |-> e, copy |-> user[e], password |-> p])
      PROVE  \E j \in Job : Fresh(j) /\ Begin(w, j)
  <2> DEFINE j == [at |-> at, email |-> e, copy |-> user[e], password |-> p]
  <2>1. j \in Job
    BY <1>2 DEF TypeOK, UserJob, Job
  <2>2. Fresh(j)
    BY <1>2 DEF Fresh
  <2> QED BY <1>2, <2>1, <2>2
<1>3. ASSUME NEW e \in Emails, MeRead(w, e)
      PROVE  \E j \in Job : Fresh(j) /\ Begin(w, j)
  <2>1. user[e] # NoUser /\ user[e].password \in Passwords
    BY <1>3 DEF MeRead, TypeOK, UserRow
  <2> QED BY <1>2, <1>3, <2>1 DEF MeRead
<1>4. ASSUME NEW e \in Emails, NEW p \in Passwords, PasswordRead(w, e, p)
      PROVE  \E j \in Job : Fresh(j) /\ Begin(w, j)
  BY <1>2, <1>4 DEF PasswordRead
<1>5. ASSUME NEW e \in Emails, FormRead(w, e)
      PROVE  \E j \in Job : Fresh(j) /\ Begin(w, j)
  <2> DEFINE j == [at |-> "form", email |-> e, copy |-> profile[e]]
  <2>1. j \in Job
    BY <1>5 DEF FormRead, TypeOK, FormJob, Job
  <2>2. Fresh(j)
    BY <1>5 DEF Fresh, FormRead
  <2> QED BY <1>5, <2>1, <2>2 DEF FormRead
<1>6. ASSUME NEW e \in Emails, NEW name \in Names, RenameRead(w, e, name)
      PROVE  \E j \in Job : Fresh(j) /\ Begin(w, j)
  <2> DEFINE j == [at |-> "form", email |-> e, copy |-> Renamed(profile[e], name)]
  <2>1. profile[e] \in Profile
    BY <1>6 DEF RenameRead, TypeOK
  <2>2. j \in Job
    BY <2>1, Rename DEF FormJob, Job
  <2>3. Fresh(j)
    BY <1>6 DEF Fresh, RenameRead
  <2> QED BY <1>6, <2>2, <2>3 DEF RenameRead
<1>7. ASSUME NEW e \in Emails, CreditRead(w, e)
      PROVE  \E j \in Job : Fresh(j) /\ Begin(w, j)
  <2> DEFINE j == [at |-> "credit", email |-> e, total |-> profile[e].total + 1]
  <2>1. j \in Job
    BY <1>7 DEF CreditRead, TypeOK, Profile, CreditJob, Job
  <2>2. Fresh(j)
    BY <1>7 DEF Fresh, CreditRead
  <2> QED BY <1>7, <2>1, <2>2 DEF CreditRead
<1> QED BY <1>1, <1>3, <1>4, <1>5, <1>6, <1>7 DEF Start

-----------------------------------------------------------------------------
(* Types                                                                     *)

\* A profile that is open to be saved is there, and nobody deletes it.
ProfileThere ==
    \A w \in Workers :
        job[w].at \in {"form", "credit"} => profile[job[w].email] # NoProfile

TypeInv == TypeOK /\ ProfileThere

LEMMA OpenedIs ==
    ASSUME NEW j \in RegisterJob
    PROVE  /\ Opened(j) \in Profile
           /\ Opened(j).shop_name = j.shop_name
           /\ Opened(j).total = 0
           /\ Opened(j).slug = IF j.shop_name = NoName THEN NoName ELSE OwnSlug(j.email)
BY AccountAssumption DEF Opened, Profile, RegisterJob, Slugs

LEMMA NextTypeInv == TypeInv /\ [Next]_vars => TypeInv'
<1> SUFFICES ASSUME TypeInv, [Next]_vars PROVE TypeInv'
  OBVIOUS
<1> USE DEF TypeInv
<1>1. ASSUME NEW w \in Workers, Start(w) PROVE TypeInv'
  <2>1. PICK j \in Job : Fresh(j) /\ Begin(w, j)
    BY <1>1, StartKinds
  <2>2. Loaded(j) \subseteq {"user", "profile"} \X Emails
    BY LoadedIs DEF Job, Idle, RegisterJob, UserJob, FormJob, CreditJob
  <2>3. TypeOK'
    BY <2>1, <2>2 DEF Begin, TypeOK
  <2> QED BY <2>1, <2>3 DEF Begin, Fresh, ProfileThere, TypeOK
<1>2. ASSUME NEW w \in Workers, End(w), UNCHANGED raced,
             user' \in [Emails -> UserRow \cup {NoUser}],
             profile' \in [Emails -> Profile \cup {NoProfile}],
             \A e \in Emails : profile[e] # NoProfile => profile'[e] # NoProfile,
             credits' \in [Emails -> 0 .. MaxCredits]
      PROVE  TypeInv'
  <2>1. job' = [job EXCEPT ![w] = Idle] /\ Idle \in Job /\ Idle.at = "idle"
    BY <1>2 DEF End, Job, Idle
  <2>2. TypeOK'
    BY <1>2, <2>1 DEF TypeOK
  <2>3. \A v \in Workers : job[v].at \in {"form", "credit"} => job[v].email \in Emails
    BY JobKinds DEF FormJob, CreditJob
  <2> QED BY <1>2, <2>1, <2>2, <2>3 DEF ProfileThere, TypeOK
<1>3. ASSUME NEW w \in Workers, InsertUser(w) PROVE TypeInv'
  <2>1. job[w] \in RegisterJob
    BY <1>3, JobKinds DEF InsertUser
  <2>2. CASE user[job[w].email] = NoUser
    <3> DEFINE j == [job[w] EXCEPT !.at = "profile"]
    <3>1. j \in Job /\ j.at = "profile"
      BY <2>1 DEF Job, RegisterJob
    <3>2. /\ job' = [job EXCEPT ![w] = j]
          /\ user' = [user EXCEPT ![job[w].email] = job[w].row]
          /\ UNCHANGED <<profile, credits, raced>>
      BY <1>3, <2>2 DEF InsertUser
    <3> HIDE DEF j
    <3> QED BY <2>1, <3>1, <3>2 DEF TypeOK, ProfileThere, RegisterJob
  <2>3. CASE user[job[w].email] # NoUser
    BY <1>2, <1>3, <2>3 DEF InsertUser, TypeOK
  <2> QED BY <2>2, <2>3
<1>4. ASSUME NEW w \in Workers, InsertProfile(w) PROVE TypeInv'
  <2>1. job[w] \in RegisterJob /\ job[w].email \in Emails /\ Opened(job[w]) \in Profile
    BY <1>4, JobKinds, OpenedIs DEF InsertProfile, RegisterJob
  <2>2. \/ profile' = [profile EXCEPT ![job[w].email] = Opened(job[w])]
        \/ profile' = profile
    BY <1>4 DEF InsertProfile
  <2>3. profile' \in [Emails -> Profile \cup {NoProfile}]
    BY <2>1, <2>2 DEF TypeOK
  <2>4. \A e \in Emails : profile[e] # NoProfile => profile'[e] # NoProfile
    BY <2>1, <2>2, Missing DEF TypeOK
  <2> QED BY <1>2, <1>4, <2>3, <2>4 DEF InsertProfile, TypeOK
<1>5. ASSUME NEW w \in Workers, SaveUser(w) PROVE TypeInv'
  <2>1. job[w] \in UserJob
    BY <1>5, JobKinds DEF SaveUser
  <2>2. [job[w].copy EXCEPT !.password = job[w].password] \in UserRow
    BY <2>1 DEF UserJob, UserRow
  <2>3. user' \in [Emails -> UserRow \cup {NoUser}]
    BY <1>5, <2>2 DEF SaveUser, TypeOK
  <2> QED BY <1>2, <1>5, <2>3 DEF SaveUser, TypeOK
<1>6. ASSUME NEW w \in Workers, SaveProfile(w) PROVE TypeInv'
  <2>1. job[w] \in FormJob /\ job[w].copy \in Profile
    BY <1>6, JobKinds DEF SaveProfile, FormJob
  <2>2. \/ profile' = [profile EXCEPT ![job[w].email] = job[w].copy]
        \/ profile' = profile
    BY <1>6 DEF SaveProfile
  <2>3. profile' \in [Emails -> Profile \cup {NoProfile}]
        /\ \A e \in Emails : profile[e] # NoProfile => profile'[e] # NoProfile
    BY <2>1, <2>2, Missing DEF TypeOK
  <2> QED BY <1>2, <1>6, <2>3 DEF SaveProfile, TypeOK
<1>7. ASSUME NEW w \in Workers, CreditSave(w) PROVE TypeInv'
  <2>1. job[w] \in CreditJob /\ profile[job[w].email] # NoProfile
    BY <1>7, JobKinds DEF CreditSave, ProfileThere
  <2>2. [profile[job[w].email] EXCEPT !.total = job[w].total] \in Profile
    BY <2>1 DEF TypeOK, CreditJob, Profile
  <2>3. profile' = [profile EXCEPT ![job[w].email] =
                       [profile[job[w].email] EXCEPT !.total = job[w].total]]
    BY <1>7 DEF CreditSave
  <2>4. profile' \in [Emails -> Profile \cup {NoProfile}]
        /\ \A e \in Emails : profile[e] # NoProfile => profile'[e] # NoProfile
    BY <2>1, <2>2, <2>3, Missing DEF TypeOK
  <2>5. credits' \in [Emails -> 0 .. MaxCredits]
    BY <1>7, <2>1, AccountAssumption DEF CreditSave, TypeOK, CreditJob
  <2> QED BY <1>2, <1>7, <2>4, <2>5 DEF CreditSave, TypeOK
<1>8. ASSUME NEW w \in Workers, Crash(w) PROVE TypeInv'
  BY <1>2, <1>8 DEF Crash, TypeOK
<1>9. CASE UNCHANGED vars
  BY <1>9 DEF vars, TypeOK, ProfileThere
<1> QED BY <1>1, <1>3, <1>4, <1>5, <1>6, <1>7, <1>8, <1>9 DEF Next, Continue

LEMMA InitTypeInv == Init => TypeInv
BY AccountAssumption DEF Init, TypeInv, TypeOK, ProfileThere, Job, Idle

\* Every reachable state is well typed, for any addresses, names and processes.
THEOREM TypeCorrect == Spec => []TypeOK
<1>1. TypeInv => TypeOK
  BY DEF TypeInv
<1> QED BY InitTypeInv, NextTypeInv, <1>1, PTL DEF Spec

-----------------------------------------------------------------------------
(* What a process holds of the rows                                          *)

Row(kind, e) == <<kind, e>>

\* Two processes that have the same row open have raced.
Alone ==
    \A v, w \in Workers :
        v # w => Loaded(job[v]) \cap Loaded(job[w]) \subseteq raced

GroundedUser(j) ==
    /\ j.at \in {"user", "profile"} => (j.shop_name = NoName <=> j.row.role = "customer")
    /\ j.at = "profile" => user[j.email] # NoUser /\ user[j.email].role = j.row.role
    /\ j.at \in {"me", "password"} =>
          /\ user[j.email] # NoUser
          /\ j.copy.role = user[j.email].role
          /\ j.at = "me" => j.password = j.copy.password
          /\ Row("user", j.email) \notin raced => j.copy = user[j.email]

GroundedProfile(j) ==
    /\ j.at = "form" =>
          /\ profile[j.email] # NoProfile
          /\ j.copy.shop_name = NoName <=> profile[j.email].shop_name = NoName
          /\ j.copy.shop_name = NoName => j.copy.slug = NoName
          /\ j.copy.shop_name # NoName =>
                j.copy.slug \in {OwnSlug(j.email), Slug[j.copy.shop_name]}
          /\ j.copy.total <= credits[j.email]
          /\ Row("profile", j.email) \notin raced => j.copy.total = profile[j.email].total
    /\ j.at = "credit" =>
          /\ profile[j.email] # NoProfile
          /\ j.total <= credits[j.email] + 1
          /\ Row("profile", j.email) \notin raced => j.total = profile[j.email].total + 1

Grounded == \A w \in Workers : GroundedUser(job[w]) /\ GroundedProfile(job[w])

\* Nothing is credited to a profile that is not there; a customer has no slug.
ProfilesFirst ==
    \A e \in Emails :
        /\ profile[e] = NoProfile => credits[e] = 0
        /\ profile[e] # NoProfile /\ profile[e].shop_name = NoName => profile[e].slug = NoName

IInv == TypeInv /\ Alone /\ Grounded /\ ProfilesFirst /\ TotalsEarned /\ ShopsAddressed

\* A step of w that keeps users, their roles, profiles and their kind, and
\* changes nothing else than the row w has open, leaves what v holds as it was.
LEMMA OthersStay ==
    ASSUME TypeInv, Alone, NEW w \in Workers, NEW v \in Workers \ {w},
           GroundedUser(job[v]), GroundedProfile(job[v]),
           job'[v] = job[v], raced \subseteq raced',
           \A e \in Emails : user[e] # NoUser =>
               /\ user'[e] # NoUser /\ user'[e].role = user[e].role
               /\ user'[e] # user[e] => Row("user", e) \in Loaded(job[w]),
           \A e \in Emails : profile[e] # NoProfile =>
               /\ profile'[e] # NoProfile
               /\ profile'[e].shop_name = NoName <=> profile[e].shop_name = NoName
               /\ profile'[e].total # profile[e].total => Row("profile", e) \in Loaded(job[w]),
           \A e \in Emails : credits'[e] \in Nat /\ credits'[e] >= credits[e]
    PROVE  GroundedUser(job[v])' /\ GroundedProfile(job[v])'
<1> DEFINE j == job[v]
<1>1. Loaded(j) \cap Loaded(job[w]) \subseteq raced
  BY DEF Alone
<1>2. GroundedUser(j)'
  <2>1. j.at \in {"user", "profile"} => j \in RegisterJob
    BY JobKinds DEF TypeInv
  <2>2. j.at \in {"me", "password"} => j \in UserJob /\ Loaded(j) = {Row("user", j.email)}
    BY JobKinds, LoadedIs DEF TypeInv, Row
  <2>3. CASE j.at \in {"user", "profile"}
    BY <2>1, <2>3 DEF GroundedUser, RegisterJob
  <2>4. CASE j.at \in {"me", "password"}
    <3>1. j.email \in Emails
      BY <2>2, <2>4 DEF UserJob
    <3>2. Row("user", j.email) \notin raced' => user'[j.email] = user[j.email]
      BY <1>1, <2>2, <2>4, <3>1 DEF GroundedUser
    <3> QED BY <2>4, <3>1, <3>2 DEF GroundedUser
  <2>5. CASE j.at \notin {"user", "profile", "me", "password"}
    BY <2>5 DEF GroundedUser
  <2> QED BY <2>3, <2>4, <2>5
<1>3. GroundedProfile(j)'
  <2>1. CASE j.at = "form"
    <3>1. j \in FormJob /\ Loaded(j) = {Row("profile", j.email)}
      BY <2>1, JobKinds, LoadedIs DEF TypeInv, Row
    <3>2. j.email \in Emails /\ j.copy.total \in Nat
      BY <3>1 DEF FormJob, Profile
    <3>3. Row("profile", j.email) \notin raced' => profile'[j.email].total = profile[j.email].total
      BY <1>1, <2>1, <3>1, <3>2 DEF GroundedProfile
    <3>4. j.copy.total <= credits'[j.email]
      BY <2>1, <3>2 DEF GroundedProfile, TypeInv, TypeOK
    <3> QED BY <2>1, <3>2, <3>3, <3>4 DEF GroundedProfile
  <2>2. CASE j.at = "credit"
    <3>1. j \in CreditJob /\ Loaded(j) = {Row("profile", j.email)}
      BY <2>2, JobKinds, LoadedIs DEF TypeInv, Row
    <3>2. j.email \in Emails /\ j.total \in Nat
      BY <3>1 DEF CreditJob
    <3>3. Row("profile", j.email) \notin raced' => profile'[j.email].total = profile[j.email].total
      BY <1>1, <2>2, <3>1, <3>2 DEF GroundedProfile
    <3>4. j.total <= credits'[j.email] + 1
      BY <2>2, <3>2 DEF GroundedProfile, TypeInv, TypeOK
    <3> QED BY <2>2, <3>2, <3>3, <3>4 DEF GroundedProfile
  <2>3. CASE j.at \notin {"form", "credit"}
    BY <2>3 DEF GroundedProfile
  <2> QED BY <2>1, <2>2, <2>3
<1> QED BY <1>2, <1>3

\* The start of a request, once for all kinds.
LEMMA StartInv ==
    ASSUME IInv, NEW w \in Workers, Start(w)
    PROVE  Alone' /\ Grounded' /\ ProfilesFirst' /\ TotalsEarned' /\ ShopsAddressed'
<1> USE DEF IInv
<1>1. PICK j \in Job : Fresh(j) /\ Begin(w, j)
  BY StartKinds DEF TypeInv
<1>2. /\ job' = [job EXCEPT ![w] = j] /\ job[w] = Idle
      /\ raced' = raced \cup {row \in Loaded(j) : \E v \in Workers : row \in Loaded(job[v])}
      /\ UNCHANGED <<user, profile, credits>>
  BY <1>1 DEF Begin
<1>3. Alone'
  <2> SUFFICES ASSUME NEW u \in Workers, NEW v \in Workers, u # v
               PROVE  Loaded(job'[u]) \cap Loaded(job'[v]) \subseteq raced'
    BY DEF Alone, Loaded
  <2>1. CASE u = w
    BY <1>2, <2>1 DEF TypeInv, TypeOK
  <2>2. CASE v = w
    BY <1>2, <2>2 DEF TypeInv, TypeOK
  <2>3. CASE u # w /\ v # w
    BY <1>2, <2>3 DEF TypeInv, TypeOK, Alone
  <2> QED BY <2>1, <2>2, <2>3
<1>4. GroundedUser(j)' /\ GroundedProfile(j)'
  <2>1. GroundedUser(j)'
    <3>1. j.at # "profile"
      BY <1>1 DEF Fresh
    <3> QED BY <1>1, <1>2, <3>1 DEF Fresh, GroundedUser
  <2>2. CASE j.at = "form"
    <3>1. j.email \in Emails
      BY <2>2 DEF Job, Idle, RegisterJob, UserJob, FormJob, CreditJob
    <3>2. /\ profile[j.email] # NoProfile /\ profile[j.email] \in Profile
          /\ \/ j.copy = profile[j.email]
             \/ /\ user[j.email].role = "artisan"
                /\ \E name \in Names : j.copy = Renamed(profile[j.email], name)
      BY <1>1, <2>2, <3>1 DEF Fresh, TypeInv, TypeOK
    <3>3. j.copy.total = profile[j.email].total
      BY <3>2, Rename
    <3>4. j.copy.total <= credits[j.email]
      BY <3>1, <3>2, <3>3 DEF TotalsEarned
    <3>5. CASE j.copy = profile[j.email]
      <4>1. /\ j.copy.shop_name = NoName => j.copy.slug = NoName
            /\ j.copy.shop_name # NoName =>
                  j.copy.slug \in {OwnSlug(j.email), Slug[j.copy.shop_name]}
        BY <3>1, <3>2, <3>5 DEF ShopsAddressed, ProfilesFirst
      <4> QED BY <1>2, <2>1, <2>2, <3>2, <3>3, <3>4, <3>5, <4>1 DEF GroundedProfile
    <3>6. ASSUME user[j.email].role = "artisan", NEW name \in Names,
                 j.copy = Renamed(profile[j.email], name)
          PROVE  GroundedProfile(j)'
      <4>1. j.copy.shop_name = name /\ j.copy.slug = Slug[name] /\ name # NoName
        BY <3>2, <3>6, Rename, AccountAssumption
      <4>2. profile[j.email].shop_name # NoName
        BY <3>1, <3>2, <3>6 DEF ShopsAddressed
      <4> QED BY <1>2, <2>2, <3>2, <3>3, <3>4, <4>1, <4>2 DEF GroundedProfile
    <3> QED BY <2>1, <3>2, <3>5, <3>6
  <2>3. CASE j.at = "credit"
    <3>1. j.email \in Emails
      BY <2>3 DEF Job, Idle, RegisterJob, UserJob, FormJob, CreditJob
    <3>2. profile[j.email] # NoProfile /\ j.total = profile[j.email].total + 1
      BY <1>1, <2>3 DEF Fresh
    <3>3. /\ profile[j.email].total <= credits[j.email]
          /\ profile[j.email].total \in Nat /\ credits[j.email] \in Nat
      <4>1. profile[j.email] \in Profile /\ credits[j.email] \in Nat
        BY <3>1, <3>2 DEF TypeInv, TypeOK
      <4> QED BY <3>1, <3>2, <4>1 DEF TotalsEarned, Profile
    <3>4. j.total <= credits[j.email] + 1
      BY <3>2, <3>3
    <3> QED BY <1>2, <2>1, <2>3, <3>2, <3>4 DEF GroundedProfile
  <2>4. CASE j.at \notin {"form", "credit"}
    BY <2>1, <2>4 DEF GroundedProfile
  <2> QED BY <2>1, <2>2, <2>3, <2>4
<1>5. Grounded'
  <2> SUFFICES ASSUME NEW v \in Workers
               PROVE  GroundedUser(job[v])' /\ GroundedProfile(job[v])'
    BY DEF Grounded
  <2>1. CASE v = w
    <3>1. job'[v] = j
      BY <1>2, <2>1 DEF TypeInv, TypeOK
    <3> QED BY <1>4, <3>1
  <2>2. CASE v # w
    <3>1. job'[v] = job[v]
      BY <1>2, <2>2 DEF TypeInv, TypeOK
    <3>2. \A e \in Emails : credits'[e] \in Nat /\ credits'[e] >= credits[e]
      BY <1>2 DEF TypeInv, TypeOK
    <3> QED BY <1>2, <2>2, <3>1, <3>2, OthersStay DEF Grounded
  <2> QED BY <2>1, <2>2
<1> QED BY <1>2, <1>3, <1>5 DEF ProfilesFirst, TotalsEarned, ShopsAddressed

\* A process that ends leaves the others as they were, under the conditions of
\* OthersStay.
LEMMA EndInv ==
    ASSUME IInv, NEW w \in Workers, End(w), UNCHANGED raced,
           \A e \in Emails : user[e] # NoUser =>
               /\ user'[e] # NoUser /\ user'[e].role = user[e].role
               /\ user'[e] # user[e] => Row("user", e) \in Loaded(job[w]),
           \A e \in Emails : profile[e] # NoProfile =>
               /\ profile'[e] # NoProfile
               /\ profile'[e].shop_name = NoName <=> profile[e].shop_name = NoName
               /\ profile'[e].total # profile[e].total => Row("profile", e) \in Loaded(job[w]),
           \A e \in Emails : credits'[e] \in Nat /\ credits'[e] >= credits[e]
    PROVE  Alone' /\ Grounded'
<1> USE DEF IInv
<1>1. /\ job' = [job EXCEPT ![w] = Idle] /\ Loaded(Idle) = {} /\ Idle.at = "idle"
      /\ job \in [Workers -> Job]
  BY LoadedIs DEF End, Idle, TypeInv, TypeOK
<1>2. Alone'
  <2> SUFFICES ASSUME NEW u \in Workers, NEW v \in Workers, u # v
               PROVE  Loaded(job'[u]) \cap Loaded(job'[v]) \subseteq raced'
    BY DEF Alone, Loaded
  <2>1. (u = w => Loaded(job'[u]) = {}) /\ (u # w => Loaded(job'[u]) = Loaded(job[u]))
    BY <1>1
  <2>2. (v = w => Loaded(job'[v]) = {}) /\ (v # w => Loaded(job'[v]) = Loaded(job[v]))
    BY <1>1
  <2> QED BY <2>1, <2>2 DEF Alone
<1>3. GroundedUser(job[w])' /\ GroundedProfile(job[w])'
  BY <1>1 DEF GroundedUser, GroundedProfile
<1>4. ASSUME NEW v \in Workers \ {w} PROVE GroundedUser(job[v])' /\ GroundedProfile(job[v])'
  <2>1. job'[v] = job[v]
    BY <1>1
  <2> QED BY <2>1, OthersStay DEF Grounded
<1> QED BY <1>2, <1>3, <1>4 DEF Grounded

LEMMA InsertUserInv ==
    ASSUME IInv, NEW w \in Workers, InsertUser(w)
    PROVE  Alone' /\ Grounded' /\ ProfilesFirst' /\ TotalsEarned' /\ ShopsAddressed'
<1> USE DEF IInv
<1> DEFINE j == job[w]
<1>1. j \in RegisterJob /\ j.email \in Emails /\ j.row \in UserRow /\ j.at = "user"
  BY JobKinds DEF TypeInv, InsertUser, RegisterJob
<1>2. UNCHANGED <<profile, credits, raced>>
  BY DEF InsertUser
<1>3. ASSUME NEW e \in Emails, user[e] # NoUser PROVE user'[e] = user[e]
  BY <1>1, <1>3 DEF InsertUser, TypeInv, TypeOK
<1>4. \A e \in Emails : credits'[e] \in Nat /\ credits'[e] >= credits[e]
  BY <1>2 DEF TypeInv, TypeOK
<1>5. Alone' /\ Grounded'
  <2>1. CASE user[j.email] # NoUser
    <3>1. End(w)
      BY <2>1 DEF InsertUser
    <3> QED BY <1>2, <1>3, <1>4, <3>1, EndInv
  <2>2. CASE user[j.email] = NoUser
    <3> DEFINE k == [j EXCEPT !.at = "profile"]
    <3>1. /\ job' = [job EXCEPT ![w] = k] /\ user' = [user EXCEPT ![j.email] = j.row]
      BY <2>2 DEF InsertUser
    <3>2. /\ k.at = "profile" /\ k.email = j.email /\ k.row = j.row /\ k.shop_name = j.shop_name
      BY <1>1 DEF RegisterJob
    <3>3. user'[j.email] = j.row /\ j.row # NoUser
      BY <1>1, <3>1, Missing DEF TypeInv, TypeOK
    <3>5. job'[w] = k /\ Loaded(k) = {} /\ \A v \in Workers \ {w} : job'[v] = job[v]
      BY <3>1, <3>2, LoadedIs DEF TypeInv, TypeOK
    <3> HIDE DEF k
    <3>4. GroundedUser(job[w])' /\ GroundedProfile(job[w])'
      BY <1>1, <3>2, <3>3, <3>5 DEF Grounded, GroundedUser, GroundedProfile
    <3>6. ASSUME NEW v \in Workers \ {w} PROVE GroundedUser(job[v])' /\ GroundedProfile(job[v])'
      BY <1>2, <1>3, <1>4, <3>5, OthersStay DEF Grounded
    <3>7. Alone'
      <4> SUFFICES ASSUME NEW u \in Workers, NEW v \in Workers, u # v
                   PROVE  Loaded(job'[u]) \cap Loaded(job'[v]) \subseteq raced'
        BY DEF Alone, Loaded
      <4> QED BY <1>2, <3>5 DEF Alone
    <3> QED BY <3>4, <3>5, <3>6, <3>7 DEF Grounded
  <2> QED BY <2>1, <2>2
<1> QED BY <1>2, <1>3, <1>5 DEF ProfilesFirst, TotalsEarned, ShopsAddressed

LEMMA InsertProfileInv ==
    ASSUME IInv, NEW w \in Workers, InsertProfile(w)
    PROVE  Alone' /\ Grounded' /\ ProfilesFirst' /\ TotalsEarned' /\ ShopsAddressed'
<1> USE DEF IInv
<1> DEFINE j == job[w]
           row == Opened(j)
<1>1. j \in RegisterJob /\ j.email \in Emails /\ j.at = "profile"
  BY JobKinds DEF TypeInv, InsertProfile, RegisterJob
<1>2. /\ row \in Profile /\ row.shop_name = j.shop_name /\ row.total = 0
      /\ row.slug = IF j.shop_name = NoName THEN NoName ELSE OwnSlug(j.email)
  BY <1>1, OpenedIs
<1>3. UNCHANGED <<user, credits, raced>> /\ End(w)
  BY DEF InsertProfile
<1>4. profile' = IF profile[j.email] = NoProfile /\ Unique(j.email, row)
                 THEN [profile EXCEPT ![j.email] = row] ELSE profile
  BY DEF InsertProfile
<1>5. ASSUME NEW e \in Emails, profile[e] # NoProfile PROVE profile'[e] = profile[e]
  BY <1>1, <1>4, <1>5 DEF TypeInv, TypeOK
<1>6. Alone' /\ Grounded'
  <2>1. \A e \in Emails : credits'[e] \in Nat /\ credits'[e] >= credits[e]
    BY <1>3 DEF TypeInv, TypeOK
  <2> QED BY <1>3, <1>5, <2>1, EndInv
<1>7. CASE profile' = profile
  BY <1>3, <1>6, <1>7 DEF ProfilesFirst, TotalsEarned, ShopsAddressed
<1>8. CASE profile[j.email] = NoProfile /\ Unique(j.email, row)
  <2>1. profile' = [profile EXCEPT ![j.email] = row] /\ profile'[j.email] = row
        /\ \A e \in Emails \ {j.email} : profile'[e] = profile[e]
    BY <1>1, <1>4, <1>8 DEF TypeInv, TypeOK
  <2>2. user[j.email] # NoUser /\ (row.shop_name = NoName <=> user[j.email].role = "customer")
    BY <1>1, <1>2 DEF Grounded, GroundedUser
  <2> HIDE DEF row
  <2>3. ProfilesFirst'
    BY <1>1, <1>2, <1>3, <1>8, <2>1, Missing DEF ProfilesFirst
  <2>4. TotalsEarned'
    BY <1>1, <1>2, <1>3, <1>8, <2>1 DEF ProfilesFirst, TotalsEarned
  <2>5. ASSUME NEW x \in Emails, NEW y \in Emails, x # y,
               profile'[x] # NoProfile, profile'[y] # NoProfile, profile'[x].shop_name # NoName
        PROVE  profile'[x].slug # profile'[y].slug
    <3>4. row.shop_name # NoName =>
              \A z \in Emails \ {j.email} : profile[z] # NoProfile => profile[z].slug # row.slug
      BY <1>8 DEF Unique
    <3>1. CASE x = j.email
      <4>1. profile'[x] = row /\ profile'[y] = profile[y]
        BY <2>1, <2>5, <3>1
      <4> QED BY <2>5, <3>1, <3>4, <4>1
    <3>2. CASE y = j.email
      <4>1. profile'[x] = profile[x] /\ profile'[y] = row
        BY <2>1, <2>5, <3>2
      <4>2. profile[x].slug \in {OwnSlug(x), Slug[profile[x].shop_name]} /\ profile[x].shop_name \in Names
        BY <2>5, <4>1 DEF ShopsAddressed, TypeInv, TypeOK, Profile
      <4>3. profile[x].slug # NoName
        BY <4>2, AccountAssumption
      <4>4. row.shop_name = NoName => row.slug = NoName
        BY <1>2
      <4> QED BY <2>5, <3>2, <3>4, <4>1, <4>3, <4>4
    <3>3. CASE x # j.email /\ y # j.email
      BY <2>1, <2>5, <3>3 DEF ShopsAddressed
    <3> QED BY <3>1, <3>2, <3>3
  <2>6. ShopsAddressed'
    BY <1>2, <1>3, <2>1, <2>2, <2>5 DEF ShopsAddressed
  <2> QED BY <1>6, <2>3, <2>4, <2>6
<1> QED BY <1>4, <1>7, <1>8

LEMMA SaveUserInv ==
    ASSUME IInv, NEW w \in Workers, SaveUser(w)
    PROVE  Alone' /\ Grounded' /\ ProfilesFirst' /\ TotalsEarned' /\ ShopsAddressed'
<1> USE DEF IInv
<1> DEFINE j == job[w]
           row == [j.copy EXCEPT !.password = j.password]
<1>1. j \in UserJob /\ j.email \in Emails /\ Loaded(j) = {Row("user", j.email)}
  BY JobKinds, LoadedIs DEF TypeInv, SaveUser, UserJob, Row
<1>2. /\ user' = [user EXCEPT ![j.email] = row]
      /\ End(w) /\ UNCHANGED <<profile, credits, raced>>
  BY DEF SaveUser
<1>3. row \in UserRow /\ row.role = j.copy.role
  BY <1>1 DEF UserJob, UserRow
<1>4. row # NoUser /\ row.role = user[j.email].role
  BY <1>3, Missing DEF Grounded, GroundedUser, SaveUser
<1> HIDE DEF row
<1>5. \A e \in Emails : user[e] # NoUser =>
          /\ user'[e] # NoUser /\ user'[e].role = user[e].role
          /\ user'[e] # user[e] => Row("user", e) \in Loaded(j)
  BY <1>1, <1>2, <1>4 DEF TypeInv, TypeOK
<1>6. \A e \in Emails : credits'[e] \in Nat /\ credits'[e] >= credits[e]
  BY <1>2 DEF TypeInv, TypeOK
<1>7. Alone' /\ Grounded'
  BY <1>2, <1>5, <1>6, EndInv
<1> QED BY <1>2, <1>5, <1>7 DEF ProfilesFirst, TotalsEarned, ShopsAddressed

LEMMA SaveProfileInv ==
    ASSUME IInv, NEW w \in Workers, SaveProfile(w)
    PROVE  Alone' /\ Grounded' /\ ProfilesFirst' /\ TotalsEarned' /\ ShopsAddressed'
<1> USE DEF IInv
<1> DEFINE j == job[w]
<1>1. /\ j \in FormJob /\ j.email \in Emails /\ j.copy \in Profile
      /\ Loaded(j) = {Row("profile", j.email)} /\ j.at = "form"
  BY JobKinds, LoadedIs DEF TypeInv, SaveProfile, FormJob, Row
<1>2. /\ profile' = IF Unique(j.email, j.copy) THEN [profile EXCEPT ![j.email] = j.copy] ELSE profile
      /\ End(w) /\ UNCHANGED <<user, credits, raced>>
  BY DEF SaveProfile
<1>3. GroundedProfile(j) /\ j.copy # NoProfile
  BY <1>1, Missing DEF Grounded
<1>4. /\ profile[j.email] # NoProfile
      /\ j.copy.shop_name = NoName <=> profile[j.email].shop_name = NoName
      /\ j.copy.shop_name = NoName => j.copy.slug = NoName
      /\ j.copy.shop_name # NoName =>
            j.copy.slug \in {OwnSlug(j.email), Slug[j.copy.shop_name]}
      /\ j.copy.total <= credits[j.email]
      /\ Row("profile", j.email) \notin raced => j.copy.total = profile[j.email].total
  BY <1>1, <1>3 DEF GroundedProfile
<1>5. \A e \in Emails : profile[e] # NoProfile =>
          /\ profile'[e] # NoProfile
          /\ profile'[e].shop_name = NoName <=> profile[e].shop_name = NoName
          /\ profile'[e].total # profile[e].total => Row("profile", e) \in Loaded(j)
  BY <1>1, <1>2, <1>3, <1>4 DEF TypeInv, TypeOK
<1>6. Alone' /\ Grounded'
  <2>1. \A e \in Emails : credits'[e] \in Nat /\ credits'[e] >= credits[e]
    BY <1>2 DEF TypeInv, TypeOK
  <2> QED BY <1>2, <1>5, <2>1, EndInv
<1>7. CASE profile' = profile
  BY <1>2, <1>6, <1>7 DEF ProfilesFirst, TotalsEarned, ShopsAddressed
<1>8. CASE Unique(j.email, j.copy)
  <2>1. profile'[j.email] = j.copy /\ \A e \in Emails \ {j.email} : profile'[e] = profile[e]
    BY <1>1, <1>2, <1>8 DEF TypeInv, TypeOK
  <2>2. ProfilesFirst'
    BY <1>2, <1>3, <1>4, <2>1 DEF ProfilesFirst
  <2>3. TotalsEarned'
    BY <1>1, <1>2, <1>4, <2>1 DEF TotalsEarned, Row
  <2>4. ASSUME NEW x \in Emails, NEW y \in Emails, x # y,
               profile'[x] # NoProfile, profile'[y] # NoProfile, profile'[x].shop_name # NoName
        PROVE  profile'[x].slug # profile'[y].slug
    <3>1. j.copy.shop_name # NoName =>
              \A z \in Emails \ {j.email} : profile[z] # NoProfile => profile[z].slug # j.copy.slug
      BY <1>8 DEF Unique
    <3>2. CASE x = j.email
      <4>1. profile'[x] = j.copy /\ profile'[y] = profile[y]
        BY <2>1, <2>4, <3>2
      <4> QED BY <2>4, <3>1, <3>2, <4>1
    <3>3. CASE y = j.email
      <4>1. profile'[x] = profile[x] /\ profile'[y] = j.copy
        BY <2>1, <2>4, <3>3
      <4>2. profile[x].slug \in {OwnSlug(x), Slug[profile[x].shop_name]} /\ profile[x].shop_name \in Names
        BY <2>4, <4>1 DEF ShopsAddressed, TypeInv, TypeOK, Profile
      <4>3. profile[x].slug # NoName
        BY <4>2, AccountAssumption
      <4> QED BY <1>4, <2>4, <3>1, <3>3, <4>1, <4>3
    <3>4. CASE x # j.email /\ y # j.email
      BY <2>1, <2>4, <3>4 DEF ShopsAddressed
    <3> QED BY <3>2, <3>3, <3>4
  <2>5. ShopsAddressed'
    BY <1>2, <1>4, <2>1, <2>4 DEF ShopsAddressed
  <2> QED BY <1>6, <2>2, <2>3, <2>5
<1> QED BY <1>2, <1>7, <1>8

LEMMA CreditSaveInv ==
    ASSUME IInv, NEW w \in Workers, CreditSave(w)
    PROVE  Alone' /\ Grounded' /\ ProfilesFirst' /\ TotalsEarned' /\ ShopsAddressed'
<1> USE DEF IInv
<1> DEFINE j == job[w]
<1>1. /\ j \in CreditJob /\ j.email \in Emails /\ j.total \in Nat
      /\ Loaded(j) = {Row("profile", j.email)} /\ j.at = "credit"
  BY JobKinds, LoadedIs DEF TypeInv, CreditSave, CreditJob, Row
<1>2. /\ profile' = [profile EXCEPT ![j.email].total = j.total]
      /\ credits' = [credits EXCEPT ![j.email] = @ + 1]
      /\ End(w) /\ UNCHANGED <<user, raced>>
  BY DEF CreditSave
<1>3. /\ profile[j.email] # NoProfile
      /\ j.total <= credits[j.email] + 1
      /\ Row("profile", j.email) \notin raced => j.total = profile[j.email].total + 1
  BY <1>1 DEF Grounded, GroundedProfile
<1>4. profile[j.email] \in Profile
  BY <1>1, <1>3 DEF TypeInv, TypeOK
<1>5. /\ profile'[j.email] \in Profile /\ profile'[j.email].total = j.total
      /\ profile'[j.email].shop_name = profile[j.email].shop_name
      /\ profile'[j.email].slug = profile[j.email].slug
      /\ \A e \in Emails \ {j.email} : profile'[e] = profile[e]
  BY <1>1, <1>2, <1>4 DEF TypeInv, TypeOK, Profile
<1>6. /\ credits'[j.email] = credits[j.email] + 1 /\ credits[j.email] \in Nat
      /\ \A e \in Emails \ {j.email} : credits'[e] = credits[e] /\ credits[e] \in Nat
  BY <1>1, <1>2 DEF TypeInv, TypeOK
<1>7. \A e \in Emails : profile[e] # NoProfile =>
          /\ profile'[e] # NoProfile
          /\ profile'[e].shop_name = NoName <=> profile[e].shop_name = NoName
          /\ profile'[e].total # profile[e].total => Row("profile", e) \in Loaded(j)
  BY <1>1, <1>5, Missing
<1>8. Alone' /\ Grounded'
  <2>1. \A e \in Emails : credits'[e] \in Nat /\ credits'[e] >= credits[e]
    BY <1>6
  <2> QED BY <1>2, <1>7, <2>1, EndInv
<1>9. ProfilesFirst'
  BY <1>3, <1>5, <1>6, Missing DEF ProfilesFirst
<1>10. TotalsEarned'
  <2> SUFFICES ASSUME NEW e \in Emails, profile'[e] # NoProfile
               PROVE  /\ profile'[e].total <= credits'[e]
                      /\ Row("profile", e) \notin raced => profile'[e].total = credits'[e]
    BY <1>2 DEF TotalsEarned, Row
  <2>1. CASE e = j.email
    <3>1. Row("profile", e) \notin raced => profile[e].total = credits[e]
      BY <1>3, <2>1 DEF TotalsEarned, Row
    <3> QED BY <1>1, <1>3, <1>5, <1>6, <2>1, <3>1
  <2>2. CASE e # j.email
    BY <1>5, <1>6, <2>2 DEF TotalsEarned, Row
  <2> QED BY <2>1, <2>2
<1>11. ShopsAddressed'
  <2>1. \A e \in Emails : profile'[e] # NoProfile =>
            /\ profile[e] # NoProfile
            /\ profile'[e].shop_name = profile[e].shop_name
            /\ profile'[e].slug = profile[e].slug
    BY <1>3, <1>5
  <2> QED BY <1>2, <2>1 DEF ShopsAddressed
<1> QED BY <1>8, <1>9, <1>10, <1>11

LEMMA CrashInv ==
    ASSUME IInv, NEW w \in Workers, Crash(w)
    PROVE  Alone' /\ Grounded' /\ ProfilesFirst' /\ TotalsEarned' /\ ShopsAddressed'
<1> USE DEF IInv
<1>1. End(w) /\ UNCHANGED <<user, profile, credits, raced>>
  BY DEF Crash
<1>2. \A e \in Emails : credits'[e] \in Nat /\ credits'[e] >= credits[e]
  BY <1>1 DEF TypeInv, TypeOK
<1>3. Alone' /\ Grounded'
  BY <1>1, <1>2, EndInv
<1> QED BY <1>1, <1>3 DEF ProfilesFirst, TotalsEarned, ShopsAddressed

LEMMA NextInv == IInv /\ [Next]_vars => IInv'
<1> SUFFICES ASSUME IInv, [Next]_vars
             PROVE  Alone' /\ Grounded' /\ ProfilesFirst' /\ TotalsEarned' /\ ShopsAddressed'
  BY NextTypeInv DEF IInv
<1>1. CASE UNCHANGED vars
  BY <1>1 DEF IInv, vars, Alone, Loaded, Grounded, GroundedUser, GroundedProfile, ProfilesFirst,
              TotalsEarned, ShopsAddressed
<1> QED BY <1>1, StartInv, InsertUserInv, InsertProfileInv, SaveUserInv, SaveProfileInv,
           CreditSaveInv, CrashInv DEF Next, Continue

LEMMA InitInv == Init => IInv
<1> SUFFICES ASSUME Init PROVE IInv
  OBVIOUS
<1>1. \A w \in Workers : job[w] = Idle /\ Loaded(job[w]) = {} /\ job[w].at = "idle"
  BY LoadedIs DEF Init, Idle
<1>2. Alone /\ Grounded
  BY <1>1 DEF Alone, Grounded, GroundedUser, GroundedProfile
<1>3. ProfilesFirst /\ TotalsEarned /\ ShopsAddressed
  BY DEF Init, ProfilesFirst, TotalsEarned, ShopsAddressed
<1> QED BY <1>2, <1>3, InitTypeInv DEF IInv

\* For any addresses and processes: a total is never more than what was credited,
\* and exact unless two processes had the profile open at once.
THEOREM TotalsAreEarned == Spec => []TotalsEarned
<1>1. IInv => TotalsEarned
  BY DEF IInv
<1> QED BY InitInv, NextInv, <1>1, PTL DEF Spec

\* For any addresses and names: no two shops have one address, and a profile has
\* its user, however registrations and forms overlap.
THEOREM ShopsAreAddressed == Spec => []ShopsAddressed
<1>1. IInv => ShopsAddressed
  BY DEF IInv
<1> QED BY InitInv, NextInv, <1>1, PTL DEF Spec

\* For any addresses and processes: a password is replaced by nobody who did not
\* know it, unless two requests had the user open at once.
THEOREM PasswordsStand == Spec => PasswordStands
<1> DEFINE Step == \A e \in Emails :
                      user[e] # NoUser /\ user'[e] # user[e] =>
                         \/ <<"user", e>> \in raced
                         \/ \E w \in Workers : /\ job[w].at = "password"
                                               /\ job[w].email = e
                                               /\ job[w].copy = user[e]
<1>1. IInv /\ [Next]_vars => [Step]_vars
  <2> SUFFICES ASSUME IInv, [Next]_vars, NEW e \in Emails,
                      user[e] # NoUser, user'[e] # user[e], <<"user", e>> \notin raced
               PROVE  \E w \in Workers : /\ job[w].at = "password"
                                         /\ job[w].email = e
                                         /\ job[w].copy = user[e]
    OBVIOUS
  <2>1. ASSUME NEW w \in Workers, Start(w) PROVE UNCHANGED user
    BY <2>1, StartKinds DEF IInv, TypeInv, Begin
  <2>2. ASSUME NEW w \in Workers, InsertUser(w) PROVE user'[e] = user[e]
    <3>1. job[w].email \in Emails
      BY <2>2, JobKinds DEF IInv, TypeInv, InsertUser, RegisterJob
    <3> QED BY <2>2, <3>1 DEF IInv, TypeInv, TypeOK, InsertUser
  <2>3. PICK w \in Workers : SaveUser(w)
    BY <2>1, <2>2 DEF Next, Continue, InsertProfile, SaveProfile, CreditSave, Crash, vars
  <2>4. job[w] \in UserJob /\ job[w].at \in {"me", "password"}
    BY <2>3, JobKinds DEF IInv, TypeInv, SaveUser
  <2>5. user' = [user EXCEPT ![job[w].email] = [job[w].copy EXCEPT !.password = job[w].password]]
    BY <2>3 DEF SaveUser
  <2>6. e = job[w].email
    BY <2>4, <2>5 DEF IInv, TypeInv, TypeOK, UserJob
  <2>7. job[w].copy = user[e] /\ (job[w].at = "me" => job[w].password = job[w].copy.password)
    BY <2>4, <2>6 DEF IInv, Grounded, GroundedUser, Row
  <2>8. job[w].at # "me"
    <3> SUFFICES ASSUME job[w].at = "me" PROVE FALSE
      OBVIOUS
    <3>1. job[w].copy \in UserRow
      BY <2>4 DEF UserJob
    <3>2. [job[w].copy EXCEPT !.password = job[w].password] = job[w].copy
      BY <2>7, <3>1 DEF UserRow
    <3> QED BY <2>5, <2>6, <2>7, <3>2 DEF IInv, TypeInv, TypeOK
  <2> QED BY <2>4, <2>6, <2>7, <2>8
<1> QED BY InitInv, NextInv, <1>1, PTL DEF Spec, PasswordStands

=============================================================================
