------------------------------ MODULE Accounts ------------------------------
(***************************************************************************)
(* Users and their profiles: registration, which inserts the user and then *)
(* the profile; the user's and the profile's edit forms; a change of       *)
(* password; and the sweep of delivered orders, which credits a profile.   *)
(* Each query is a step of its own: no request runs in a transaction.  A   *)
(* form is saved with every column of the row it was loaded from.          *)
(***************************************************************************)
EXTENDS Naturals

CONSTANTS
    Spellings,   \* e-mail addresses as they are typed
    Normal,      \* normalize_email: a function on Spellings
    Passwords,
    Names,       \* shop names
    Workshop,    \* the names registration can give a shop ("<first name>'s Workshop")
    Slug,        \* slugify: a function on Names
    NoName,      \* the shop name and slug of a customer's profile
    Workers,     \* processes that serve requests or run the sweep
    Crashes,     \* whether processes are killed
    MaxCredits   \* bound: credits given to one profile

Emails == {Normal[s] : s \in Spellings}   \* addresses as they are stored

\* A shop opens with a slug of its own, made from the user's primary key.
OwnSlug(e) == <<"own", e>>
Slugs == {Slug[n] : n \in Names} \cup {OwnSlug(e) : e \in Emails}

ASSUME AccountAssumption ==
    /\ Normal \in [Spellings -> Spellings]
    /\ \A e \in Emails : Normal[e] = e
    /\ Workshop \subseteq Names
    /\ NoName \notin Names
    /\ DOMAIN Slug = Names
    /\ \A n \in Names : Slug[n] # NoName
    /\ \A e \in Emails : OwnSlug(e) # NoName
    /\ Crashes \in BOOLEAN
    /\ MaxCredits \in Nat

VARIABLES
    user,     \* the committed user of each address, or NoUser
    profile,  \* the committed profile of each user, or NoProfile
    job,      \* what each process is doing
    credits,  \* history: the credits written for each profile
    raced     \* history: the rows two processes had loaded, to save them, at once

vars == <<user, profile, job, credits, raced>>

UserRow == [role : {"customer", "artisan"}, password : Passwords]
NoUser == [role |-> "none"]
Profile == [shop_name : Names \cup {NoName}, slug : Slugs \cup {NoName}, total : Nat]
NoProfile == [shop_name |-> "none"]

Idle == [at |-> "idle"]
RegisterJob == [at : {"user", "profile"}, email : Emails, row : UserRow,
                shop_name : Workshop \cup {NoName}]
UserJob == [at : {"me", "password"}, email : Emails, copy : UserRow, password : Passwords]
FormJob == [at : {"form"}, email : Emails, copy : Profile]
CreditJob == [at : {"credit"}, email : Emails, total : Nat]
Job == {Idle} \cup RegisterJob \cup UserJob \cup FormJob \cup CreditJob

Init ==
    /\ user = [e \in Emails |-> NoUser]
    /\ profile = [e \in Emails |-> NoProfile]
    /\ job = [w \in Workers |-> Idle]
    /\ credits = [e \in Emails |-> 0]
    /\ raced = {}

\* The row a process has loaded and is going to save.
Loaded(j) ==
    CASE j.at \in {"me", "password"} -> {<<"user", j.email>>}
      [] j.at \in {"form", "credit"} -> {<<"profile", j.email>>}
      [] OTHER -> {}

Begin(w, j) ==
    /\ job[w] = Idle
    /\ job' = [job EXCEPT ![w] = j]
    /\ raced' = raced \cup {row \in Loaded(j) : \E v \in Workers : row \in Loaded(job[v])}
    /\ UNCHANGED <<user, profile, credits>>

End(w) == job' = [job EXCEPT ![w] = Idle]

-----------------------------------------------------------------------------
(* POST /auth/register/                                                    *)

\* The serializer looks for the address as it was typed; create_user stores it
\* normalized.
RegisterRead(w, s, role, password, name) ==
    /\ s \in Emails => user[s] = NoUser
    /\ name = NoName <=> role = "customer"
    /\ Begin(w, [at |-> "user", email |-> Normal[s], shop_name |-> name,
                 row |-> [role |-> role, password |-> password]])

\* The address is unique: the INSERT raises if somebody has it.
InsertUser(w) ==
    /\ job[w].at = "user"
    /\ LET j == job[w] IN
       IF user[j.email] = NoUser
       THEN /\ user' = [user EXCEPT ![j.email] = j.row]
            /\ job' = [job EXCEPT ![w].at = "profile"]
       ELSE /\ End(w)
            /\ UNCHANGED user
    /\ UNCHANGED <<profile, credits, raced>>

Bug_Unique(e, row) ==
    row.shop_name # NoName =>
        \A x \in Emails \ {e} : profile[x] # NoProfile => profile[x].shop_name # row.shop_name

\* Nobody else has the name or the slug of this profile of e (NoName is a null).
Unique(e, row) ==
    row.shop_name # NoName =>
        \A x \in Emails \ {e} :
            profile[x] # NoProfile =>
                profile[x].shop_name # row.shop_name /\ profile[x].slug # row.slug

Opened(j) ==
    [shop_name |-> j.shop_name, total |-> 0,
     slug |-> IF j.shop_name = NoName THEN NoName ELSE OwnSlug(j.email)]

\* The user is committed by now, and stays when the INSERT of the profile raises.
InsertProfile(w) ==
    /\ job[w].at = "profile"
    /\ LET j == job[w] IN
       profile' = IF profile[j.email] = NoProfile /\ Unique(j.email, Opened(j))
                  THEN [profile EXCEPT ![j.email] = Opened(j)] ELSE profile
    /\ End(w)
    /\ UNCHANGED <<user, credits, raced>>

-----------------------------------------------------------------------------
(* PATCH /auth/me/ and POST /auth/change-password/                         *)

Bug_MeRead(w, e) ==
    /\ user[e] # NoUser
    /\ \E p \in Passwords :
          Begin(w, [at |-> "me", email |-> e, copy |-> user[e], password |-> p])

\* The authentication of the request loads the user.
MeRead(w, e) ==
    /\ user[e] # NoUser
    /\ Begin(w, [at |-> "me", email |-> e, copy |-> user[e], password |-> user[e].password])

\* The request names the current password, and a new one.
PasswordRead(w, e, password) ==
    /\ user[e] # NoUser
    /\ Begin(w, [at |-> "password", email |-> e, copy |-> user[e], password |-> password])

SaveUser(w) ==
    /\ job[w].at \in {"me", "password"}
    /\ LET j == job[w] IN
       user' = [user EXCEPT ![j.email] = [j.copy EXCEPT !.password = j.password]]
    /\ End(w)
    /\ UNCHANGED <<profile, credits, raced>>

-----------------------------------------------------------------------------
(* PATCH /auth/artisan-profile/ and /auth/customer-profile/                *)

\* A form that names the shop, even by the name it has, gives it the slug of
\* the name.
Renamed(row, name) == [row EXCEPT !.shop_name = name, !.slug = Slug[name]]

FormRead(w, e) ==
    /\ profile[e] # NoProfile
    /\ Begin(w, [at |-> "form", email |-> e, copy |-> profile[e]])

\* validate_shop_name: no other shop has the name.
RenameRead(w, e, name) ==
    /\ profile[e] # NoProfile
    /\ user[e].role = "artisan"
    /\ \A x \in Emails \ {e} : profile[x] # NoProfile => profile[x].shop_name # name
    /\ Begin(w, [at |-> "form", email |-> e, copy |-> Renamed(profile[e], name)])

SaveProfile(w) ==
    /\ job[w].at = "form"
    /\ LET j == job[w] IN
       profile' = IF Unique(j.email, j.copy) THEN [profile EXCEPT ![j.email] = j.copy]
                                             ELSE profile
    /\ End(w)
    /\ UNCHANGED <<user, credits, raced>>

-----------------------------------------------------------------------------
(* auto_complete_delivered_orders                                          *)

\* total_sales of an artisan, total_orders of a customer: += in the copy.
CreditRead(w, e) ==
    /\ profile[e] # NoProfile
    /\ credits[e] < MaxCredits
    /\ Begin(w, [at |-> "credit", email |-> e, total |-> profile[e].total + 1])

Bug_CreditSave(w) ==
    /\ job[w].at = "credit"
    /\ LET j == job[w] IN
       /\ credits[j.email] < MaxCredits
       /\ profile' = [profile EXCEPT ![j.email].total = @ + j.total]
       /\ credits' = [credits EXCEPT ![j.email] = @ + 1]
    /\ End(w)
    /\ UNCHANGED <<user, raced>>

\* save(update_fields=...) writes the total and nothing else.
CreditSave(w) ==
    /\ job[w].at = "credit"
    /\ LET j == job[w] IN
       /\ credits[j.email] < MaxCredits
       /\ profile' = [profile EXCEPT ![j.email].total = j.total]
       /\ credits' = [credits EXCEPT ![j.email] = @ + 1]
    /\ End(w)
    /\ UNCHANGED <<user, raced>>

\* A process is killed between two queries.
Crash(w) ==
    /\ Crashes
    /\ job[w] # Idle
    /\ End(w)
    /\ UNCHANGED <<user, profile, credits, raced>>

-----------------------------------------------------------------------------
(* Specification                                                           *)

Start(w) ==
    \/ \E s \in Spellings, role \in {"customer", "artisan"}, p \in Passwords,
          name \in Workshop \cup {NoName} : RegisterRead(w, s, role, p, name)
    \/ \E e \in Emails :
          \/ MeRead(w, e) \/ FormRead(w, e) \/ CreditRead(w, e)
          \/ \E p \in Passwords : PasswordRead(w, e, p)
          \/ \E name \in Names : RenameRead(w, e, name)

Continue(w) ==
    InsertUser(w) \/ InsertProfile(w) \/ SaveUser(w) \/ SaveProfile(w) \/ CreditSave(w)

Next == \E w \in Workers : Start(w) \/ Continue(w) \/ Crash(w)

Spec == Init /\ [][Next]_vars

-----------------------------------------------------------------------------
(* Properties                                                              *)

\* Every variable keeps its type.
TypeOK ==
    /\ user \in [Emails -> UserRow \cup {NoUser}]
    /\ profile \in [Emails -> Profile \cup {NoProfile}]
    /\ job \in [Workers -> Job]
    /\ credits \in [Emails -> 0 .. MaxCredits]
    /\ raced \subseteq {"user", "profile"} \X Emails

\* The totals of a profile are exact as long as no form and no sweep had it open
\* at once, and never more than what was credited: a stale form takes credits
\* back, and can not invent any.
TotalsEarned ==
    \A e \in Emails : profile[e] # NoProfile =>
        /\ profile[e].total <= credits[e]
        /\ <<"profile", e>> \notin raced => profile[e].total = credits[e]

\* A shop's address is made from its name, or is the one it opened with; two
\* shops never answer to one address, and no profile is without its user,
\* whatever forms and registrations overlap.
ShopsAddressed ==
    \A e \in Emails : profile[e] # NoProfile =>
        /\ user[e] # NoUser
        /\ profile[e].shop_name = NoName <=> user[e].role = "customer"
        /\ profile[e].shop_name # NoName =>
              /\ profile[e].slug \in {OwnSlug(e), Slug[profile[e].shop_name]}
              /\ \A x \in Emails \ {e} :
                    profile[x] # NoProfile => profile[x].slug # profile[e].slug

\* A password is replaced only by a request that named the password it replaces,
\* unless two requests had the user loaded at once: the form of PATCH /auth/me/ writes the
\* password it was loaded with.
PasswordStands ==
    [][\A e \in Emails :
          user[e] # NoUser /\ user'[e] # user[e] =>
             \/ <<"user", e>> \in raced
             \/ \E w \in Workers : /\ job[w].at = "password"
                                   /\ job[w].email = e
                                   /\ job[w].copy = user[e]]_vars

\* A user has a profile once the registration is over (the comment "Create
\* associated profile").
AccountsHaveProfiles ==
    \A e \in Emails :
        user[e] # NoUser =>
            \/ profile[e] # NoProfile
            \/ \E w \in Workers : job[w].at = "profile" /\ job[w].email = e

=============================================================================
