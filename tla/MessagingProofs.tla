-------------------------- MODULE MessagingProofs --------------------------
(***************************************************************************)
(* What is proved of Messaging for any users, products and processes.  The *)
(* invariant says what a process may rely on between two of its queries:   *)
(* a conversation it has created stays empty until it adds the two users,  *)
(* the members of a conversation never change after that (JobSound), and   *)
(* two processes that are about to open the same conversation know it      *)
(* (Claims).                                                               *)
(***************************************************************************)
EXTENDS Messaging, SequenceTheorems, FiniteSetTheorems, TLAPS

\* The label of a process tells which record it holds.
LEMMA JobKinds ==
    ASSUME TypeOK, NEW w \in WebWorkers
    PROVE  /\ job[w].at \in {"create", "join", "relate"} => job[w] \in StartJob
           /\ job[w].at = "post" => job[w] \in PostJob
           /\ job[w].at \in {"mark", "show"} => job[w] \in PageJob
           /\ job[w].at = "clear" => job[w] \in ClearJob
BY DEF TypeOK, Job, Idle, StartJob, PostJob, PageJob, ClearJob

LEMMA Domains ==
    ASSUME TypeOK
    PROVE  /\ Len(conversation) \in Nat /\ Stored = 1 .. Len(conversation)
           /\ Len(message) \in Nat /\ Posted = 1 .. Len(message)
           /\ \A c \in Stored : conversation[c] \in Row /\ c \in Nat
           /\ \A m \in Posted : message[m] \in MessageRow /\ m \in Nat
BY LenProperties, ElementOfSeq DEF TypeOK, Stored, Posted

LEMMA Became ==
    ASSUME TypeOK, NEW w \in WebWorkers, NEW j, Becomes(w, j)
    PROVE  /\ \A v \in WebWorkers : job'[v] = IF v = w THEN j ELSE job[v]
           /\ j \in Job => job' \in [WebWorkers -> Job]
BY DEF TypeOK, Becomes

LEMMA MarkedRows ==
    ASSUME TypeOK, NEW S, message' = MarkedRead(S)
    PROVE  /\ message' \in Seq(MessageRow) /\ Posted' = Posted /\ Len(message') = Len(message)
           /\ \A m \in Posted :
                 /\ message'[m].conversation = message[m].conversation
                 /\ message'[m].sender = message[m].sender
                 /\ message'[m].is_read = (message[m].is_read \/ m \in S)
<1>1. ASSUME NEW m \in Posted
      PROVE  /\ [message[m] EXCEPT !.is_read = TRUE] \in MessageRow
             /\ message[m] \in MessageRow
  BY Domains DEF MessageRow
<1>2. message' \in [1 .. Len(message) -> MessageRow] /\ Len(message) \in Nat
  BY <1>1, Domains DEF MarkedRead
<1>3. message' \in Seq(MessageRow)
  BY <1>2, SeqDef
<1>4. Len(message') = Len(message) /\ DOMAIN message' = 1 .. Len(message)
  BY <1>2, <1>3, LenProperties
<1>5. \A m \in Posted : message'[m] = IF m \in S THEN [message[m] EXCEPT !.is_read = TRUE]
                                      ELSE message[m]
  BY DEF MarkedRead
<1>6. ASSUME NEW m \in Posted
      PROVE  /\ message'[m].conversation = message[m].conversation
             /\ message'[m].sender = message[m].sender
             /\ message'[m].is_read = (message[m].is_read \/ m \in S)
  <2>1. message[m] \in MessageRow
    BY <1>1
  <2>2. CASE m \in S
    BY <1>5, <2>1, <2>2 DEF MessageRow
  <2>3. CASE m \notin S
    BY <1>5, <2>1, <2>3 DEF MessageRow
  <2> QED BY <2>2, <2>3
<1> QED BY <1>3, <1>4, <1>6, Domains DEF Posted

\* One row is written.
LEMMA RowRewritten ==
    ASSUME TypeOK, NEW x, NEW row, x \in Stored => row \in Row,
           conversation' = [conversation EXCEPT ![x] = row]
    PROVE  /\ conversation' \in Seq(Row) /\ Stored' = Stored
           /\ \A c \in Stored : conversation'[c] = IF c = x THEN row ELSE conversation[c]
<1>0. /\ conversation \in Seq(Row) /\ Stored = 1 .. Len(conversation)
      /\ conversation \in [1 .. Len(conversation) -> Row]
  BY Domains, LenProperties DEF TypeOK
<1>1. CASE x \in Stored
  <2>1. /\ conversation' \in Seq(Row) /\ Len(conversation') = Len(conversation)
        /\ \A c \in 1 .. Len(conversation) :
              conversation'[c] = IF c = x THEN row ELSE conversation[c]
    BY <1>0, <1>1, ExceptSeq
  <2> QED BY <1>0, <2>1, LenProperties DEF Stored
<1>2. CASE x \notin Stored
  <2>1. conversation' = conversation
    BY <1>0, <1>2
  <2> QED BY <1>0, <1>2, <2>1 DEF Stored
<1> QED BY <1>1, <1>2

LEMMA RowAppended ==
    ASSUME TypeOK, NEW row \in Row, conversation' = Append(conversation, row)
    PROVE  /\ conversation' \in Seq(Row) /\ Stored' = Stored \cup {Len(conversation) + 1}
           /\ Len(conversation) + 1 \notin Stored
           /\ conversation'[Len(conversation) + 1] = row
           /\ \A c \in Stored : conversation'[c] = conversation[c]
<1>0. conversation \in Seq(Row) /\ Stored = 1 .. Len(conversation) /\ Len(conversation) \in Nat
  BY Domains DEF TypeOK
<1>1. conversation' \in Seq(Row) /\ Len(conversation') = Len(conversation) + 1
  BY <1>0, AppendProperties
<1> QED BY <1>0, <1>1, AppendProperties, LenProperties DEF Stored

LEMMA MessageAppended ==
    ASSUME TypeOK, NEW row \in MessageRow, message' = Append(message, row)
    PROVE  /\ message' \in Seq(MessageRow) /\ Posted' = Posted \cup {Len(message) + 1}
           /\ Len(message) + 1 \notin Posted
           /\ message'[Len(message) + 1] = row
           /\ \A m \in Posted : message'[m] = message[m]
<1>0. message \in Seq(MessageRow) /\ Posted = 1 .. Len(message) /\ Len(message) \in Nat
  BY Domains DEF TypeOK
<1>1. message' \in Seq(MessageRow) /\ Len(message') = Len(message) + 1
  BY <1>0, AppendProperties
<1> QED BY <1>0, <1>1, AppendProperties, LenProperties DEF Posted

\* The rows the requests write.
LEMMA RowsWritten ==
    ASSUME TypeOK, NEW c \in Stored, NEW S \in SUBSET Users, NEW p \in Products \cup {NoProduct}
    PROVE  /\ [conversation[c] EXCEPT !.members = S] \in Row
           /\ [conversation[c] EXCEPT !.members = S].members = S
           /\ [conversation[c] EXCEPT !.members = S].product = conversation[c].product
           /\ [conversation[c] EXCEPT !.product = p] \in Row
           /\ [conversation[c] EXCEPT !.product = p].members = conversation[c].members
           /\ [conversation[c] EXCEPT !.product = p].product = p
           /\ [conversation[c] EXCEPT !.archived = TRUE] \in Row
           /\ [conversation[c] EXCEPT !.archived = TRUE].members = conversation[c].members
           /\ [conversation[c] EXCEPT !.archived = TRUE].product = conversation[c].product
<1>1. conversation[c] \in Row
  BY Domains
<1> QED BY <1>1 DEF Row

LEMMA InitTypeOK == Init => TypeOK
BY EmptySeq DEF Init, TypeOK, Job

LEMMA NextTypeOK == TypeOK /\ [Next]_vars => TypeOK'
<1> SUFFICES ASSUME TypeOK, [Next]_vars PROVE TypeOK'
  OBVIOUS
<1>0. /\ Idle \in Job /\ Len(conversation) \in Nat /\ Len(message) \in Nat
      /\ conversation \in Seq(Row) /\ message \in Seq(MessageRow)
      /\ job \in [WebWorkers -> Job]
      /\ shown \subseteq Nat /\ excused \subseteq Nat /\ raced \subseteq SUBSET Users
  BY Domains DEF Job, TypeOK
<1>1. ASSUME NEW w \in WebWorkers, NEW j \in Job, Becomes(w, j)
      PROVE  job' \in [WebWorkers -> Job]
  BY <1>1, Became
<1>2. ASSUME NEW w \in WebWorkers, NEW u \in Users, NEW v \in Users,
             NEW p \in Products \cup {NoProduct}, StartRead(w, u, v, p)
      PROVE  TypeOK'
  <2>1. Creation(u, v, p) \in Job
    BY DEF Creation, Job, StartJob
  <2>2. \A c \in Stored : PostOf(c, u) \in Job
    BY Domains DEF PostOf, Job, PostJob
  <2>3. job' \in [WebWorkers -> Job]
    BY <1>1, <1>2, <2>1, <2>2 DEF StartRead, Existing
  <2>4. raced' \subseteq SUBSET Users
    BY <1>0, <1>2 DEF StartRead
  <2> QED BY <1>0, <1>2, <2>3, <2>4 DEF TypeOK, StartRead
<1>3. ASSUME NEW w \in WebWorkers, NEW u \in Users, NEW c \in Stored,
             SendRead(w, u, c) \/ OpenRead(w, u, c) \/ ClearRead(w, u, c)
      PROVE  TypeOK'
  <2>1. PostOf(c, u) \in Job
    BY Domains DEF PostOf, Job, PostJob
  <2>2. [at |-> "mark", conversation |-> c, user |-> u, page |-> In(c)] \in Job
    BY Domains DEF Job, PageJob, In
  <2>3. [at |-> "clear", conversation |-> c, user |-> u] \in Job
    BY Domains DEF Job, ClearJob
  <2>4. job' \in [WebWorkers -> Job]
    BY <1>1, <1>3, <2>1, <2>2, <2>3 DEF SendRead, OpenRead, ClearRead
  <2> QED BY <1>0, <1>3, <2>4 DEF TypeOK, SendRead, OpenRead, ClearRead
<1>4. ASSUME NEW w \in WebWorkers, NEW u \in Users, NEW c \in Stored, Archive(w, u, c)
      PROVE  TypeOK'
  <2>1. [conversation[c] EXCEPT !.archived = TRUE] \in Row
    BY RowsWritten
  <2>2. conversation' = [conversation EXCEPT ![c] = [conversation[c] EXCEPT !.archived = TRUE]]
    BY <1>4 DEF Archive
  <2>3. conversation' \in Seq(Row)
    BY <2>1, <2>2, RowRewritten
  <2> QED BY <1>0, <1>4, <2>3 DEF TypeOK, Archive
<1>5. ASSUME NEW w \in WebWorkers, CreateConversation(w) PROVE TypeOK'
  <2>0. job[w] \in StartJob
    BY <1>5, JobKinds DEF CreateConversation
  <2>1. [job[w] EXCEPT !.at = "join", !.conversation = Len(conversation) + 1] \in Job
    <3> DEFINE n == Len(conversation) + 1
    <3>1. n \in Nat
      BY <1>0
    <3> HIDE DEF n
    <3>2. [job[w] EXCEPT !.at = "join", !.conversation = n] \in StartJob
      BY <2>0, <3>1 DEF StartJob
    <3> QED BY <3>2 DEF Job, n
  <2>2. [members |-> {}, product |-> NoProduct, archived |-> FALSE] \in Row
    BY DEF Row
  <2>3. conversation' \in Seq(Row)
    BY <1>5, <2>2, RowAppended DEF CreateConversation
  <2>4. job' \in [WebWorkers -> Job]
    BY <1>1, <1>5, <2>1 DEF CreateConversation
  <2> QED BY <1>0, <1>5, <2>3, <2>4 DEF TypeOK, CreateConversation
<1>6. ASSUME NEW w \in WebWorkers, AddParticipants(w) \/ RelateProduct(w) PROVE TypeOK'
  <2>1. job[w] \in StartJob
    BY <1>6, JobKinds DEF AddParticipants, RelateProduct
  <2>2. /\ PostOf(job[w].conversation, job[w].sender) \in Job
        /\ [job[w] EXCEPT !.at = "relate"] \in Job
    BY <2>1 DEF PostOf, Job, PostJob, StartJob
  <2>3. job' \in [WebWorkers -> Job]
    BY <1>1, <1>6, <2>2 DEF AddParticipants, RelateProduct
  <2> DEFINE x == job[w].conversation
  <2>4. ASSUME AddParticipants(w) PROVE conversation' \in Seq(Row)
    <3> DEFINE row == [conversation[x] EXCEPT !.members = {job[w].sender, job[w].recipient}]
    <3>0. {job[w].sender, job[w].recipient} \in SUBSET Users
      BY <2>1 DEF StartJob
    <3>1. x \in Stored => row \in Row
      BY <3>0, RowsWritten
    <3>2. conversation' = [conversation EXCEPT ![x] = row]
      BY <2>4 DEF AddParticipants
    <3> HIDE DEF row, x
    <3> QED BY <3>1, <3>2, RowRewritten
  <2>5. ASSUME RelateProduct(w), conversation' # conversation PROVE conversation' \in Seq(Row)
    <3> DEFINE row == [conversation[x] EXCEPT !.product = job[w].product]
    <3>1. x \in Stored => row \in Row
      BY <2>1, RowsWritten DEF StartJob
    <3>2. conversation' = [conversation EXCEPT ![x] = row]
      BY <2>5 DEF RelateProduct
    <3> HIDE DEF row, x
    <3> QED BY <3>1, <3>2, RowRewritten
  <2>6. conversation' \in Seq(Row)
    BY <1>0, <1>6, <2>4, <2>5
  <2> QED BY <1>0, <1>6, <2>3, <2>6 DEF TypeOK, AddParticipants, RelateProduct
<1>7. ASSUME NEW w \in WebWorkers, InsertMessage(w) PROVE TypeOK'
  <2>1. job[w] \in PostJob
    BY <1>7, JobKinds DEF InsertMessage
  <2>2. [conversation |-> job[w].conversation, sender |-> job[w].sender, is_read |-> FALSE]
           \in MessageRow
    BY <2>1 DEF PostJob, MessageRow
  <2>3. message' \in Seq(MessageRow)
    BY <1>7, <2>2, MessageAppended DEF InsertMessage
  <2>4. excused' \subseteq Nat
    <3>1. excused' \in {excused, excused \cup {Len(message) + 1}}
      BY <1>7 DEF InsertMessage
    <3> QED BY <1>0, <3>1
  <2>5. job' \in [WebWorkers -> Job]
    BY <1>0, <1>1, <1>7 DEF InsertMessage
  <2> QED BY <1>0, <1>7, <2>3, <2>4, <2>5 DEF TypeOK, InsertMessage
<1>8. ASSUME NEW w \in WebWorkers, MarkPage(w) PROVE TypeOK'
  <2>1. [job[w] EXCEPT !.at = "show"] \in Job
    <3>1. job[w] \in PageJob
      BY <1>8, JobKinds DEF MarkPage
    <3> QED BY <3>1 DEF PageJob, Job
  <2>2. job' \in [WebWorkers -> Job]
    BY <1>1, <1>8, <2>1 DEF MarkPage, At
  <2> QED BY <1>0, <1>8, <2>2, MarkedRows DEF TypeOK, MarkPage
<1>9. ASSUME NEW w \in WebWorkers, ShowPage(w) PROVE TypeOK'
  <2>1. job[w].page \subseteq Nat
    BY <1>9, JobKinds DEF ShowPage, PageJob
  <2>2. job' \in [WebWorkers -> Job]
    BY <1>0, <1>1, <1>9 DEF ShowPage
  <2> QED BY <1>0, <1>9, <2>1, <2>2 DEF TypeOK, ShowPage
<1>10. ASSUME NEW w \in WebWorkers, ClearUnread(w) PROVE TypeOK'
  <2>1. Unread(job[w].user, job[w].conversation) \subseteq Nat
    BY Domains DEF Unread, In
  <2>2. job' \in [WebWorkers -> Job]
    BY <1>0, <1>1, <1>10 DEF ClearUnread
  <2> QED BY <1>0, <1>10, <2>1, <2>2, MarkedRows DEF TypeOK, ClearUnread
<1>11. ASSUME NEW w \in WebWorkers, Crash(w) PROVE TypeOK'
  <2>1. excused' \subseteq Nat
    BY <1>0, <1>11, JobKinds DEF Crash, PageJob
  <2>2. job' \in [WebWorkers -> Job]
    BY <1>0, <1>1, <1>11 DEF Crash
  <2> QED BY <1>0, <1>11, <2>1, <2>2 DEF TypeOK, Crash
<1>12. CASE UNCHANGED vars
  BY <1>0, <1>12 DEF vars, TypeOK
<1> QED BY <1>2, <1>3, <1>4, <1>5, <1>6, <1>7, <1>8, <1>9, <1>10, <1>11, <1>12
        DEF Next, Begin, Continue

\* For any users, products and processes, every variable keeps its type.
THEOREM TypeCorrect == Spec => []TypeOK
BY InitTypeOK, NextTypeOK, PTL DEF Spec

-----------------------------------------------------------------------------
(* The invariant                                                             *)

Starts(j) == j.at \in {"create", "join", "relate"}
Pair(j) == {j.sender, j.recipient}

\* What a process relies on between two of its queries.
JobSound(w) ==
    LET j == job[w]
        c == job[w].conversation IN
    /\ Starts(j) => j.sender # j.recipient
    /\ j.at = "join" =>
          /\ c \in Stored
          /\ conversation[c].members = {} /\ conversation[c].product = NoProduct
          /\ \A v \in WebWorkers : job[v].at = "join" /\ job[v].conversation = c => v = w
    /\ j.at = "relate" => c \in Stored /\ conversation[c].members = Pair(j)
    /\ j.at = "post" => c \in Stored /\ j.sender \in conversation[c].members
    /\ j.at \in {"mark", "show", "clear"} => c \in Stored /\ j.user \in conversation[c].members
    /\ j.at = "mark" => In(c) \subseteq j.page \cup excused

MembersSound ==
    \A c \in Stored :
        \/ conversation[c].members = {} /\ conversation[c].product = NoProduct
        \/ \E u, v \in Users : u # v /\ conversation[c].members = {u, v}

MessagesSound ==
    \A m \in Posted :
        /\ message[m].conversation \in Stored
        /\ message[m].sender \in conversation[message[m].conversation].members

ReadSound ==
    \A m \in Posted :
        message[m].is_read =>
            \/ m \in shown \cup excused
            \/ \E w \in WebWorkers :
                  job[w].at = "show" /\ m \in job[w].page /\ message[m].sender # job[w].user

\* Who will have opened the same conversation as someone else knows that they race.
Claims ==
    /\ OnePerProduct
    /\ \A c \in Stored, w \in WebWorkers :
          (/\ Starts(job[w]) /\ job[w].product # NoProduct
           /\ conversation[c].product = job[w].product
           /\ conversation[c].members = Pair(job[w]))
          => Pair(job[w]) \in raced
    /\ \A v, w \in WebWorkers :
          (/\ v # w /\ Starts(job[v]) /\ Starts(job[w])
           /\ Pair(job[v]) = Pair(job[w]))
          => Pair(job[w]) \in raced

IInv ==
    /\ TypeOK /\ MembersSound /\ MessagesSound /\ ReadSound /\ Claims
    /\ \A w \in WebWorkers : JobSound(w)

LEMMA InitInv == Init => IInv
<1> SUFFICES ASSUME Init PROVE IInv
  OBVIOUS
<1>1. TypeOK /\ Stored = {} /\ Posted = {}
  BY InitTypeOK DEF Init, Stored, Posted
<1>2. \A w \in WebWorkers : job[w].at = "idle"
  BY DEF Init, Idle
<1> QED BY <1>1, <1>2
        DEF IInv, MembersSound, MessagesSound, ReadSound, Claims, OnePerProduct, JobSound, Starts

\* A process goes on, and no row is written.
LEMMA WebStep ==
    ASSUME IInv, TypeOK', NEW w \in WebWorkers, NEW j, Becomes(w, j),
           UNCHANGED <<conversation, message>>,
           shown \subseteq shown', excused \subseteq excused', raced \subseteq raced',
           job[w].at = "show" =>
              \A m \in Posted : m \in job[w].page /\ message[m].sender # job[w].user
                                   => m \in shown' \cup excused',
           j.at \in {"idle", "create", "post", "mark", "clear"},
           j.at = "create" =>
              /\ j.sender # j.recipient
              /\ Existing(j.sender, j.recipient, j.product) = {}
              /\ Starting(j.sender, j.recipient) # {} => Pair(j) \in raced',
           j.at = "post" =>
              /\ j.conversation \in Stored
              /\ j.sender \in conversation[j.conversation].members,
           j.at \in {"mark", "clear"} =>
              /\ j.conversation \in Stored
              /\ j.user \in conversation[j.conversation].members,
           j.at = "mark" => j.page = In(j.conversation)
    PROVE  IInv'
<1>0. /\ TypeOK /\ MembersSound /\ MessagesSound /\ ReadSound /\ Claims
      /\ \A v \in WebWorkers : JobSound(v)
      /\ conversation' = conversation /\ message' = message
      /\ Stored' = Stored /\ Posted' = Posted
      /\ \A v \in WebWorkers : job'[v] = IF v = w THEN j ELSE job[v]
  BY Became DEF IInv, Stored, Posted
<1>1. MembersSound' /\ MessagesSound'
  BY <1>0 DEF MembersSound, MessagesSound
<1>2. ReadSound'
  <2> SUFFICES ASSUME NEW m \in Posted, message[m].is_read, m \notin shown' \cup excused'
               PROVE  \E v \in WebWorkers :
                         /\ job'[v].at = "show" /\ m \in job'[v].page
                         /\ message[m].sender # job'[v].user
    BY <1>0 DEF ReadSound
  <2>1. PICK v \in WebWorkers :
           job[v].at = "show" /\ m \in job[v].page /\ message[m].sender # job[v].user
    BY <1>0 DEF ReadSound
  <2>2. v # w
    BY <2>1
  <2> QED BY <1>0, <2>1, <2>2
<1>3. ASSUME NEW v \in WebWorkers PROVE JobSound(v)'
  <2>1. \A c : In(c)' = In(c)
    BY <1>0 DEF In
  <2>2. CASE v = w
    BY <1>0, <2>1, <2>2 DEF JobSound, Starts
  <2>3. CASE v # w
    <3>1. job'[v] = job[v] /\ JobSound(v)
      BY <1>0, <2>3
    <3> QED BY <1>0, <2>1, <3>1 DEF JobSound
  <2> QED BY <2>2, <2>3
<1>4. Claims'
  <2>1. OnePerProduct'
    BY <1>0 DEF Claims, OnePerProduct
  <2>2. ASSUME NEW c \in Stored, NEW v \in WebWorkers,
               Starts(job'[v]), job'[v].product # NoProduct,
               conversation[c].product = job'[v].product,
               conversation[c].members = Pair(job'[v])
        PROVE  Pair(job'[v]) \in raced'
    <3>1. CASE v = w
      <4>1. c \in Existing(j.sender, j.recipient, j.product)
        BY <1>0, <2>2, <3>1 DEF Existing, Pair
      <4> QED BY <1>0, <2>2, <3>1, <4>1 DEF Starts
    <3>2. CASE v # w
      BY <1>0, <2>2, <3>2 DEF Claims
    <3> QED BY <3>1, <3>2
  <2>3. ASSUME NEW u \in WebWorkers, NEW v \in WebWorkers, u # v,
               Starts(job'[u]), Starts(job'[v]), Pair(job'[u]) = Pair(job'[v])
        PROVE  Pair(job'[v]) \in raced'
    <3>1. CASE u # w /\ v # w
      BY <1>0, <2>3, <3>1 DEF Claims
    <3>2. ASSUME NEW x \in WebWorkers, x # w, Starts(job'[x]), Starts(job'[w]),
                 Pair(job'[x]) = Pair(job'[w])
          PROVE  Pair(job'[w]) \in raced'
      <4>1. job'[x] = job[x] /\ job'[w] = j
        BY <1>0, <3>2
      <4>2. x \in Starting(j.sender, j.recipient)
        BY <3>2, <4>1 DEF Starting, Pair, Starts
      <4> QED BY <3>2, <4>1, <4>2 DEF Starts
    <3> QED BY <2>3, <3>1, <3>2
  <2> QED BY <1>0, <2>1, <2>2, <2>3 DEF Claims
<1> QED BY <1>1, <1>2, <1>3, <1>4 DEF IInv

\* A process goes on with the conversation it has opened.
LEMMA RowStep ==
    ASSUME IInv, TypeOK', NEW w \in WebWorkers, NEW j, Becomes(w, j), Starts(job[w]),
           UNCHANGED <<message, shown, excused, raced>>,
           Stored \subseteq Stored',
           \A c \in Stored : c # j.conversation => conversation'[c] = conversation[c],
           Stored' \subseteq Stored \cup {j.conversation},
           j.conversation \in Stored',
           j.at = "join" => j.conversation \notin Stored,
           j.conversation \in Stored =>
              \/ conversation[j.conversation].members = {} /\ job[w].at = "join"
              \/ conversation'[j.conversation].members = conversation[j.conversation].members,
           j.conversation \in Stored => j.conversation = job[w].conversation,
           \/ conversation'[j.conversation].members = {} /\ j.at = "join"
           \/ conversation'[j.conversation].members = Pair(job[w]) /\ j.at \in {"relate", "post"},
           conversation'[j.conversation].product # NoProduct =>
              \/ conversation'[j.conversation].product = job[w].product
              \/ /\ j.conversation \in Stored /\ job[w].at = "relate"
                 /\ conversation'[j.conversation].product = conversation[j.conversation].product,
           Starts(j) => conversation'[j.conversation].product = NoProduct,
           Starts(j) => Pair(j) = Pair(job[w]) /\ j.product = job[w].product
                           /\ j.sender # j.recipient,
           j.at = "post" => j.sender = job[w].sender
    PROVE  IInv'
<1> DEFINE d == j.conversation
<1>0. /\ TypeOK /\ MembersSound /\ MessagesSound /\ ReadSound /\ Claims
      /\ \A v \in WebWorkers : JobSound(v)
      /\ message' = message /\ Posted' = Posted /\ shown' = shown /\ excused' = excused
      /\ raced' = raced
      /\ \A v \in WebWorkers : job'[v] = IF v = w THEN j ELSE job[v]
      /\ job[w].sender \in Users /\ job[w].recipient \in Users
      /\ job[w].sender # job[w].recipient
      /\ j.at \in {"join", "relate", "post"}
  BY Became, JobKinds DEF IInv, Posted, Starts, StartJob, JobSound
\* Nobody else is at work in a conversation without members.
<1>a. ASSUME NEW c \in Stored, conversation[c].members # {}
      PROVE  conversation'[c].members = conversation[c].members
  BY <1>0, <1>a DEF JobSound
<1>1. MembersSound'
  <2> SUFFICES ASSUME NEW c \in Stored'
               PROVE  \/ conversation'[c].members = {} /\ conversation'[c].product = NoProduct
                      \/ \E u, v \in Users : u # v /\ conversation'[c].members = {u, v}
    BY DEF MembersSound
  <2>1. CASE c # d
    BY <1>0, <2>1 DEF MembersSound
  <2>2. CASE c = d
    BY <1>0, <2>2 DEF Starts, Pair
  <2> QED BY <2>1, <2>2
<1>2. MessagesSound'
  <2> SUFFICES ASSUME NEW m \in Posted
               PROVE  /\ message[m].conversation \in Stored'
                      /\ message[m].sender \in conversation'[message[m].conversation].members
    BY <1>0 DEF MessagesSound
  <2>1. /\ message[m].conversation \in Stored
        /\ message[m].sender \in conversation[message[m].conversation].members
    BY <1>0 DEF MessagesSound
  <2> QED BY <1>a, <2>1
<1>3. ReadSound'
  <2> SUFFICES ASSUME NEW m \in Posted, message[m].is_read, m \notin shown \cup excused
               PROVE  \E v \in WebWorkers :
                         /\ job'[v].at = "show" /\ m \in job'[v].page
                         /\ message[m].sender # job'[v].user
    BY <1>0 DEF ReadSound
  <2>1. PICK v \in WebWorkers :
           job[v].at = "show" /\ m \in job[v].page /\ message[m].sender # job[v].user
    BY <1>0 DEF ReadSound
  <2>2. v # w
    BY <2>1 DEF Starts
  <2> QED BY <1>0, <2>1, <2>2
<1>4. ASSUME NEW v \in WebWorkers PROVE JobSound(v)'
  <2>1. \A c : In(c)' = In(c)
    BY <1>0 DEF In
  <2>2. CASE v = w
    <3>1. j.at = "join" => \A u \in WebWorkers : job'[u].at = "join" /\ job'[u].conversation = d
                              => u = w
      BY <1>0 DEF JobSound
    <3> QED BY <1>0, <2>2, <3>1 DEF JobSound, Starts, Pair
  <2>3. CASE v # w
    <3>1. job'[v] = job[v] /\ JobSound(v)
      BY <1>0, <2>3
    <3>2. ASSUME job[v].at = "join"
          PROVE  /\ job[v].conversation \in Stored /\ job[v].conversation # d
                 /\ conversation'[job[v].conversation] = conversation[job[v].conversation]
      <4>1. job[v].conversation \in Stored /\ conversation[job[v].conversation].members = {}
        BY <3>1, <3>2 DEF JobSound
      <4>2. job[v].conversation # d
        <5> SUFFICES ASSUME job[v].conversation = d PROVE FALSE
          OBVIOUS
        <5>1. d \in Stored /\ d = job[w].conversation /\ j.at # "join"
          BY <4>1
        <5>2. conversation'[d].members = Pair(job[w])
          BY <1>0, <5>1
        <5>3. Pair(job[w]) # {}
          BY DEF Pair
        <5>4. job[w].at = "join"
          BY <4>1, <5>1, <5>2, <5>3
        <5> QED BY <1>0, <2>3, <3>2, <5>1, <5>4 DEF JobSound
      <4> QED BY <4>1, <4>2
    <3>3. /\ job[v].at = "relate" => conversation[job[v].conversation].members # {}
          /\ job[v].at \in {"relate", "post", "mark", "show", "clear"} =>
                /\ job[v].conversation \in Stored
                /\ conversation'[job[v].conversation].members
                      = conversation[job[v].conversation].members
      BY <1>a, <3>1 DEF JobSound, Pair
    <3>4. job[v].at = "join" =>
             \A u \in WebWorkers : job'[u].at = "join" /\ job'[u].conversation = job[v].conversation
                => u = v
      BY <1>0, <3>1, <3>2 DEF JobSound
    <3> QED BY <1>0, <2>1, <3>1, <3>2, <3>3, <3>4 DEF JobSound
  <2> QED BY <2>2, <2>3
\* A row that can be taken for another had the same product and members before,
\* or is the one that is written.
<1>b. ASSUME NEW c \in Stored', conversation'[c].product # NoProduct,
             conversation'[c].members # {}
      PROVE  \/ /\ c \in Stored
                /\ conversation'[c].product = conversation[c].product
                /\ conversation'[c].members = conversation[c].members
             \/ /\ c = d
                /\ conversation'[c].product = job[w].product
                /\ conversation'[c].members = Pair(job[w])
  <2>1. CASE c # d
    BY <1>b, <2>1
  <2>2. CASE c = d
    <3>1. conversation'[d].members = Pair(job[w])
      BY <1>b, <2>2
    <3>2. CASE conversation'[d].product = job[w].product
      BY <2>2, <3>1, <3>2
    <3>3. CASE /\ d \in Stored /\ job[w].at = "relate"
               /\ conversation'[d].product = conversation[d].product
      <4>1. conversation'[d].members = conversation[d].members
        BY <3>3
      <4> QED BY <2>2, <3>3, <4>1
    <3> QED BY <1>b, <2>2, <3>2, <3>3
  <2> QED BY <2>1, <2>2
<1>5. Claims'
  <2>1. OnePerProduct'
    <3> SUFFICES ASSUME NEW c \in Stored', NEW e \in Stored', c # e,
                        conversation'[c].product = conversation'[e].product,
                        conversation'[c].product # NoProduct,
                        conversation'[c].members = conversation'[e].members
                 PROVE  conversation'[c].members \in raced
      BY <1>0 DEF OnePerProduct
    <3>1. CASE conversation'[c].members = {}
      BY <3>1, <1>1 DEF MembersSound
    <3>2. ASSUME NEW x \in Stored, conversation'[d].members # {}, x # d,
                 conversation[x].product = conversation'[d].product,
                 conversation'[d].product = job[w].product, job[w].product # NoProduct,
                 conversation[x].members = Pair(job[w])
          PROVE  Pair(job[w]) \in raced
      BY <1>0, <3>2 DEF Claims
    <3>3. CASE conversation'[c].members # {}
      <4>1. CASE /\ c \in Stored /\ e \in Stored
                 /\ conversation'[c].product = conversation[c].product
                 /\ conversation'[c].members = conversation[c].members
                 /\ conversation'[e].product = conversation[e].product
                 /\ conversation'[e].members = conversation[e].members
        BY <1>0, <4>1 DEF Claims, OnePerProduct
      <4>2. CASE /\ c = d /\ e \in Stored
                 /\ conversation'[d].product = job[w].product
                 /\ conversation'[d].members = Pair(job[w])
                 /\ conversation'[e].product = conversation[e].product
                 /\ conversation'[e].members = conversation[e].members
        BY <3>2, <3>3, <4>2
      <4>3. CASE /\ e = d /\ c \in Stored
                 /\ conversation'[d].product = job[w].product
                 /\ conversation'[d].members = Pair(job[w])
                 /\ conversation'[c].product = conversation[c].product
                 /\ conversation'[c].members = conversation[c].members
        BY <3>2, <3>3, <4>3
      <4>4. \/ /\ c \in Stored
               /\ conversation'[c].product = conversation[c].product
               /\ conversation'[c].members = conversation[c].members
            \/ /\ c = d
               /\ conversation'[c].product = job[w].product
               /\ conversation'[c].members = Pair(job[w])
        BY <1>b, <3>3
      <4>5. \/ /\ e \in Stored
               /\ conversation'[e].product = conversation[e].product
               /\ conversation'[e].members = conversation[e].members
            \/ /\ e = d
               /\ conversation'[e].product = job[w].product
               /\ conversation'[e].members = Pair(job[w])
        BY <1>b, <3>3
      <4> HIDE DEF d
      <4> QED BY <4>1, <4>2, <4>3, <4>4, <4>5
    <3> QED BY <3>1, <3>3
  <2>2. ASSUME NEW c \in Stored', NEW v \in WebWorkers,
               Starts(job'[v]), job'[v].product # NoProduct,
               conversation'[c].product = job'[v].product,
               conversation'[c].members = Pair(job'[v])
        PROVE  Pair(job'[v]) \in raced
    <3>0. /\ Starts(job[v]) /\ job'[v].product = job[v].product
          /\ Pair(job'[v]) = Pair(job[v])
      BY <1>0, <2>2
    <3>1. conversation'[c].members # {}
      BY <2>2 DEF Pair
    <3>2. CASE /\ c \in Stored
               /\ conversation'[c].product = conversation[c].product
               /\ conversation'[c].members = conversation[c].members
      BY <1>0, <2>2, <3>0, <3>2 DEF Claims
    <3>3. CASE /\ c = d
               /\ conversation'[d].product = job[w].product
               /\ conversation'[d].members = Pair(job[w])
      <4>1. v # w
        BY <1>0, <2>2, <3>3
      <4> QED BY <1>0, <2>2, <3>0, <3>3, <4>1 DEF Claims
    <3> QED BY <1>b, <2>2, <3>1, <3>2, <3>3
  <2>3. ASSUME NEW u \in WebWorkers, NEW v \in WebWorkers, u # v,
               Starts(job'[u]), Starts(job'[v]), Pair(job'[u]) = Pair(job'[v])
        PROVE  Pair(job'[v]) \in raced
    <3>1. /\ Starts(job[u]) /\ Starts(job[v])
          /\ Pair(job'[u]) = Pair(job[u]) /\ Pair(job'[v]) = Pair(job[v])
      BY <1>0, <2>3
    <3> QED BY <1>0, <2>3, <3>1 DEF Claims
  <2> QED BY <1>0, <2>1, <2>2, <2>3 DEF Claims
<1> QED BY <1>1, <1>2, <1>3, <1>4, <1>5 DEF IInv

\* A process is done with a query on the messages.
LEMMA MessageStep ==
    ASSUME IInv, TypeOK', NEW w \in WebWorkers, NEW j, Becomes(w, j),
           UNCHANGED <<conversation, shown, raced>>, excused \subseteq excused',
           job[w].at # "show", j.at \in {"idle", "show"},
           j.at = "show" =>
              /\ j.conversation \in Stored
              /\ j.user \in conversation[j.conversation].members,
           \A m \in Posted' :
              \/ /\ m \in Posted
                 /\ message'[m].conversation = message[m].conversation
                 /\ message'[m].sender = message[m].sender
              \/ /\ job[w].at = "post"
                 /\ message'[m].conversation = job[w].conversation
                 /\ message'[m].sender = job[w].sender
                 /\ \/ m \in excused'
                    \/ \A v \in WebWorkers :
                          ~(job[v].at = "mark" /\ job[v].conversation = job[w].conversation),
           \A m \in Posted' :
              message'[m].is_read =>
                 \/ m \in Posted /\ message[m].is_read /\ message'[m].sender = message[m].sender
                 \/ m \in excused'
                 \/ j.at = "show" /\ m \in j.page /\ message'[m].sender # j.user
    PROVE  IInv'
<1>0. /\ TypeOK /\ MembersSound /\ MessagesSound /\ ReadSound /\ Claims
      /\ \A v \in WebWorkers : JobSound(v)
      /\ conversation' = conversation /\ Stored' = Stored /\ shown' = shown /\ raced' = raced
      /\ \A v \in WebWorkers : job'[v] = IF v = w THEN j ELSE job[v]
      /\ ~Starts(j)
  BY Became DEF IInv, Stored, Starts
<1>1. MembersSound'
  BY <1>0 DEF MembersSound
<1>2. MessagesSound'
  BY <1>0 DEF MessagesSound, JobSound
<1>3. ReadSound'
  <2> SUFFICES ASSUME NEW m \in Posted', message'[m].is_read, m \notin shown \cup excused'
               PROVE  \E v \in WebWorkers :
                         /\ job'[v].at = "show" /\ m \in job'[v].page
                         /\ message'[m].sender # job'[v].user
    BY <1>0 DEF ReadSound
  <2>1. CASE j.at = "show" /\ m \in j.page /\ message'[m].sender # j.user
    BY <1>0, <2>1
  <2>2. CASE m \in Posted /\ message[m].is_read /\ message'[m].sender = message[m].sender
    <3>1. PICK v \in WebWorkers :
             job[v].at = "show" /\ m \in job[v].page /\ message[m].sender # job[v].user
      BY <1>0, <2>2 DEF ReadSound
    <3>2. v # w
      BY <3>1
    <3> QED BY <1>0, <2>2, <3>1, <3>2
  <2> QED BY <2>1, <2>2
<1>4. ASSUME NEW v \in WebWorkers PROVE JobSound(v)'
  <2>1. CASE v = w
    BY <1>0, <2>1 DEF JobSound
  <2>2. CASE v # w
    <3>1. job'[v] = job[v] /\ JobSound(v)
      BY <1>0, <2>2
    <3>2. ASSUME job[v].at = "mark"
          PROVE  In(job[v].conversation)' \subseteq job[v].page \cup excused'
      <4> SUFFICES ASSUME NEW m \in Posted', message'[m].conversation = job[v].conversation
                   PROVE  m \in job[v].page \cup excused'
        BY <3>1 DEF In
      <4>1. CASE m \in Posted /\ message[m].conversation = job[v].conversation
        BY <3>1, <3>2, <4>1 DEF JobSound, In
      <4>2. CASE ~(m \in Posted /\ message[m].conversation = job[v].conversation)
        BY <3>2, <4>2
      <4> QED BY <4>1, <4>2
    <3> QED BY <1>0, <3>1, <3>2 DEF JobSound, Starts
  <2> QED BY <2>1, <2>2
<1>5. Claims'
  BY <1>0 DEF Claims, OnePerProduct
<1> QED BY <1>1, <1>2, <1>3, <1>4, <1>5 DEF IInv

LEMMA ArchiveStep ==
    ASSUME IInv, TypeOK', NEW w \in WebWorkers, NEW u \in Users, NEW c \in Stored,
           Archive(w, u, c)
    PROVE  IInv'
<1>1. /\ TypeOK /\ MembersSound /\ MessagesSound /\ ReadSound /\ Claims
      /\ \A v \in WebWorkers : JobSound(v)
      /\ message' = message /\ Posted' = Posted /\ shown' = shown /\ excused' = excused
      /\ raced' = raced /\ job' = job
  BY DEF IInv, Archive, Posted
<1>2. /\ Stored' = Stored
      /\ \A d \in Stored : /\ conversation'[d].members = conversation[d].members
                           /\ conversation'[d].product = conversation[d].product
  <2> DEFINE row == [conversation[c] EXCEPT !.archived = TRUE]
  <2>1. /\ row \in Row /\ row.members = conversation[c].members
        /\ row.product = conversation[c].product
    BY <1>1, RowsWritten
  <2>2. conversation' = [conversation EXCEPT ![c] = row]
    BY DEF Archive
  <2> HIDE DEF row
  <2>3. /\ Stored' = Stored
        /\ \A d \in Stored : conversation'[d] = IF d = c THEN row ELSE conversation[d]
    BY <1>1, <2>1, <2>2, RowRewritten, ZenonT(60)
  <2> QED BY <2>1, <2>3
<1>3. \A d : In(d)' = In(d)
  BY <1>1 DEF In
<1>4. ReadSound' /\ \A v \in WebWorkers : JobSound(v)'
  BY <1>1, <1>2, <1>3 DEF ReadSound, JobSound
<1>5. MembersSound' /\ MessagesSound'
  BY <1>1, <1>2 DEF MembersSound, MessagesSound
<1>6. Claims'
  BY <1>1, <1>2 DEF Claims, OnePerProduct
<1> QED BY <1>4, <1>5, <1>6 DEF IInv

LEMMA CreateInv ==
    ASSUME IInv, TypeOK', NEW w \in WebWorkers, CreateConversation(w)
    PROVE  IInv'
<1> DEFINE n == Len(conversation) + 1
           j == [job[w] EXCEPT !.at = "join", !.conversation = n]
           row == [members |-> {}, product |-> NoProduct, archived |-> FALSE]
<1>1. TypeOK /\ JobSound(w) /\ job[w].at = "create" /\ job[w] \in StartJob
  BY JobKinds DEF IInv, CreateConversation
<1>2. /\ Becomes(w, j) /\ UNCHANGED <<message, shown, excused, raced>>
      /\ conversation' = Append(conversation, row)
  BY DEF CreateConversation
<1>3. /\ j.at = "join" /\ j.conversation = n /\ j.sender = job[w].sender
      /\ j.recipient = job[w].recipient /\ j.product = job[w].product
  BY <1>1 DEF StartJob
<1>4. row \in Row /\ row.members = {} /\ row.product = NoProduct
  BY DEF Row
<1>5. job[w].sender # job[w].recipient
  BY <1>1 DEF JobSound, Starts
<1> HIDE DEF row
<1>6. /\ Stored' = Stored \cup {n} /\ n \notin Stored /\ conversation'[n] = row
      /\ \A c \in Stored : conversation'[c] = conversation[c]
  BY <1>1, <1>2, <1>4, RowAppended
<1>7. Starts(job[w]) /\ Pair(j) = Pair(job[w])
  BY <1>1, <1>3 DEF Starts, Pair
<1> HIDE DEF j, n
<1> QED BY <1>2, <1>3, <1>4, <1>5, <1>6, <1>7, RowStep

LEMMA JoinInv ==
    ASSUME IInv, TypeOK', NEW w \in WebWorkers, AddParticipants(w)
    PROVE  IInv'
<1> DEFINE d == job[w].conversation
           j == IF job[w].product = NoProduct THEN PostOf(d, job[w].sender)
                ELSE [job[w] EXCEPT !.at = "relate"]
           row == [conversation[d] EXCEPT !.members = Pair(job[w])]
<1>1. TypeOK /\ JobSound(w) /\ job[w].at = "join" /\ job[w] \in StartJob
  BY JobKinds DEF IInv, AddParticipants
<1>2. /\ Becomes(w, j) /\ UNCHANGED <<message, shown, excused, raced>>
      /\ conversation' = [conversation EXCEPT ![d] = row]
  BY DEF AddParticipants, Pair
<1>3. /\ j.at \in {"relate", "post"} /\ j.conversation = d /\ j.sender = job[w].sender
      /\ j.at = "relate" => /\ j.recipient = job[w].recipient /\ j.product = job[w].product
  BY <1>1 DEF StartJob, PostOf
<1>4. /\ d \in Stored /\ conversation[d].members = {} /\ conversation[d].product = NoProduct
      /\ job[w].sender # job[w].recipient
  BY <1>1 DEF JobSound, Starts
<1>5. row \in Row /\ row.members = Pair(job[w]) /\ row.product = NoProduct
  <2>1. Pair(job[w]) \in SUBSET Users
    BY <1>1 DEF Pair, StartJob
  <2> QED BY <1>1, <1>4, <2>1, RowsWritten
<1> HIDE DEF row, d
<1>6. /\ Stored' = Stored
      /\ \A c \in Stored : conversation'[c] = IF c = d THEN row ELSE conversation[c]
  <2>1. PICK x, r : x = d /\ r = row
    OBVIOUS
  <2>2. TypeOK /\ r \in Row /\ conversation' = [conversation EXCEPT ![x] = r]
    BY <1>1, <1>2, <1>5, <2>1
  <2>3. /\ Stored' = Stored
        /\ \A c \in Stored : conversation'[c] = IF c = x THEN r ELSE conversation[c]
    BY <2>2, RowRewritten
  <2> QED BY <2>1, <2>3
<1>7. Starts(job[w]) /\ (Starts(j) => Pair(j) = Pair(job[w]))
  BY <1>1, <1>3 DEF Starts, Pair
<1>8. /\ \A c \in Stored : c # d => conversation'[c] = conversation[c]
      /\ conversation'[d] = row
  BY <1>4, <1>6
<1>9. Starts(j) => j.at = "relate"
  BY <1>3 DEF Starts
<1> HIDE DEF j, d
<1> QED BY <1>1, <1>2, <1>3, <1>4, <1>5, <1>6, <1>7, <1>8, <1>9, RowStep DEF d

LEMMA RelateInv ==
    ASSUME IInv, TypeOK', NEW w \in WebWorkers, RelateProduct(w)
    PROVE  IInv'
<1> DEFINE d == job[w].conversation
           j == PostOf(d, job[w].sender)
           row == [conversation[d] EXCEPT !.product = job[w].product]
<1>1. TypeOK /\ JobSound(w) /\ job[w].at = "relate" /\ job[w] \in StartJob
  BY JobKinds DEF IInv, RelateProduct
<1>2. /\ Becomes(w, j) /\ UNCHANGED <<message, shown, excused, raced>>
      /\ \/ conversation' = [conversation EXCEPT ![d] = row]
         \/ conversation' = conversation
  BY DEF RelateProduct
<1>3. j.at = "post" /\ j.conversation = d /\ j.sender = job[w].sender /\ ~Starts(j)
  BY DEF PostOf, Starts
<1>4. d \in Stored /\ conversation[d].members = Pair(job[w])
  BY <1>1 DEF JobSound
<1>5. row \in Row /\ row.members = conversation[d].members /\ row.product = job[w].product
  <2>1. job[w].product \in Products \cup {NoProduct}
    BY <1>1 DEF StartJob
  <2> QED BY <1>1, <1>4, <2>1, RowsWritten
<1> HIDE DEF row, d
<1>6. /\ Stored' = Stored
      /\ \A c \in Stored : c # d => conversation'[c] = conversation[c]
      /\ conversation'[d].members = conversation[d].members
      /\ \/ conversation'[d].product = job[w].product
         \/ conversation'[d].product = conversation[d].product
  <2>1. CASE conversation' = conversation
    BY <2>1 DEF Stored
  <2>2. CASE conversation' = [conversation EXCEPT ![d] = row]
    <3>1. /\ Stored' = Stored
          /\ \A c \in Stored : conversation'[c] = IF c = d THEN row ELSE conversation[c]
      <4>1. PICK x, r : x = d /\ r = row
        OBVIOUS
      <4>2. TypeOK /\ r \in Row /\ conversation' = [conversation EXCEPT ![x] = r]
        BY <1>1, <1>5, <2>2, <4>1
      <4>3. /\ Stored' = Stored
            /\ \A c \in Stored : conversation'[c] = IF c = x THEN r ELSE conversation[c]
        BY <4>2, RowRewritten
      <4> QED BY <4>1, <4>3
    <3> QED BY <1>4, <1>5, <3>1
  <2> QED BY <1>2, <2>1, <2>2
<1>7. Starts(job[w])
  BY <1>1 DEF Starts
<1> HIDE DEF j, d
<1> QED BY <1>1, <1>2, <1>3, <1>4, <1>6, <1>7, RowStep DEF d

LEMMA NextInv == IInv /\ [Next]_vars => IInv'
<1> SUFFICES ASSUME IInv, [Next]_vars PROVE IInv'
  OBVIOUS
<1>0. TypeOK /\ TypeOK' /\ \A v \in WebWorkers : JobSound(v)
  BY NextTypeOK DEF IInv
<1>1. ASSUME NEW w \in WebWorkers, NEW u \in Users, NEW v \in Users,
             NEW p \in Products \cup {NoProduct}, StartRead(w, u, v, p)
      PROVE  IInv'
  <2>1. CASE \E c \in Existing(u, v, p) : Becomes(w, PostOf(c, u)) /\ UNCHANGED raced
    <3>1. PICK c \in Existing(u, v, p) : Becomes(w, PostOf(c, u)) /\ UNCHANGED raced
      BY <2>1
    <3> DEFINE j == PostOf(c, u)
    <3>2. /\ j.at = "post" /\ j.conversation = c /\ j.sender = u
          /\ c \in Stored /\ u \in conversation[c].members /\ job[w].at = "idle"
          /\ UNCHANGED <<conversation, message, shown, excused, raced>> /\ Becomes(w, j)
      BY <1>1, <3>1 DEF PostOf, Existing, StartRead, Idle
    <3> HIDE DEF j
    <3> QED BY <1>0, <3>2, WebStep
  <2>2. CASE /\ Existing(u, v, p) = {} /\ Becomes(w, Creation(u, v, p))
             /\ raced' = IF Starting(u, v) = {} THEN raced ELSE raced \cup {{u, v}}
    <3> DEFINE j == Creation(u, v, p)
    <3>1. /\ j.at = "create" /\ j.sender = u /\ j.recipient = v /\ j.product = p
          /\ Pair(j) = {u, v} /\ u # v /\ job[w].at = "idle"
          /\ UNCHANGED <<conversation, message, shown, excused>> /\ Becomes(w, j)
      BY <1>1, <2>2 DEF Creation, Pair, StartRead, Idle
    <3> HIDE DEF j
    <3> QED BY <1>0, <2>2, <3>1, WebStep
  <2> QED BY <1>1, <2>1, <2>2 DEF StartRead
<1>2. ASSUME NEW w \in WebWorkers, NEW u \in Users, NEW c \in Stored,
             SendRead(w, u, c) \/ OpenRead(w, u, c) \/ ClearRead(w, u, c)
      PROVE  IInv'
  <2> DEFINE k1 == PostOf(c, u)
             k2 == [at |-> "mark", conversation |-> c, user |-> u, page |-> In(c)]
             k3 == [at |-> "clear", conversation |-> c, user |-> u]
  <2>1. PICK j \in {k1, k2, k3} : Becomes(w, j)
    BY <1>2 DEF SendRead, OpenRead, ClearRead
  <2>2. /\ j.at \in {"post", "mark", "clear"} /\ j.conversation = c
        /\ j.at = "post" => j.sender = u
        /\ j.at \in {"mark", "clear"} => j.user = u
        /\ j.at = "mark" => j.page = In(c)
    BY DEF PostOf
  <2>3. /\ u \in conversation[c].members /\ job[w].at = "idle"
        /\ UNCHANGED <<conversation, message, shown, excused, raced>>
    BY <1>2 DEF SendRead, OpenRead, ClearRead, Sees, Idle
  <2> HIDE DEF k1, k2, k3
  <2> QED BY <1>0, <2>1, <2>2, <2>3, WebStep
<1>3. ASSUME NEW w \in WebWorkers, InsertMessage(w) PROVE IInv'
  <2> DEFINE row == [conversation |-> job[w].conversation, sender |-> job[w].sender,
                     is_read |-> FALSE]
  <2>1. /\ job[w].at = "post" /\ Becomes(w, Idle) /\ Idle.at = "idle"
        /\ UNCHANGED <<conversation, shown, raced>> /\ message' = Append(message, row)
        /\ excused \subseteq excused'
        /\ \/ Len(message) + 1 \in excused'
           \/ \A v \in WebWorkers :
                 ~(job[v].at = "mark" /\ job[v].conversation = job[w].conversation)
    BY <1>3 DEF InsertMessage, Idle
  <2>2. /\ row \in MessageRow /\ row.conversation = job[w].conversation
        /\ row.sender = job[w].sender /\ ~row.is_read
    BY <1>0, <2>1, JobKinds DEF PostJob, MessageRow
  <2> HIDE DEF row
  <2>3. /\ Posted' = Posted \cup {Len(message) + 1}
        /\ message'[Len(message) + 1] = row
        /\ \A m \in Posted : message'[m] = message[m]
    BY <1>0, <2>1, <2>2, MessageAppended
  <2> DEFINE n == Len(message) + 1
  <2>4. /\ \A m \in Posted' :
              \/ /\ m \in Posted
                 /\ message'[m].conversation = message[m].conversation
                 /\ message'[m].sender = message[m].sender
              \/ /\ job[w].at = "post"
                 /\ message'[m].conversation = job[w].conversation
                 /\ message'[m].sender = job[w].sender
                 /\ \/ m \in excused'
                    \/ \A v \in WebWorkers :
                          ~(job[v].at = "mark" /\ job[v].conversation = job[w].conversation)
        /\ \A m \in Posted' :
              message'[m].is_read =>
                 m \in Posted /\ message[m].is_read /\ message'[m].sender = message[m].sender
    BY <2>1, <2>2, <2>3
  <2> QED BY <1>0, <2>1, <2>4, MessageStep
<1>4. ASSUME NEW w \in WebWorkers, MarkPage(w) PROVE IInv'
  <2> DEFINE j == [job[w] EXCEPT !.at = "show"]
             S == Unread(job[w].user, job[w].conversation)
  <2>1. job[w].at = "mark" /\ job[w] \in PageJob /\ JobSound(w)
    BY <1>0, <1>4, JobKinds DEF MarkPage
  <2>2. /\ j.at = "show" /\ j.conversation = job[w].conversation
        /\ j.user = job[w].user /\ j.page = job[w].page
    BY <2>1 DEF PageJob
  <2>3. /\ Becomes(w, j) /\ message' = MarkedRead(S)
        /\ UNCHANGED <<conversation, shown, excused, raced>>
    BY <1>4 DEF MarkPage, At
  <2>4. /\ j.conversation \in Stored /\ j.user \in conversation[j.conversation].members
        /\ \A m \in S : (m \in j.page \/ m \in excused) /\ message[m].sender # j.user
    BY <2>1, <2>2 DEF JobSound, Unread
  <2> HIDE DEF j, S
  <2>5. /\ Posted' = Posted
        /\ \A m \in Posted :
              /\ message'[m].conversation = message[m].conversation
              /\ message'[m].sender = message[m].sender
              /\ message'[m].is_read = (message[m].is_read \/ m \in S)
    BY <1>0, <2>3, MarkedRows
  <2>6. excused' = excused /\ job[w].at # "show"
    BY <2>1, <2>3
  <2>7. /\ \A m \in Posted' :
              /\ m \in Posted
              /\ message'[m].conversation = message[m].conversation
              /\ message'[m].sender = message[m].sender
        /\ \A m \in Posted' :
              message'[m].is_read =>
                 \/ m \in Posted /\ message[m].is_read /\ message'[m].sender = message[m].sender
                 \/ m \in excused'
                 \/ j.at = "show" /\ m \in j.page /\ message'[m].sender # j.user
    BY <2>2, <2>4, <2>5, <2>6
  <2> QED BY <1>0, <2>2, <2>3, <2>4, <2>6, <2>7, MessageStep
<1>5. ASSUME NEW w \in WebWorkers, ShowPage(w) PROVE IInv'
  <2>1. /\ Becomes(w, Idle) /\ Idle.at = "idle" /\ job[w].at = "show"
        /\ UNCHANGED <<conversation, message, excused, raced>>
        /\ shown' = shown \cup {m \in job[w].page : message[m].sender # job[w].user}
    BY <1>5 DEF ShowPage, Idle
  <2> QED BY <1>0, <2>1, WebStep
<1>6. ASSUME NEW w \in WebWorkers, ClearUnread(w) PROVE IInv'
  <2> DEFINE S == Unread(job[w].user, job[w].conversation)
  <2>1. /\ Becomes(w, Idle) /\ Idle.at = "idle" /\ job[w].at = "clear"
        /\ UNCHANGED <<conversation, shown, raced>> /\ message' = MarkedRead(S)
        /\ excused' = excused \cup S
    BY <1>6 DEF ClearUnread, Idle
  <2> HIDE DEF S
  <2>2. /\ Posted' = Posted
        /\ \A m \in Posted :
              /\ message'[m].conversation = message[m].conversation
              /\ message'[m].sender = message[m].sender
              /\ message'[m].is_read = (message[m].is_read \/ m \in S)
    BY <1>0, <2>1, MarkedRows
  <2>3. excused \subseteq excused' /\ \A m \in S : m \in excused'
    BY <2>1
  <2> QED BY <1>0, <2>1, <2>2, <2>3, MessageStep
<1>7. ASSUME NEW w \in WebWorkers, Crash(w) PROVE IInv'
  <2>1. /\ Becomes(w, Idle) /\ Idle.at = "idle"
        /\ UNCHANGED <<conversation, message, shown, raced>>
        /\ excused \subseteq excused'
        /\ job[w].at = "show" => job[w].page \subseteq excused'
    BY <1>7 DEF Crash, Idle
  <2> QED BY <1>0, <2>1, WebStep
<1>8. CASE UNCHANGED vars
  <2>1. TypeOK /\ MembersSound /\ MessagesSound /\ ReadSound /\ Claims
    BY DEF IInv
  <2>2. \A c : In(c)' = In(c)
    BY <1>8 DEF vars, In, Posted
  <2> QED BY <1>0, <1>8, <2>1, <2>2
       DEF vars, IInv, MembersSound, MessagesSound, ReadSound, Claims, OnePerProduct, JobSound,
           Stored, Posted
<1> QED BY <1>0, <1>1, <1>2, <1>3, <1>4, <1>5, <1>6, <1>7, <1>8,
           CreateInv, JoinInv, RelateInv, ArchiveStep DEF Next, Begin, Continue

LEMMA Invariant == Spec => []IInv
BY InitInv, NextInv, PTL DEF Spec

\* Whatever requests overlap or are killed, a message is in a conversation of
\* exactly two users, and its sender is one of them.
THEOREM NoStrays == Spec => []NoStrayMessage
<1>1. ASSUME NEW u, NEW v, u # v PROVE Cardinality({u, v}) = 2
  <2>1. {u, v} = {u} \cup {v} /\ v \notin {u}
    BY <1>1
  <2>2. IsFiniteSet({u}) /\ Cardinality({u}) = 1
    BY FS_Singleton
  <2>3. Cardinality({u} \cup {v}) = Cardinality({u}) + 1
    BY <2>1, <2>2, FS_AddElement
  <2> QED BY <2>1, <2>2, <2>3
<1>2. IInv => NoStrayMessage
  <2> SUFFICES ASSUME IInv, NEW m \in Posted
               PROVE  LET members == conversation[message[m].conversation].members IN
                      Cardinality(members) = 2 /\ message[m].sender \in members
    BY DEF NoStrayMessage
  <2> DEFINE members == conversation[message[m].conversation].members
  <2>1. message[m].sender \in members /\ message[m].conversation \in Stored
    BY DEF IInv, MessagesSound
  <2>2. PICK u, v \in Users : u # v /\ members = {u, v}
    BY <2>1 DEF IInv, MembersSound
  <2>3. Cardinality({u, v}) = 2
    BY <1>1, <2>2
  <2> QED BY <2>1, <2>2, <2>3
<1> QED BY <1>2, Invariant, PTL

\* A message that counts as read was shown to its user, is about to be, or is
\* excused.
THEOREM ReadMessagesWereShown == Spec => []ReadWasShown
<1>1. IInv => ReadWasShown
  BY DEF IInv, ReadSound, ReadWasShown
<1> QED BY <1>1, Invariant, PTL

\* Two users have one conversation about a product unless they raced for it.
THEOREM OneConversationPerProduct == Spec => []OnePerProduct
<1>1. IInv => OnePerProduct
  BY DEF IInv, Claims
<1> QED BY <1>1, Invariant, PTL

-----------------------------------------------------------------------------
(* Messaging implements the mailbox                                          *)

\* The user has the message among the unread ones.
Waits(u, m) ==
    /\ ~message[m].is_read /\ message[m].sender # u
    /\ u \in conversation[message[m].conversation].members

LEMMA BoxRows ==
    ASSUME IInv, NEW u \in Users
    PROVE  Boxes[u] = {m \in Posted : Waits(u, m)}
<1>1. \A m \in Posted : message[m].conversation \in Stored
  BY DEF IInv, MessagesSound
<1> QED BY <1>1 DEF Boxes, Unread, In, Waits

LEMMA BoxRowsNext ==
    ASSUME IInv', NEW u \in Users
    PROVE  Boxes'[u] = {m \in Posted' : Waits(u, m)'}
<1>1. \A m \in Posted' : message'[m].conversation \in Stored'
  BY DEF IInv, MessagesSound
<1> QED BY <1>1 DEF Boxes, Unread, In, Waits

LEMMA SendersSeq ==
    ASSUME TypeOK
    PROVE  Senders \in Seq(Users) /\ Len(Senders) = Len(message) /\ DOMAIN Senders = Posted
<1>1. /\ Posted = 1 .. Len(message) /\ Len(message) \in Nat
      /\ \A m \in Posted : message[m].sender \in Users
  BY Domains DEF MessageRow
<1>2. Senders \in [1 .. Len(message) -> Users]
  BY <1>1 DEF Senders
<1> QED BY <1>1, <1>2, SeqDef, LenProperties

\* The messages stay as they are, and so do the users they are for.
LEMMA BoxesStay ==
    ASSUME IInv, IInv', message' = message,
           \A m \in Posted : conversation'[message[m].conversation].members
                               = conversation[message[m].conversation].members
    PROVE  Boxes' = Boxes /\ Senders' = Senders
<1>1. Posted' = Posted /\ Senders' = Senders
  BY DEF Posted, Senders
<1>2. \A u \in Users : Boxes'[u] = Boxes[u]
  <2> TAKE u \in Users
  <2>1. /\ Boxes[u] = {m \in Posted : Waits(u, m)}
        /\ Boxes'[u] = {m \in Posted' : Waits(u, m)'}
    BY BoxRows, BoxRowsNext
  <2>2. \A m \in Posted : Waits(u, m)' <=> Waits(u, m)
    BY DEF Waits
  <2> QED BY <1>1, <2>1, <2>2
<1> QED BY <1>1, <1>2 DEF Boxes

\* Messages are marked as read for one of the two users of a conversation.
LEMMA BoxesEmptied ==
    ASSUME IInv, IInv', UNCHANGED conversation, NEW u \in Users, NEW c \in Stored,
           u \in conversation[c].members, message' = MarkedRead(Unread(u, c))
    PROVE  /\ Unread(u, c) \in SUBSET Boxes[u]
           /\ Boxes' = [Boxes EXCEPT ![u] = @ \ Unread(u, c)]
           /\ Senders' = Senders
<1> DEFINE S == Unread(u, c)
<1>0. TypeOK /\ MembersSound /\ MessagesSound
  BY DEF IInv
<1>1. /\ Posted' = Posted
      /\ \A m \in Posted :
            /\ message'[m].conversation = message[m].conversation
            /\ message'[m].sender = message[m].sender
            /\ message'[m].is_read = (message[m].is_read \/ m \in S)
  <2>1. PICK T : T = S
    OBVIOUS
  <2> QED BY <1>0, <2>1, MarkedRows
<1>2. \A m \in S : /\ m \in Posted /\ ~message[m].is_read /\ message[m].sender # u
                   /\ message[m].conversation = c /\ message[m].sender \in conversation[c].members
  BY <1>0 DEF Unread, In, MessagesSound
<1> HIDE DEF S
<1>3. S \in SUBSET Boxes[u]
  BY <1>2, BoxRows DEF Waits
<1>4. ASSUME NEW v \in Users PROVE Boxes'[v] = IF v = u THEN Boxes[u] \ S ELSE Boxes[v]
  <2>1. Boxes'[v] = {m \in Posted : ~message[m].is_read /\ m \notin S /\ message[m].sender # v
                        /\ v \in conversation[message[m].conversation].members}
    <3>1. Boxes'[v] = {m \in Posted' : Waits(v, m)'}
      BY BoxRowsNext
    <3>2. \A m \in Posted :
             Waits(v, m)' <=> /\ ~message[m].is_read /\ m \notin S /\ message[m].sender # v
                              /\ v \in conversation[message[m].conversation].members
      BY <1>1 DEF Waits
    <3> QED BY <1>1, <3>1, <3>2
  <2>2. Boxes[v] = {m \in Posted : Waits(v, m)}
    BY BoxRows
  <2>3. CASE v = u
    BY <2>1, <2>2, <2>3 DEF Waits
  <2>4. ASSUME v # u, NEW m \in S PROVE m \notin Boxes[v]
    <3>1. \E x, y \in Users : x # y /\ conversation[c].members = {x, y}
      BY <1>0, <2>4 DEF MembersSound
    <3> QED BY <1>2, <2>2, <2>4, <3>1 DEF Waits
  <2>5. CASE v # u
    BY <2>1, <2>2, <2>4, <2>5 DEF Waits
  <2> QED BY <2>3, <2>5
<1>5. Boxes' = [Boxes EXCEPT ![u] = @ \ S]
  BY <1>4 DEF Boxes
<1>6. Senders' = Senders
  BY <1>1 DEF Senders
<1> QED BY <1>3, <1>5, <1>6 DEF S

\* A message is delivered to the other user of its conversation.
LEMMA Delivered ==
    ASSUME IInv, IInv', NEW w \in WebWorkers, InsertMessage(w)
    PROVE  \E from, to \in Users :
              /\ from # to
              /\ Senders' = Append(Senders, from)
              /\ Boxes' = [Boxes EXCEPT ![to] = @ \cup {Len(Senders) + 1}]
<1> DEFINE row == [conversation |-> job[w].conversation, sender |-> job[w].sender,
                   is_read |-> FALSE]
           c == job[w].conversation
           n == Len(message) + 1
<1>0. /\ TypeOK /\ TypeOK' /\ MembersSound /\ JobSound(w) /\ job[w].at = "post"
      /\ job[w] \in PostJob /\ conversation' = conversation /\ message' = Append(message, row)
  BY JobKinds DEF IInv, InsertMessage
<1>1. /\ row \in MessageRow /\ row.conversation = c
      /\ row.sender = job[w].sender /\ ~row.is_read
  BY <1>0 DEF PostJob, MessageRow
<1> HIDE DEF row
<1>2. /\ Posted' = Posted \cup {n} /\ n \notin Posted
      /\ message'[n] = row
      /\ \A m \in Posted : message'[m] = message[m]
  BY <1>0, <1>1, MessageAppended
<1>3. c \in Stored /\ job[w].sender \in conversation[c].members /\ job[w].sender \in Users
  BY <1>0 DEF JobSound, PostJob
<1>4. PICK from, to \in Users :
         from # to /\ conversation[c].members = {from, to} /\ from = job[w].sender
  BY <1>0, <1>3 DEF MembersSound
<1>5. Senders' = Append(Senders, from)
  <2>1. /\ Senders \in Seq(Users) /\ Len(Senders) = Len(message)
        /\ Posted = 1 .. Len(message) /\ Len(message) \in Nat
    BY <1>0, SendersSeq, Domains
  <2>2. /\ Append(Senders, from) \in Seq(Users)
        /\ Len(Append(Senders, from)) = Len(message) + 1
        /\ \A i \in 1 .. Len(message) : Append(Senders, from)[i] = Senders[i]
        /\ Append(Senders, from)[n] = from
    BY <2>1, AppendProperties
  <2>3. \A i \in 1 .. n : message'[i].sender = Append(Senders, from)[i]
    BY <1>1, <1>2, <1>4, <2>1, <2>2 DEF Senders
  <2>4. Posted' = 1 .. n /\ n \in Nat
    BY <1>2, <2>1
  <2>5. \A i \in 1 .. n : Append(Senders, from)[i] \in Users
    BY <2>1, <2>2, ElementOfSeq
  <2>6. Senders' = [i \in 1 .. n |-> Append(Senders, from)[i]]
    BY <2>3, <2>4 DEF Senders
  <2>7. Append(Senders, from) = [i \in 1 .. n |-> Append(Senders, from)[i]]
    BY <2>1, <2>2, LenProperties
  <2> QED BY <2>6, <2>7
<1>6. ASSUME NEW u \in Users
      PROVE  Boxes'[u] = IF u = to THEN Boxes[u] \cup {n} ELSE Boxes[u]
  <2>1. /\ Boxes[u] = {m \in Posted : Waits(u, m)}
        /\ Boxes'[u] = {m \in Posted' : Waits(u, m)'}
    BY BoxRows, BoxRowsNext
  <2>2. \A m \in Posted : Waits(u, m)' <=> Waits(u, m)
    BY <1>0, <1>2 DEF Waits
  <2>3. \A k : k = n => (Waits(u, k)' <=> u = to)
    BY <1>0, <1>1, <1>2, <1>4 DEF Waits
  <2> QED BY <1>2, <2>1, <2>2, <2>3
<1>7. Boxes' = [Boxes EXCEPT ![to] = @ \cup {n}]
  BY <1>6 DEF Boxes
<1>8. Len(Senders) = Len(message)
  BY <1>0, SendersSeq
<1> QED BY <1>4, <1>5, <1>7, <1>8

\* The users of a conversation stay the same.
LEMMA MembersKept ==
    ASSUME IInv, NEW d \in Stored, conversation[d].members # {}, NEW w \in WebWorkers,
           \/ CreateConversation(w) \/ AddParticipants(w) \/ RelateProduct(w)
           \/ \E u \in Users, c \in Stored : Archive(w, u, c)
    PROVE  conversation'[d].members = conversation[d].members
<1>0. /\ TypeOK /\ JobSound(w) /\ conversation \in Seq(Row) /\ Stored = 1 .. Len(conversation)
      /\ Len(conversation) \in Nat /\ conversation[d] \in Row
  BY Domains DEF IInv, TypeOK
<1>1. CASE CreateConversation(w)
  BY <1>0, <1>1, AppendProperties, RowAppended DEF CreateConversation, Row
<1>2. CASE AddParticipants(w)
  <2>1. d # job[w].conversation
    BY <1>0, <1>2 DEF AddParticipants, JobSound
  <2> QED BY <1>2, <2>1 DEF AddParticipants, Stored
<1>3. CASE RelateProduct(w) \/ \E u \in Users, c \in Stored : Archive(w, u, c)
  <2>1. \/ conversation'[d] = conversation[d]
        \/ \E p : conversation'[d] = [conversation[d] EXCEPT !.product = p]
        \/ conversation'[d] = [conversation[d] EXCEPT !.archived = TRUE]
    BY <1>3 DEF RelateProduct, Archive, Stored
  <2> QED BY <1>0, <2>1 DEF Row
<1> QED BY <1>1, <1>2, <1>3

\* The unread messages of every user behave as the mailbox: each step delivers a
\* message to one user, takes messages from the box of one user who reads them,
\* or leaves every box alone.
THEOREM MessagingIsAMailbox == Spec => MailboxSpec
<1>1. Init => Box!Init
  BY DEF Init, Box!Init, Boxes, Senders, Stored, Posted
<1>2. IInv /\ IInv' /\ [Next]_vars => [Box!Next]_<<Boxes, Senders>>
  <2> SUFFICES ASSUME IInv, IInv', [Next]_vars, ~UNCHANGED <<Boxes, Senders>>
               PROVE  Box!Next
    OBVIOUS
  <2>0. TypeOK /\ MessagesSound /\ \A w \in WebWorkers : JobSound(w)
    BY DEF IInv
  <2>1. ASSUME NEW w \in WebWorkers, InsertMessage(w) PROVE Box!Next
    BY <2>1, Delivered DEF Box!Next, Box!Deliver
  <2>2. ASSUME NEW w \in WebWorkers, MarkPage(w) \/ ClearUnread(w) PROVE Box!Next
    <3> DEFINE u == job[w].user
               c == job[w].conversation
    <3>1. /\ u \in Users /\ c \in Stored /\ u \in conversation[c].members
          /\ UNCHANGED conversation /\ message' = MarkedRead(Unread(u, c))
      BY <2>0, <2>2, JobKinds DEF MarkPage, ClearUnread, JobSound, PageJob, ClearJob
    <3>2. /\ Unread(u, c) \in SUBSET Boxes[u]
          /\ Boxes' = [Boxes EXCEPT ![u] = @ \ Unread(u, c)]
          /\ Senders' = Senders
      BY <3>1, BoxesEmptied
    <3> QED BY <3>1, <3>2 DEF Box!Next, Box!Read
  <2>3. ASSUME message' = message,
               \A m \in Posted : conversation'[message[m].conversation].members
                                   = conversation[message[m].conversation].members
        PROVE  FALSE
    BY <2>3, BoxesStay
  <2>4. \A m \in Posted : /\ message[m].conversation \in Stored
                          /\ conversation[message[m].conversation].members # {}
    BY <2>0 DEF MessagesSound
  <2>5. ASSUME NEW w \in WebWorkers,
               CreateConversation(w) \/ AddParticipants(w) \/ RelateProduct(w)
        PROVE  FALSE
    BY <2>3, <2>4, <2>5, MembersKept
       DEF CreateConversation, AddParticipants, RelateProduct
  <2>6. ASSUME NEW w \in WebWorkers, NEW u \in Users, NEW c \in Stored, Archive(w, u, c)
        PROVE  FALSE
    BY <2>3, <2>4, <2>6, MembersKept DEF Archive
  <2>7. ASSUME UNCHANGED <<conversation, message>> PROVE FALSE
    BY <2>3, <2>7
  <2> QED BY <2>1, <2>2, <2>5, <2>6, <2>7
       DEF Next, Begin, Continue, StartRead, SendRead, OpenRead, ClearRead, ShowPage, Crash, vars
<1> QED BY <1>1, <1>2, Invariant, PTL DEF Spec, MailboxSpec, Box!Spec

=============================================================================
