----------------------------- MODULE Messaging -----------------------------
(***************************************************************************)
(* Conversations between two users.  A conversation is looked up and then  *)
(* created, given its participants and its product, and only then posted   *)
(* to; a page is fetched before its messages are marked as read.  No       *)
(* request runs in a transaction: each query is a step of its own.         *)
(***************************************************************************)
EXTENDS Naturals, Sequences, FiniteSets

CONSTANTS
    Users,
    Products, NoProduct,
    WebWorkers,
    MaxConversations, MaxMessages  \* bounds on the rows

ASSUME MessagingAssumption ==
    /\ NoProduct \notin Products
    /\ MaxConversations \in Nat /\ MaxMessages \in Nat

VARIABLES
    conversation,  \* the committed rows, in the order they were inserted
    message,       \* the committed rows, in the order they were inserted
    job,           \* what each process is doing
    shown,         \* history: the messages shown to the user they were sent to
    excused,       \* history: messages that may be read without being shown
    raced          \* history: pairs of users who started conversations at once

vars == <<conversation, message, job, shown, excused, raced>>

Row == [members : SUBSET Users, product : Products \cup {NoProduct},
        archived : BOOLEAN]
MessageRow == [conversation : Nat, sender : Users, is_read : BOOLEAN]

Idle == [at |-> "idle"]
StartJob == [at : {"create", "join", "relate"}, conversation : Nat, sender : Users,
             recipient : Users, product : Products \cup {NoProduct}]
PostJob == [at : {"post"}, conversation : Nat, sender : Users]
PageJob == [at : {"mark", "show"}, conversation : Nat, user : Users, page : SUBSET Nat]
ClearJob == [at : {"clear"}, conversation : Nat, user : Users]
Job == {Idle} \cup StartJob \cup PostJob \cup PageJob \cup ClearJob

Init ==
    /\ conversation = <<>>
    /\ message = <<>>
    /\ job = [w \in WebWorkers |-> Idle]
    /\ shown = {}
    /\ excused = {}
    /\ raced = {}

-----------------------------------------------------------------------------
(* Helpers                                                                 *)

Stored == DOMAIN conversation
Posted == DOMAIN message

\* Conversation.objects.get(pk=c, participants=u)
Sees(u, c) == c \in Stored /\ u \in conversation[c].members

\* The conversations of two users, about a product if one is named.
Existing(u, v, p) ==
    {c \in Stored : /\ {u, v} \subseteq conversation[c].members
                    /\ p # NoProduct => conversation[c].product = p}

In(c) == {m \in Posted : message[m].conversation = c}

\* filter(is_read=False).exclude(sender=user) in a conversation
Unread(u, c) == {m \in In(c) : ~message[m].is_read /\ message[m].sender # u}

\* The rows after an UPDATE of those in S.
MarkedRead(S) ==
    [m \in Posted |-> IF m \in S THEN [message[m] EXCEPT !.is_read = TRUE] ELSE message[m]]

Becomes(w, j) == job' = [job EXCEPT ![w] = j]
At(w, label) == Becomes(w, [job[w] EXCEPT !.at = label])

\* Workers that start a conversation between the two users.
Starting(u, v) ==
    {w \in WebWorkers : /\ job[w].at \in {"create", "join", "relate"}
                        /\ {job[w].sender, job[w].recipient} = {u, v}}

\* The unread messages of each user, as UnreadCountView selects them.
Boxes ==
    [u \in Users |-> UNION {Unread(u, c) : c \in {d \in Stored : u \in conversation[d].members}}]

Senders == [m \in Posted |-> message[m].sender]

PostOf(c, u) == [at |-> "post", conversation |-> c, sender |-> u]

-----------------------------------------------------------------------------
(* POST /messages/start/                                                   *)

Bug_Creation(u, v, p) ==
    [at |-> "create", conversation |-> 0, sender |-> u, recipient |-> p, product |-> v]

Creation(u, v, p) ==
    [at |-> "create", conversation |-> 0, sender |-> u, recipient |-> v, product |-> p]

\* The bounds leave room for what is under way.
RoomForConversation ==
    Len(conversation) + Cardinality({w \in WebWorkers : job[w].at = "create"})
        < MaxConversations
RoomForMessage ==
    Len(message) + Cardinality({w \in WebWorkers :
                                   job[w].at \in {"create", "join", "relate", "post"}})
        < MaxMessages

Bug_StartRead(w, u, v, p) ==
    /\ job[w] = Idle
    /\ u # v
    /\ RoomForMessage /\ RoomForConversation
    /\ Becomes(w, Creation(u, v, p))
    /\ raced' = IF Starting(u, v) = {} THEN raced ELSE raced \cup {{u, v}}
    /\ UNCHANGED <<conversation, message, shown, excused>>

\* An existing conversation is continued, another one is about to be created.
StartRead(w, u, v, p) ==
    /\ job[w] = Idle
    /\ u # v
    /\ RoomForMessage
    /\ \/ \E c \in Existing(u, v, p) :
             Becomes(w, PostOf(c, u)) /\ UNCHANGED raced
       \/ /\ Existing(u, v, p) = {}
          /\ RoomForConversation
          /\ Becomes(w, Creation(u, v, p))
          /\ raced' = IF Starting(u, v) = {} THEN raced ELSE raced \cup {{u, v}}
    /\ UNCHANGED <<conversation, message, shown, excused>>

CreateConversation(w) ==
    /\ job[w].at = "create"
    /\ conversation' = Append(conversation,
           [members |-> {}, product |-> NoProduct, archived |-> FALSE])
    /\ Becomes(w, [job[w] EXCEPT !.at = "join", !.conversation = Len(conversation) + 1])
    /\ UNCHANGED <<message, shown, excused, raced>>

Bug_AddParticipants(w) ==
    /\ job[w].at = "join"
    /\ LET j == job[w] IN
       /\ conversation' = [conversation EXCEPT ![j.conversation].members = {j.sender}]
       /\ Becomes(w, PostOf(j.conversation, j.sender))
    /\ UNCHANGED <<message, shown, excused, raced>>

\* participants.add(sender, recipient): one insert for both.
AddParticipants(w) ==
    /\ job[w].at = "join"
    /\ LET j == job[w] IN
       /\ conversation' = [conversation EXCEPT
                              ![j.conversation].members = {j.sender, j.recipient}]
       /\ Becomes(w, IF j.product = NoProduct
                     THEN PostOf(j.conversation, j.sender)
                     ELSE [j EXCEPT !.at = "relate"])
    /\ UNCHANGED <<message, shown, excused, raced>>

\* A product that does not exist, or no longer, is ignored.
RelateProduct(w) ==
    /\ job[w].at = "relate"
    /\ LET j == job[w] IN
       /\ \/ conversation' = [conversation EXCEPT ![j.conversation].product = j.product]
          \/ UNCHANGED conversation
       /\ Becomes(w, PostOf(j.conversation, j.sender))
    /\ UNCHANGED <<message, shown, excused, raced>>

-----------------------------------------------------------------------------
(* Messages                                                                *)

Bug_SendRead(w, u, c) ==
    /\ job[w] = Idle
    /\ c \in Stored
    /\ RoomForMessage
    /\ Becomes(w, PostOf(c, u))
    /\ UNCHANGED <<conversation, message, shown, excused, raced>>

SendRead(w, u, c) ==
    /\ job[w] = Idle
    /\ Sees(u, c)
    /\ RoomForMessage
    /\ Becomes(w, PostOf(c, u))
    /\ UNCHANGED <<conversation, message, shown, excused, raced>>

\* Message.save(); last_message_at, which it stamps next, only orders lists.
\* A message that arrives while the other user's page is on its way is marked
\* with the messages of the page.
InsertMessage(w) ==
    /\ job[w].at = "post"
    /\ LET j == job[w] IN
       /\ message' = Append(message,
             [conversation |-> j.conversation, sender |-> j.sender, is_read |-> FALSE])
       /\ excused' = IF \E v \in WebWorkers : /\ job[v].at = "mark"
                                              /\ job[v].conversation = j.conversation
                     THEN excused \cup {Len(message) + 1} ELSE excused
       /\ Becomes(w, Idle)
    /\ UNCHANGED <<conversation, shown, raced>>

-----------------------------------------------------------------------------
(* Reading                                                                 *)

OpenRead(w, u, c) ==
    /\ job[w] = Idle
    /\ Sees(u, c)
    /\ Becomes(w, [at |-> "mark", conversation |-> c, user |-> u, page |-> In(c)])
    /\ UNCHANGED <<conversation, message, shown, excused, raced>>

Bug_MarkPage(w) ==
    /\ job[w].at = "mark"
    /\ message' = MarkedRead({m \in In(job[w].conversation) : ~message[m].is_read})
    /\ At(w, "show")
    /\ UNCHANGED <<conversation, shown, excused, raced>>

\* The UPDATE names no message of the page: it marks all that are unread.
MarkPage(w) ==
    /\ job[w].at = "mark"
    /\ message' = MarkedRead(Unread(job[w].user, job[w].conversation))
    /\ At(w, "show")
    /\ UNCHANGED <<conversation, shown, excused, raced>>

\* The response shows the page that was fetched.
ShowPage(w) ==
    /\ job[w].at = "show"
    /\ shown' = shown \cup {m \in job[w].page : message[m].sender # job[w].user}
    /\ Becomes(w, Idle)
    /\ UNCHANGED <<conversation, message, excused, raced>>

\* POST .../read/ marks what its user may not have seen.
ClearRead(w, u, c) ==
    /\ job[w] = Idle
    /\ Sees(u, c)
    /\ Becomes(w, [at |-> "clear", conversation |-> c, user |-> u])
    /\ UNCHANGED <<conversation, message, shown, excused, raced>>

ClearUnread(w) ==
    /\ job[w].at = "clear"
    /\ LET S == Unread(job[w].user, job[w].conversation) IN
       /\ message' = MarkedRead(S)
       /\ excused' = excused \cup S
    /\ Becomes(w, Idle)
    /\ UNCHANGED <<conversation, shown, raced>>

\* save(update_fields=["is_archived"]): nothing ever takes it back.
Archive(w, u, c) ==
    /\ job[w] = Idle
    /\ Sees(u, c)
    /\ conversation' = [conversation EXCEPT ![c].archived = TRUE]
    /\ UNCHANGED <<message, job, shown, excused, raced>>

\* A process is killed; the page it was to show is lost.
Crash(w) ==
    /\ job[w] # Idle
    /\ excused' = IF job[w].at = "show" THEN excused \cup job[w].page ELSE excused
    /\ Becomes(w, Idle)
    /\ UNCHANGED <<conversation, message, shown, raced>>

-----------------------------------------------------------------------------
(* Specification                                                           *)

Begin(w) ==
    \/ \E u, v \in Users, p \in Products \cup {NoProduct} : StartRead(w, u, v, p)
    \/ \E u \in Users, c \in Stored :
          SendRead(w, u, c) \/ OpenRead(w, u, c) \/ ClearRead(w, u, c) \/ Archive(w, u, c)

Continue(w) ==
    \/ CreateConversation(w) \/ AddParticipants(w) \/ RelateProduct(w)
    \/ InsertMessage(w)
    \/ MarkPage(w) \/ ShowPage(w) \/ ClearUnread(w)

Next == \E w \in WebWorkers : Begin(w) \/ Continue(w) \/ Crash(w)

Spec == Init /\ [][Next]_vars

-----------------------------------------------------------------------------
(* Properties                                                              *)

\* Every variable keeps its type.
TypeOK ==
    /\ conversation \in Seq(Row)
    /\ message \in Seq(MessageRow)
    /\ job \in [WebWorkers -> Job]
    /\ shown \subseteq Nat
    /\ excused \subseteq Nat
    /\ raced \subseteq SUBSET Users

\* Whatever requests overlap and whichever are killed, a message is in a
\* conversation of exactly two users, its sender one of them: the participants
\* are there before the first message, and a third user never gets in.
NoStrayMessage ==
    \A m \in Posted :
        LET members == conversation[message[m].conversation].members IN
        Cardinality(members) = 2 /\ message[m].sender \in members

\* A message counts as read although its user was never shown it only when it
\* arrived while the page was on its way, when the page was lost with its
\* process, or when the user marked the conversation as read unopened.
ReadWasShown ==
    \A m \in Posted :
        message[m].is_read =>
            \/ m \in shown \cup excused
            \/ \E w \in WebWorkers : job[w].at = "show" /\ m \in job[w].page

\* Two users have one conversation about a product, unless both requests that
\* started one were under way at the same time.
OnePerProduct ==
    \A c, d \in Stored :
        (/\ c # d
         /\ conversation[c].product = conversation[d].product
         /\ conversation[c].product # NoProduct
         /\ conversation[c].members = conversation[d].members)
        => conversation[c].members \in raced

\* The unread messages of each user behave as the mailbox of Mailbox.tla,
\* whatever requests overlap or are killed.
Box == INSTANCE Mailbox WITH box <- Boxes, sent <- Senders
MailboxSpec == Box!Spec

=============================================================================
