-------------------------------- MODULE Bell --------------------------------
(***************************************************************************)
(* The bell of one reader (routes/notifications.ts,                        *)
(* services/notificationSummary.ts): the unread notification rows of their *)
(* conversations, the read positions behind the unread bubbles             *)
(* (routes/chat.ts), and the requests that clear both, each a chain of     *)
(* statements that messages, late rows and other requests come between.    *)
(*                                                                         *)
(* Messaging says when a message gets a row; here it gets one at any time  *)
(* after it is there, or never.  Messages are numbered, and a read         *)
(* position is the number of the last message it does not precede.  The    *)
(* reader stays in the conversations; rows of rooms, beacons and the       *)
(* system are left out.                                                    *)
(***************************************************************************)
EXTENDS Naturals, Sequences

CONSTANTS
    Dms,          \* 1:1 conversations
    Groups,       \* group conversations
    Requests,     \* slots of clearing requests in flight
    MaxMessages,  \* bound on the messages of a behaviour
    NoChat        \* an unused local

Chats == Dms \cup Groups

VARIABLES
    sent,       \* the messages: the conversation, and the type of their row
    rung,       \* messages whose notification row is there
    unread,     \* those of them whose row has is_read = false
    lastRead,   \* last_read_at in each conversation, 0 = null
    req         \* the clearing request in each slot

vars == <<sent, rung, unread, lastRead, req>>

Types == {"new_dm", "mention", "group"}
Message == {m \in [chat : Chats, type : Types] : m.chat \in Dms <=> m.type = "new_dm"}
Time == 0..MaxMessages

\* was and took are history: the unread rows the request is about, as it
\* starts, and the rows it marks read.
Request == [tab : {"none", "context", "dms", "mention", "new_dm", "all", "groups"},
            pc : {"idle", "rows", "group", "cross", "advance", "reply"},
            chat : Chats \cup {NoChat}, now : Time, found : SUBSET Chats,
            was : SUBSET Time, took : SUBSET Time]
NoRequest == [tab |-> "none", pc |-> "idle", chat |-> NoChat, now |-> 0,
              found |-> {}, was |-> {}, took |-> {}]

TypeOK ==
    /\ sent \in Seq(Message) /\ Len(sent) <= MaxMessages
    /\ unread \subseteq rung /\ rung \subseteq 1..Len(sent)
    /\ lastRead \in [Chats -> 0..Len(sent)]
    /\ req \in [Requests -> Request]
    /\ \A r \in Requests :
         /\ req[r].now <= Len(sent)
         /\ req[r].was \cup req[r].took \subseteq rung
         /\ req[r].tab = "groups" => req[r].found \subseteq Groups
         /\ (req[r].tab = "context") = (req[r].chat # NoChat)

Init ==
    /\ sent = <<>>
    /\ rung = {} /\ unread = {}
    /\ lastRead = [c \in Chats |-> 0]
    /\ req = [r \in Requests |-> NoRequest]

Now == Len(sent)

\* The unread rows of these types, and those of these conversations.
OfTypes(types) == {m \in unread : sent[m].type \in types}
OfChats(chats) == {m \in unread : sent[m].chat \in chats}

\* TAB_TYPES, and the single types of the legacy parameter.
Tab == [dms |-> {"mention", "new_dm"}, mention |-> {"mention"}, new_dm |-> {"new_dm"},
        groups |-> {"group"}, all |-> Types]
Stored == {"dms", "mention", "new_dm", "all"}

-----------------------------------------------------------------------------
(* Messages and rows *)

Post(m) ==
    /\ Len(sent) < MaxMessages
    /\ sent' = Append(sent, m)
    /\ UNCHANGED <<rung, unread, lastRead, req>>

Ring(m) ==
    /\ m \in 1..Len(sent) \ rung
    /\ rung' = rung \cup {m} /\ unread' = unread \cup {m}
    /\ UNCHANGED <<sent, lastRead, req>>

-----------------------------------------------------------------------------
(* Single statements *)

\* GET /conversations/:id/messages
Open(c) ==
    /\ lastRead' = [lastRead EXCEPT ![c] = Now]
    /\ UNCHANGED <<sent, rung, unread, req>>

\* PUT /conversations/mark-all-read
MarkAllRead ==
    /\ lastRead' = [c \in Chats |-> Now]
    /\ UNCHANGED <<sent, rung, unread, req>>

\* PUT /notifications/:id/read
ReadRow(m) ==
    /\ unread' = unread \ {m}
    /\ UNCHANGED <<sent, rung, lastRead, req>>

-----------------------------------------------------------------------------
(* Clearing requests *)

Idle(r) == req[r].pc = "idle"

\* Marks the rows read and goes on; every request keeps account of them.
Take(r, rows, pc) ==
    /\ unread' = unread \ rows
    /\ req' = [req EXCEPT ![r].pc = pc, ![r].took = @ \cup rows]

\* Every read position is where it should be: receipts and the answer are left.
Finish(r) == req' = [req EXCEPT ![r].pc = "reply"]

\* The answer is out; or a statement fails, or the process dies, and what is
\* left of the request is lost.
End(r) ==
    /\ req[r].pc # "idle"
    /\ req' = [req EXCEPT ![r] = NoRequest]
    /\ UNCHANGED <<sent, rung, unread, lastRead>>

\* PUT /read-context: the new_dm and mention rows of the conversation,
ContextDirected(r, c) ==
    LET rows == OfChats({c}) \cap OfTypes(Tab.dms) IN
    /\ Idle(r)
    /\ unread' = unread \ rows
    /\ req' = [req EXCEPT ![r] = [NoRequest EXCEPT
         !.tab = "context", !.pc = "group", !.chat = c, !.was = OfChats({c}), !.took = rows]]
    /\ UNCHANGED <<sent, rung, lastRead>>

\* Mutant: the stored group rows are left to the groups tab.
ContextGroupNone(r) ==
    /\ req[r].pc = "group"
    /\ Take(r, {}, "advance")
    /\ UNCHANGED <<sent, rung, lastRead>>

\* its group rows,
ContextGroup(r) ==
    /\ req[r].pc = "group"
    /\ Take(r, OfChats({req[r].chat}) \cap OfTypes({"group"}), "advance")
    /\ UNCHANGED <<sent, rung, lastRead>>

\* Mutant: a conversation's read position is set the first time only.
ContextAdvanceOnce(r) ==
    /\ req[r].tab = "context" /\ req[r].pc = "advance"
    /\ lastRead' = [lastRead EXCEPT ![req[r].chat] = IF @ = 0 THEN Now ELSE @]
    /\ Finish(r)
    /\ UNCHANGED <<sent, rung, unread>>

\* and its read position.
ContextAdvance(r) ==
    /\ req[r].tab = "context" /\ req[r].pc = "advance"
    /\ lastRead' = [lastRead EXCEPT ![req[r].chat] = Now]
    /\ Finish(r)
    /\ UNCHANGED <<sent, rung, unread>>

\* PUT /read-all, of a stored tab: find the conversations of the unread
\* rows,
TabFind(r, t) ==
    /\ Idle(r)
    /\ req' = [req EXCEPT ![r] = [NoRequest EXCEPT
         !.tab = t, !.pc = "rows", !.found = {sent[m].chat : m \in OfTypes(Tab[t])},
         !.was = OfTypes(Tab[t])]]
    /\ UNCHANGED <<sent, rung, unread, lastRead>>

\* clear the rows of the tab,
TabRows(r) ==
    /\ req[r].tab \in Stored /\ req[r].pc = "rows"
    /\ Take(r, OfTypes(Tab[req[r].tab]), "cross")
    /\ UNCHANGED <<sent, rung, lastRead>>

\* the other rows of those conversations,
TabCross(r) ==
    /\ req[r].pc = "cross"
    /\ Take(r, OfChats(req[r].found), "advance")
    /\ UNCHANGED <<sent, rung, lastRead>>

\* Mutant: the cascade reaches 1:1 conversations only.
TabAdvanceDms(r) ==
    /\ req[r].tab \in Stored /\ req[r].pc = "advance"
    /\ lastRead' = [c \in Chats |-> IF c \in req[r].found \cap Dms THEN Now ELSE lastRead[c]]
    /\ Finish(r)
    /\ UNCHANGED <<sent, rung, unread>>

\* and their read positions.
TabAdvance(r) ==
    /\ req[r].tab \in Stored /\ req[r].pc = "advance"
    /\ lastRead' = [c \in Chats |-> IF c \in req[r].found THEN Now ELSE lastRead[c]]
    /\ Finish(r)
    /\ UNCHANGED <<sent, rung, unread>>

\* Mutant: a request counts messages where it should count rows.
GroupsNowMessages(r) ==
    /\ Idle(r)
    /\ req' = [req EXCEPT ![r] = [NoRequest EXCEPT
         !.tab = "groups", !.pc = "rows", !.now = Now, !.was = 1..Now]]
    /\ UNCHANGED <<sent, rung, unread, lastRead>>

\* PUT /read-all, tab=groups: the time is taken first,
GroupsNow(r) ==
    /\ Idle(r)
    /\ req' = [req EXCEPT ![r] = [NoRequest EXCEPT
         !.tab = "groups", !.pc = "rows", !.now = Now, !.was = OfTypes(Tab.groups)]]
    /\ UNCHANGED <<sent, rung, unread, lastRead>>

\* then every group row is marked read,
GroupsRows(r) ==
    /\ req[r].tab = "groups" /\ req[r].pc = "rows"
    /\ Take(r, OfTypes(Tab.groups), "advance")
    /\ UNCHANGED <<sent, rung, lastRead>>

\* then every group's read position set to the time taken.
GroupsAdvance(r) ==
    /\ req[r].tab = "groups" /\ req[r].pc = "advance"
    /\ lastRead' = [c \in Chats |-> IF c \in Groups THEN req[r].now ELSE lastRead[c]]
    /\ Finish(r)
    /\ UNCHANGED <<sent, rung, unread>>

-----------------------------------------------------------------------------

RequestStep(r) ==
    \/ \E c \in Chats : ContextDirected(r, c)
    \/ ContextGroup(r)
    \/ ContextAdvance(r)
    \/ \E t \in Stored : TabFind(r, t)
    \/ TabRows(r)
    \/ TabCross(r)
    \/ TabAdvance(r)
    \/ GroupsNow(r)
    \/ GroupsRows(r)
    \/ GroupsAdvance(r)
    \/ End(r)

Next ==
    \/ \E m \in Message : Post(m)
    \/ \E m \in Time : Ring(m)
    \/ \E c \in Chats : Open(c)
    \/ MarkAllRead
    \/ \E m \in unread : ReadRow(m)
    \/ \E r \in Requests : RequestStep(r)

Spec == Init /\ [][Next]_vars

-----------------------------------------------------------------------------
(* Properties *)

Read(m) == m <= lastRead[sent[m].chat]

\* The statements of the request in slot r are all done.
Settles(r) == req[r].pc = "advance" /\ req'[r].pc = "reply"

\* What a request was about is settled when it is through: every row that was
\* unread in its tab or conversation as it began is marked read, and the message
\* behind it counts as read, whatever other requests cleared or set meanwhile.
SettledTogether ==
    [][\A r \in Requests : Settles(r) =>
          \A m \in req[r].was : m \notin unread' /\ Read(m)']_vars

\* Opening a conversation never drifts: a row marked read on the way in belongs
\* to a message that counts as read, even one that arrived during the request.
OpeningNeverDrifts ==
    [][\A r \in Requests : Settles(r) /\ req[r].tab = "context" =>
          \A m \in req[r].took : Read(m)']_vars
=============================================================================
