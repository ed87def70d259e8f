----------------------------- MODULE Messaging -----------------------------
(***************************************************************************)
(* Sending to a conversation (dm:message and dm:voice in                   *)
(* socket/dmHandler.ts) and what one of its members, the reader, gets to   *)
(* hear of it.  A send is a chain of awaits: four gates, the insert, the   *)
(* conversation brought back into view, the mute and viewing checks, the   *)
(* notification.  The reader hides, archives, mutes, leaves and looks at   *)
(* the conversation (routes/chat.ts, routes/groups.ts, socket/index.ts)    *)
(* between any two of them.                                                *)
(*                                                                         *)
(* One conversation, 1:1 or group, with one sender and one reader: other   *)
(* conversations share only the reader's socket, which shows this one or   *)
(* not.  A timestamp is the number of messages there were when it was set. *)
(***************************************************************************)
EXTENDS Naturals

CONSTANTS
    Sends,         \* slots of sends in flight
    MaxMessages,   \* bound on the messages of a behaviour
    Never          \* a timestamp column that is null

ASSUME BoundAssumption == MaxMessages \in Nat
ASSUME NeverAssumption == Never \notin Nat

VARIABLES
    group,        \* is_group
    sent,         \* how many messages there are: they are numbered from 1
    bars,         \* what shuts the sender out: see Bars
    hidden,       \* hidden_at of the reader
    archived,     \* archived_at of the reader's row
    muted,        \* muted_at
    left,         \* left_at
    foreground,   \* isForeground of the reader's socket
    inRoom,       \* activeRoomKey of that socket is this conversation
    since,        \* history: when the reader began to view, 0 if they do not
    send,         \* the send in each slot
    under,        \* history: the bars up ever since the send in a slot arrived
    cut           \* history: a process died or a statement failed in a send

vars == <<group, sent, bars, hidden, archived, muted, left, foreground, inRoom,
          since, send, under, cut>>

\* The sender left the group; the group is archived; the reader blocked the
\* sender; the reader is banned.
Bars == {"gone", "closed", "block", "ban"}

\* A directed message mentions the reader or replies to them.
Kinds == {"text", "directed", "voice"}

Time == 0..MaxMessages

Send == [pc : {"idle", "member", "convo", "block", "ban", "insert", "unhide",
               "unarchive", "members", "viewing", "mute", "notify", "push"},
         kind : Kinds, msg : Time, quiet : BOOLEAN]
NoSend == [pc |-> "idle", kind |-> "text", msg |-> 0, quiet |-> FALSE]

Gates == {"member", "convo", "block", "ban", "insert"}

TypeOK ==
    /\ group \in BOOLEAN
    /\ sent \in Time
    /\ bars \subseteq Bars
    /\ {hidden, archived, muted, left} \subseteq 0..sent \cup {Never}
    /\ group \/ left = Never
    /\ foreground \in BOOLEAN /\ inRoom \in BOOLEAN
    /\ since \in 0..sent
    /\ send \in [Sends -> Send]
    /\ \A s \in Sends :
         /\ send[s].pc \notin Gates \cup {"idle"} => send[s].msg \in 1..sent
         /\ group \/ send[s].kind # "directed"
    /\ under \in [Sends -> SUBSET Bars]
    /\ cut \in BOOLEAN

Init ==
    /\ group \in BOOLEAN
    /\ sent = 0
    /\ bars = {}
    /\ hidden = Never /\ archived = Never /\ muted = Never /\ left = Never
    /\ foreground = FALSE /\ inRoom = FALSE
    /\ since = 0
    /\ send = [s \in Sends |-> NoSend]
    /\ under = [s \in Sends |-> {}]
    /\ cut = FALSE

row    == <<hidden, archived, muted, left>>
socket == <<foreground, inRoom, since>>

-----------------------------------------------------------------------------
(* The gates *)

Goto(s, pc) == send' = [send EXCEPT ![s].pc = pc]
Done(s) == send' = [send EXCEPT ![s] = NoSend] /\ under' = [under EXCEPT ![s] = {}]

Arrive(s, k) ==
    /\ send[s].pc = "idle"
    /\ sent < MaxMessages
    /\ group \/ k # "directed"
    /\ send' = [send EXCEPT ![s] = [NoSend EXCEPT !.pc = "member", !.kind = k]]
    /\ under' = [under EXCEPT ![s] = bars]
    /\ UNCHANGED <<group, sent, bars, row, socket, cut>>

\* One of the reads before the insert: the send ends if the bar is up.
Gate(s, pc, bar, next) ==
    /\ send[s].pc = pc
    /\ IF bar \in bars THEN Done(s) ELSE Goto(s, next) /\ UNCHANGED under
    /\ UNCHANGED <<group, sent, bars, row, socket, cut>>

CheckMember(s) == Gate(s, "member", "gone", "convo")

\* is_group and archived_at come with one read of the conversation.
CheckConvo(s) ==
    \/ group /\ Gate(s, "convo", "closed", "insert")
    \/ ~group /\ Gate(s, "convo", "closed", "block")

\* Mutant: the block is looked up the other way round and never found.
CheckBlockBackwards(s) == Gate(s, "block", "gone", "ban")

CheckBlock(s) == Gate(s, "block", "block", "ban")

CheckBan(s) == Gate(s, "ban", "ban", "insert")

-----------------------------------------------------------------------------
(* The message and the way back into view *)

\* Mutant: the send goes on with the id of the message before its own.
InsertStale(s) ==
    /\ send[s].pc = "insert"
    /\ sent < MaxMessages
    /\ sent' = sent + 1
    /\ send' = [send EXCEPT ![s].pc = "unhide", ![s].msg = sent]
    /\ UNCHANGED <<group, bars, row, socket, under, cut>>

\* The message, and last_message_at of the conversation.
Insert(s) ==
    /\ send[s].pc = "insert"
    /\ sent < MaxMessages
    /\ sent' = sent + 1
    /\ send' = [send EXCEPT ![s].pc = "unhide", ![s].msg = sent + 1]
    /\ UNCHANGED <<group, bars, row, socket, under, cut>>

\* Mutant: only conversations hidden before the previous message come back.
UnhideOld(s) ==
    /\ send[s].pc = "unhide"
    /\ hidden' = IF hidden # Never /\ hidden + 1 < send[s].msg THEN Never ELSE hidden
    /\ Goto(s, IF send[s].kind = "voice" THEN "members" ELSE "unarchive")
    /\ UNCHANGED <<group, sent, bars, archived, muted, left, socket, under, cut>>

Unhide(s) ==
    /\ send[s].pc = "unhide"
    /\ hidden' = Never
    /\ Goto(s, IF send[s].kind = "voice" THEN "members" ELSE "unarchive")
    /\ UNCHANGED <<group, sent, bars, archived, muted, left, socket, under, cut>>

\* Mutant: the sender's row is unarchived, not the reader's.
UnarchiveSender(s) ==
    /\ send[s].pc = "unarchive"
    /\ Goto(s, "members")
    /\ UNCHANGED <<group, sent, bars, row, socket, under, cut>>

\* Voice messages leave the conversation in the archive.
Unarchive(s) ==
    /\ send[s].pc = "unarchive"
    /\ archived' = Never
    /\ Goto(s, "members")
    /\ UNCHANGED <<group, sent, bars, hidden, muted, left, socket, under, cut>>

-----------------------------------------------------------------------------
(* Who hears of it *)

\* Mutant: members who left are read as well.
ReadAllMembers(s) ==
    /\ send[s].pc = "members"
    /\ IF group /\ send[s].kind = "voice" THEN Done(s)
       ELSE /\ send' = [send EXCEPT ![s].pc = "viewing", ![s].quiet = ~group /\ muted # Never]
            /\ UNCHANGED under
    /\ UNCHANGED <<group, sent, bars, row, socket, cut>>

\* The recipients, with their muted_at; groups hear nothing of voice messages,
\* and their directed messages ring whether muted or not.
ReadMembers(s) ==
    /\ send[s].pc = "members"
    /\ IF left # Never \/ (group /\ send[s].kind = "voice") THEN Done(s)
       ELSE /\ send' = [send EXCEPT ![s].pc = "viewing", ![s].quiet = ~group /\ muted # Never]
            /\ UNCHANGED under
    /\ UNCHANGED <<group, sent, bars, row, socket, cut>>

Viewing == foreground /\ inRoom

\* Mutant: room keys are compared as the clients send them and never match.
CheckViewingNever(s) ==
    /\ send[s].pc = "viewing"
    /\ Goto(s, IF group /\ send[s].kind = "text" THEN "mute" ELSE "notify")
    /\ UNCHANGED <<group, sent, bars, row, socket, under, cut>>

\* isUserActivelyViewing: no row, no emit and no push for a reader who looks.
CheckViewing(s) ==
    /\ send[s].pc = "viewing"
    /\ IF Viewing THEN Done(s)
       ELSE /\ Goto(s, IF group /\ send[s].kind = "text" THEN "mute" ELSE "notify")
            /\ UNCHANGED under
    /\ UNCHANGED <<group, sent, bars, row, socket, cut>>

\* Mutant: the fan-out goes by an empty list of muted members.
ReadMuteNot(s) ==
    /\ send[s].pc = "mute"
    /\ send' = [send EXCEPT ![s].pc = "notify", ![s].quiet = FALSE]
    /\ UNCHANGED <<group, sent, bars, row, socket, under, cut>>

\* The fan-out of a plain group message reads muted_at once more.
ReadMute(s) ==
    /\ send[s].pc = "mute"
    /\ send' = [send EXCEPT ![s].pc = "notify", ![s].quiet = muted # Never]
    /\ UNCHANGED <<group, sent, bars, row, socket, under, cut>>

\* The bell row, unless muted, then the chat:notification.
Notify(s) ==
    /\ send[s].pc = "notify"
    /\ Goto(s, "push")
    /\ UNCHANGED <<group, sent, bars, row, socket, under, cut>>

\* The push, for whoever got a bell row.
Push(s) ==
    /\ send[s].pc = "push"
    /\ Done(s)
    /\ UNCHANGED <<group, sent, bars, row, socket, cut>>

\* A statement fails or the process dies: the rest of the send is lost.
Fail(s) ==
    /\ send[s].pc # "idle"
    /\ Done(s)
    /\ cut' = TRUE
    /\ UNCHANGED <<group, sent, bars, row, socket>>

-----------------------------------------------------------------------------
(* The reader's row: hide, archive, unarchive, mute, unmute, leave, join *)

Hide ==
    /\ hidden' = sent
    /\ UNCHANGED <<group, sent, bars, archived, muted, left, socket, send, under, cut>>

Archive ==
    /\ archived' = sent
    /\ UNCHANGED <<group, sent, bars, hidden, muted, left, socket, send, under, cut>>

Unarchived ==
    /\ archived' = Never
    /\ UNCHANGED <<group, sent, bars, hidden, muted, left, socket, send, under, cut>>

Mute ==
    /\ muted' = sent
    /\ UNCHANGED <<group, sent, bars, hidden, archived, left, socket, send, under, cut>>

Unmute ==
    /\ muted' = Never
    /\ UNCHANGED <<group, sent, bars, hidden, archived, left, socket, send, under, cut>>

Leave ==
    /\ group /\ left = Never
    /\ left' = sent
    /\ UNCHANGED <<group, sent, bars, hidden, archived, muted, socket, send, under, cut>>

Rejoin ==
    /\ left # Never
    /\ left' = Never /\ hidden' = Never
    /\ UNCHANGED <<group, sent, bars, archived, muted, socket, send, under, cut>>

-----------------------------------------------------------------------------
(* The reader's socket, and what shuts the sender out *)

SetSocket(f, r) ==
    /\ foreground' = f /\ inRoom' = r
    /\ since' = IF ~(f /\ r) THEN 0 ELSE IF Viewing THEN since ELSE sent
    /\ UNCHANGED <<group, sent, bars, row, send, under, cut>>

\* viewing:set with this conversation.
ViewingSet == ~inRoom /\ SetSocket(foreground, TRUE)

\* viewing:clear, or viewing:set with another room.
ViewingClear == inRoom /\ SetSocket(foreground, FALSE)

\* app:foreground, or a new connection.
AppForeground == ~foreground /\ SetSocket(TRUE, inRoom)

\* app:background, or the socket is gone.
AppBackground == foreground /\ SetSocket(FALSE, FALSE)

\* A group archives and its sender leaves or is kicked; the reader of a 1:1
\* blocks the sender or is banned.
Raise(b) ==
    /\ b \in Bars \ bars
    /\ group = (b \in {"gone", "closed"})
    /\ bars' = bars \cup {b}
    /\ UNCHANGED <<group, sent, row, socket, send, under, cut>>

\* A group never leaves the archive; the sender may come back to it.
Lift(b) ==
    /\ b \in bars \ {"closed"}
    /\ bars' = bars \ {b}
    /\ under' = [s \in Sends |-> under[s] \ {b}]
    /\ UNCHANGED <<group, sent, row, socket, send, cut>>

-----------------------------------------------------------------------------

SendStep(s) ==
    \/ \E k \in Kinds : Arrive(s, k)
    \/ CheckMember(s)
    \/ CheckConvo(s)
    \/ CheckBlock(s)
    \/ CheckBan(s)
    \/ Insert(s)
    \/ Unhide(s)
    \/ Unarchive(s)
    \/ ReadMembers(s)
    \/ CheckViewing(s)
    \/ ReadMute(s)
    \/ Notify(s)
    \/ Push(s)
    \/ Fail(s)

RowStep == Hide \/ Archive \/ Unarchived \/ Mute \/ Unmute \/ Leave \/ Rejoin

SocketStep == ViewingSet \/ ViewingClear \/ AppForeground \/ AppBackground

Next ==
    \/ \E s \in Sends : SendStep(s)
    \/ RowStep
    \/ SocketStep
    \/ \E b \in Bars : Raise(b) \/ Lift(b)

Spec == Init /\ [][Next]_vars

-----------------------------------------------------------------------------
(* Properties *)

\* The stamp was set before message m.
Before(stamp, m) == stamp # Never /\ stamp < m

\* A send that arrived under a bar which has stayed up never gets its message
\* in, whichever of the gates' reads it is at when other bars come and go.
BarHolds ==
    \A s \in Sends : under[s] # {} => send[s].pc \in Gates \ {"insert"}

\* No message is left in a conversation its reader cannot see: one hidden before
\* the message is about to be shown again, unless a process died.
ShownAgain ==
    \A m \in 1..sent :
       Before(hidden, m) => cut \/ \E s \in Sends : send[s].pc = "unhide" /\ send[s].msg >= m

\* The reader gets the chat:notification of the message in slot s.
Told(s) == send[s].pc = "notify" /\ send'[s].pc = "push"

\* The reader is told of a message only when the conversation is back in the
\* list: neither hidden nor, voice messages aside, archived since before it.
ListedBeforeTold ==
    [][\A s \in Sends : Told(s) =>
          /\ ~Before(hidden, send[s].msg)
          /\ send[s].kind # "voice" => ~Before(archived, send[s].msg)]_vars

\* Whoever asked for quiet before a message has it, though the send looks at each
\* question at another moment: one who left and stayed away, one who has been
\* looking at the conversation all along, and one who muted it, unless the message
\* is directed at them in a group or its send had read the members before.
QuietIsKept ==
    [][\A s \in Sends : Told(s) =>
          /\ ~Before(left, send[s].msg)
          /\ ~(Viewing /\ since < send[s].msg)
          /\ ~send[s].quiet /\ Before(muted, send[s].msg) => send[s].kind = "directed"]_vars

\* Nobody is told too early, nor against their wish.
ToldRightly == ListedBeforeTold /\ QuietIsKept
=============================================================================
