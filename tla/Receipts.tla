------------------------------ MODULE Receipts ------------------------------
(***************************************************************************)
(* Read and delivered receipts (socket/receipts.ts): how last_delivered_at *)
(* and last_read_at of one member, the reader, follow the messages that    *)
(* the others send to a conversation, and what the senders are told of it. *)
(* A send stamps the watermark of a reader who is online, a connection     *)
(* back-fills what was missed, opening the conversation moves the read     *)
(* watermark; each is a chain of awaits that anything may come between.    *)
(*                                                                         *)
(* Messages number their createdAt, and a timestamp is the number of the   *)
(* last message it does not precede: the clock is Len(sent).  Database and *)
(* server clocks agree.  The members stay, receipts are allowed, and the   *)
(* senders are connected.                                                  *)
(***************************************************************************)
EXTENDS Naturals, Sequences

CONSTANTS
    Senders,      \* the other members of the conversation
    Sends,        \* slots of sends in flight
    Connections,  \* slots of back-fills in flight
    Opens,        \* slots of open or mark-read requests in flight
    MaxMessages,  \* bound on the messages of a behaviour
    MayFail,      \* statements may fail and processes may die
    NoSender      \* an unused local

ASSUME SendersAssumption == NoSender \notin Senders
ASSUME BoundAssumption == MaxMessages \in Nat /\ MayFail \in BOOLEAN

VARIABLES
    sent,         \* the messages of the conversation, by sender
    online,       \* the reader has a socket in their user room
    delivered,    \* last_delivered_at of the reader, 0 = null
    read,         \* last_read_at of the reader, 0 = null
    told,         \* the latest deliveredUpTo each sender has received
    seen,         \* the latest readUpTo each sender has received
    send,         \* the send in each slot
    fill,         \* the back-fill of each slot
    open,         \* the open or mark-read request of each slot
    lost          \* history: receipts of messages up to here a failure may have cost

receiptsVars == <<sent, online, delivered, read, told, seen, send, fill, open, lost>>

Time == 0..MaxMessages

Send == [pc : {"idle", "check", "stamp", "update", "emit"},
         by : Senders \cup {NoSender}, upTo : Time]
Fill == [pc : {"idle", "query", "advance", "fan"}, upTo : Time]
Open == [pc : {"idle", "claim", "emit"}, upTo : Time]

NoSend == [pc |-> "idle", by |-> NoSender, upTo |-> 0]
NoFill == [pc |-> "idle", upTo |-> 0]
NoOpen == [pc |-> "idle", upTo |-> 0]

ReceiptsTypeOK ==
    /\ sent \in Seq(Senders) /\ Len(sent) <= MaxMessages
    /\ online \in BOOLEAN
    /\ delivered \in Time /\ delivered <= Len(sent)
    /\ read \in Time /\ read <= Len(sent)
    /\ told \in [Senders -> Time] /\ seen \in [Senders -> Time]
    /\ send \in [Sends -> Send]
    /\ \A h \in Sends : /\ send[h].pc # "idle" => send[h].by \in Senders
                        /\ send[h].upTo <= Len(sent)
    /\ fill \in [Connections -> Fill]
    /\ \A c \in Connections : /\ fill[c].pc \in {"advance", "fan"} => fill[c].upTo # 0
                              /\ fill[c].upTo <= Len(sent)
    /\ open \in [Opens -> Open]
    /\ lost \in Time /\ lost <= Len(sent)

ReceiptsInit ==
    /\ sent = <<>>
    /\ online = FALSE
    /\ delivered = 0 /\ read = 0
    /\ told = [s \in Senders |-> 0] /\ seen = [s \in Senders |-> 0]
    /\ send = [h \in Sends |-> NoSend]
    /\ fill = [c \in Connections |-> NoFill]
    /\ open = [o \in Opens |-> NoOpen]
    /\ lost = 0

Now == Len(sent)

Later(t, u) == IF t < u THEN u ELSE t

-----------------------------------------------------------------------------
(* dm:message and dm:voice, from the insert to emitDeliveredOnSend *)

Insert(h, s) ==
    /\ send[h].pc = "idle"
    /\ Now < MaxMessages
    /\ sent' = Append(sent, s)
    /\ send' = [send EXCEPT ![h] = [NoSend EXCEPT !.pc = "check", !.by = s]]
    /\ UNCHANGED <<online, delivered, read, told, seen, fill, open, lost>>

\* fetchSockets answers for the reader; other recipients may answer later.
CheckOnline(h) ==
    /\ send[h].pc = "check"
    /\ send' = [send EXCEPT ![h] = IF online THEN [@ EXCEPT !.pc = "stamp"] ELSE NoSend]
    /\ UNCHANGED <<sent, online, delivered, read, told, seen, fill, open, lost>>

\* All have answered: now = new Date(), the UPDATE is on its way.
Stamp(h) ==
    /\ send[h].pc = "stamp"
    /\ send' = [send EXCEPT ![h].pc = "update", ![h].upTo = Now]
    /\ UNCHANGED <<sent, online, delivered, read, told, seen, fill, open, lost>>

UpdateDelivered(h) ==
    /\ send[h].pc = "update"
    /\ delivered' = send[h].upTo
    /\ send' = [send EXCEPT ![h].pc = "emit"]
    /\ UNCHANGED <<sent, online, read, told, seen, fill, open, lost>>

EmitDelivered(h) ==
    /\ send[h].pc = "emit"
    /\ told' = [told EXCEPT ![send[h].by] = Later(@, send[h].upTo)]
    /\ send' = [send EXCEPT ![h] = NoSend]
    /\ UNCHANGED <<sent, online, delivered, read, seen, fill, open, lost>>

-----------------------------------------------------------------------------
(* io.on('connection') and backfillDeliveryOnConnect *)

\* No send and no back-fill is under way.
AtRest ==
    /\ \A h \in Sends : send[h].pc = "idle"
    /\ \A c \in Connections : fill[c].pc = "idle"

\* A socket joins the reader's user room, perhaps beside others, before its
\* back-fill starts; with nothing else under way that makes up for failures.
Connect(c) ==
    /\ fill[c].pc = "idle"
    /\ online' = TRUE
    /\ fill' = [fill EXCEPT ![c].pc = "query"]
    /\ lost' = IF AtRest THEN 0 ELSE lost
    /\ UNCHANGED <<sent, delivered, read, told, seen, send, open>>

\* The last socket of the reader is gone.
Disconnect ==
    /\ online
    /\ online' = FALSE
    /\ UNCHANGED <<sent, delivered, read, told, seen, send, fill, open, lost>>

\* Mutant: the back-fill starts from the read watermark.
QueryUnread(c) ==
    /\ fill[c].pc = "query"
    /\ fill' = [fill EXCEPT ![c] = IF Now > read
                                   THEN [pc |-> "advance", upTo |-> Now]
                                   ELSE NoFill]
    /\ UNCHANGED <<sent, online, delivered, read, told, seen, send, open, lost>>

\* Mutant: a null watermark counts as older than an empty conversation.
QueryAlways(c) ==
    /\ fill[c].pc = "query"
    /\ fill' = [fill EXCEPT ![c] = IF Now > delivered \/ delivered = 0
                                   THEN [pc |-> "advance", upTo |-> Now]
                                   ELSE NoFill]
    /\ UNCHANGED <<sent, online, delivered, read, told, seen, send, open, lost>>

\* The latest message newer than the watermark, if there is one.
QueryUndelivered(c) ==
    /\ fill[c].pc = "query"
    /\ fill' = [fill EXCEPT ![c] = IF Now > delivered
                                   THEN [pc |-> "advance", upTo |-> Now]
                                   ELSE NoFill]
    /\ UNCHANGED <<sent, online, delivered, read, told, seen, send, open, lost>>

\* The driver cuts createdAt to milliseconds, so the watermark that is written
\* lies just before the message it was taken from.
AdvanceDelivered(c) ==
    /\ fill[c].pc = "advance"
    /\ delivered' = fill[c].upTo - 1
    /\ fill' = [fill EXCEPT ![c].pc = "fan"]
    /\ UNCHANGED <<sent, online, read, told, seen, send, open, lost>>

FanDelivered(c) ==
    /\ fill[c].pc = "fan"
    /\ told' = [s \in Senders |-> Later(told[s], fill[c].upTo)]
    /\ fill' = [fill EXCEPT ![c] = NoFill]
    /\ UNCHANGED <<sent, online, delivered, read, seen, send, open, lost>>

-----------------------------------------------------------------------------
(* Opening the conversation or marking it read, and emitReadForConversation *)

MarkRead(o) ==
    /\ open[o].pc = "idle"
    /\ read' = Now
    /\ open' = [open EXCEPT ![o].pc = "claim"]
    /\ UNCHANGED <<sent, online, delivered, told, seen, send, fill, lost>>

\* The conversation and its members have been read: readUpTo = new Date().
ClaimRead(o) ==
    /\ open[o].pc = "claim"
    /\ open' = [open EXCEPT ![o].pc = "emit", ![o].upTo = Now]
    /\ UNCHANGED <<sent, online, delivered, read, told, seen, send, fill, lost>>

EmitRead(o) ==
    /\ open[o].pc = "emit"
    /\ seen' = [s \in Senders |-> Later(seen[s], open[o].upTo)]
    /\ open' = [open EXCEPT ![o] = NoOpen]
    /\ UNCHANGED <<sent, online, delivered, read, told, send, fill, lost>>

-----------------------------------------------------------------------------

(* Failures.  A statement fails, which every caller only logs, or the process
   of the handler dies: the rest of the handler is left undone.  The reader's
   sockets may be with another process; if not, Disconnect says so. *)

SendFails(h) ==
    /\ MayFail /\ send[h].pc # "idle"
    /\ send' = [send EXCEPT ![h] = NoSend]
    /\ lost' = Now
    /\ UNCHANGED <<sent, online, delivered, read, told, seen, fill, open>>

FillFails(c) ==
    /\ MayFail /\ fill[c].pc # "idle"
    /\ fill' = [fill EXCEPT ![c] = NoFill]
    /\ lost' = Now
    /\ UNCHANGED <<sent, online, delivered, read, told, seen, send, open>>

OpenFails(o) ==
    /\ MayFail /\ open[o].pc # "idle"
    /\ open' = [open EXCEPT ![o] = NoOpen]
    /\ UNCHANGED <<sent, online, delivered, read, told, seen, send, fill, lost>>

-----------------------------------------------------------------------------

SendStep(h) ==
    \/ CheckOnline(h)
    \/ Stamp(h)
    \/ UpdateDelivered(h)
    \/ EmitDelivered(h)
    \/ SendFails(h)

FillStep(c) ==
    \/ QueryUndelivered(c)
    \/ AdvanceDelivered(c)
    \/ FanDelivered(c)
    \/ FillFails(c)

OpenStep(o) ==
    \/ ClaimRead(o)
    \/ EmitRead(o)
    \/ OpenFails(o)

ReceiptsNext ==
    \/ \E h \in Sends : SendStep(h) \/ \E s \in Senders : Insert(h, s)
    \/ \E c \in Connections : Connect(c) \/ FillStep(c)
    \/ Disconnect
    \/ \E o \in Opens : MarkRead(o) \/ OpenStep(o)

ReceiptsSpec == ReceiptsInit /\ [][ReceiptsNext]_receiptsVars

-----------------------------------------------------------------------------
(* Properties *)

\* One other member: a 1:1 conversation.
Direct == \A s, t \in Senders : s = t

\* In a 1:1 conversation no message stays "sent" once the reader is connected
\* and nothing is in flight: the sender was told that it was delivered, or finds
\* it in the watermark when the chat is opened, though the watermark may go back.
\* A failed update or fan-out, or a process that dies, costs at most the receipts
\* of the messages sent by then, and those until the reader connects with no
\* send or other back-fill under way.
DeliveryKept ==
    AtRest /\ online => \A m \in (lost + 1)..Now : told[sent[m]] >= m \/ delivered >= m

\* What emitDeliveredOnSend says of a reader who was offline: the back-fill on
\* their reconnect handles delivery later.  (Where nothing fails.)
BackfillHandlesLater ==
    AtRest /\ online => \A m \in 1..Now : told[sent[m]] >= m
=============================================================================
