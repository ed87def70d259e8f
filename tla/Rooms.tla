------------------------------- MODULE Rooms -------------------------------
(***************************************************************************)
(* One room and one of its possible members, the reader: how the reader's  *)
(* socket comes to be subscribed (socket/index.ts, globe:join), what a     *)
(* send to the room does (socket/globeHandler.ts, socket/roomHandler.ts),  *)
(* how the reader joins, leaves and moves (routes/globe.ts, GET /auth/me)  *)
(* and what a change of tier takes away (services/capabilityInvalidation). *)
(*                                                                         *)
(* The room is a topic room, or a time zone.  A zone has two doors: those  *)
(* who live in it send and listen through `timezone:<slug>` (via "local"), *)
(* those who joined it from elsewhere through `globe-feed:<slug>` (via     *)
(* "globe"); the messages are stored together.  A timestamp is the number  *)
(* of messages there were when it was set.                                 *)
(***************************************************************************)
EXTENDS Naturals

CONSTANTS
    Sends,         \* slots of sends in flight
    Passes,        \* slots of invalidations under way
    MaxMessages,   \* bound on the messages of a behaviour
    Never          \* no timestamp

VARIABLES
    zone,       \* the room is a time zone, else a topic room
    sent,       \* how many messages there are: they are numbered from 1
    entitled,   \* the reader's tier gives access to foreign zones
    native,     \* since when the reader's profile is in the zone, or Never
    member,     \* since when the reader has a membership row, or Never
    moving,     \* a GET /me has moved the reader away and may keep the row
    evict,      \* the invalidation in each slot: a change of tier owes one
    sock,       \* the reader's socket
    send,       \* the send in each slot
    rows,       \* how many bell rows the reader has for a message
    heard,      \* the messages that came over the socket
    seen,       \* history: messages whose reader was found looking
    lost,       \* history: messages whose send was broken off
    loose       \* history: the feed lost its backing, see FeedIsPaidFor

vars == <<zone, sent, entitled, native, member, moving, evict, sock, send,
          rows, heard, seen, lost, loose>>

reader == <<entitled, native, member, moving, evict>>
fate   == <<rows, heard, seen, lost>>

Time == 0..MaxMessages
Vias  == {"globe", "local"}
Kinds == {"plain", "mention", "reply", "voice"}

\* ent and nat are what the handshake read, row what the connection read; feed,
\* here and local are the socket.io rooms; view is the viewing key.
Socket == [pc : {"off", "auth", "user", "list", "on"}, ent : BOOLEAN, nat : BOOLEAN,
           row : BOOLEAN, feed : BOOLEAN, here : BOOLEAN, local : BOOLEAN, view : BOOLEAN]
NoSocket == [pc |-> "off", ent |-> FALSE, nat |-> FALSE, row |-> FALSE,
             feed |-> FALSE, here |-> FALSE, local |-> FALSE, view |-> FALSE]

Send == [pc : {"idle", "gate", "mention", "insert", "emit", "look", "ring", "fan",
               "watch", "batch"},
         via : Vias, kind : Kinds, msg : Time, directed : BOOLEAN]
NoSend == [pc |-> "idle", via |-> "globe", kind |-> "plain", msg |-> 0, directed |-> FALSE]

Unsent == {"idle", "gate", "mention", "insert"}

\* emitCapabilityInvalidationToUser: "call" until it is called, then the queries.
Pass == {"idle", "call", "profile", "rows", "find", "leave"}

\* Each part has its type, a topic room has no natives and no second door, and
\* only a socket whose handlers are registered is in a room beyond its own.
TypeOK ==
    /\ zone \in BOOLEAN /\ entitled \in BOOLEAN /\ moving \in BOOLEAN /\ loose \in BOOLEAN
    /\ sent \in Time
    /\ {native, member} \subseteq 0..sent \cup {Never}
    /\ evict \in [Passes -> Pass]
    /\ sock \in Socket
    /\ sock.pc # "on" => ~sock.feed /\ ~sock.here /\ ~sock.local /\ ~sock.view
    /\ send \in [Sends -> Send]
    /\ \A s \in Sends : send[s].pc \notin Unsent => send[s].msg \in 1..sent
    /\ zone \/ (native = Never /\ ~sock.nat /\ \A s \in Sends : send[s].via = "globe")
    /\ rows \in [1..MaxMessages -> 0..2]
    /\ heard \subseteq 1..sent /\ seen \subseteq 1..sent /\ lost \subseteq 1..sent

Init ==
    /\ zone \in BOOLEAN
    /\ sent = 0
    /\ entitled \in BOOLEAN
    /\ native \in IF zone THEN {0, Never} ELSE {Never}
    /\ member \in {0, Never}
    /\ moving = FALSE
    /\ evict = [p \in Passes |-> "idle"]
    /\ sock = NoSocket
    /\ send = [s \in Sends |-> NoSend]
    /\ rows = [m \in 1..MaxMessages |-> 0]
    /\ heard = {} /\ seen = {} /\ lost = {} /\ loose = FALSE

Native == native # Never
Member == member # Never

\* The reader has the row, and the tier or an invalidation that is under way.
Backed == Member /\ (entitled \/ \E p \in Passes : evict[p] # "idle")

-----------------------------------------------------------------------------
(* The socket: handshake, connection, subscriptions *)

\* io.use: the profile, the tier and the zone, once for the life of the socket.
Handshake ==
    /\ sock.pc = "off"
    /\ sock' = [sock EXCEPT !.pc = "auth", !.ent = entitled, !.nat = Native]
    /\ UNCHANGED <<zone, sent, reader, send, fate, loose>>

\* The connection: the socket joins the reader's own room.
Connect ==
    /\ sock.pc = "auth"
    /\ sock' = [sock EXCEPT !.pc = "user"]
    /\ UNCHANGED <<zone, sent, reader, send, fate, loose>>

\* The memberships are read; a failed read leaves the socket without feeds.
ListRooms ==
    /\ sock.pc = "user"
    /\ \E row \in {Member, FALSE} : sock' = [sock EXCEPT !.pc = "list", !.row = row]
    /\ UNCHANGED <<zone, sent, reader, send, fate, loose>>

\* What the tier and the zone of the handshake allow.
MayListen == ~zone \/ sock.nat \/ sock.ent

\* The feed of a joined room, for zones only if it is a foreign one and the tier
\* allows it, then the door of the own zone and the handlers.
Subscribe ==
    /\ sock.pc = "list"
    /\ LET feed == sock.row /\ (zone => ~sock.nat /\ sock.ent) IN
       /\ sock' = [sock EXCEPT !.pc = "on", !.feed = feed, !.local = sock.nat]
       /\ loose' = (feed /\ ~Backed)
    /\ UNCHANGED <<zone, sent, reader, send, fate>>

\* The handlers outlive nothing: all rooms and the viewing key go, and a pass
\* that found this socket has none left to take out of the feed.
Disconnect ==
    /\ sock.pc # "off"
    /\ sock' = NoSocket
    /\ evict' = [p \in Passes |-> IF evict[p] = "leave" THEN "idle" ELSE evict[p]]
    /\ loose' = FALSE
    /\ UNCHANGED <<zone, sent, entitled, native, member, moving, send, fate>>

\* globe:join of this room: presence and feed.
GlobeJoin ==
    /\ sock.pc = "on" /\ MayListen
    /\ sock' = [sock EXCEPT !.here = TRUE, !.feed = TRUE]
    /\ loose' = (loose \/ ~Backed)
    /\ UNCHANGED <<zone, sent, reader, send, fate>>

\* globe:leave, or globe:join of another room: presence goes, the feed stays.
GlobeLeave ==
    /\ sock.here
    /\ sock' = [sock EXCEPT !.here = FALSE]
    /\ UNCHANGED <<zone, sent, reader, send, fate, loose>>

\* viewing:set and viewing:clear with the canonical key of the room.
SetViewing ==
    /\ sock.pc = "on"
    /\ sock' = [sock EXCEPT !.view = ~sock.view]
    /\ UNCHANGED <<zone, sent, reader, send, fate, loose>>

-----------------------------------------------------------------------------
(* The reader: joins, leaves, moves, changes tier *)

\* POST /rooms/:slug/join
JoinRoom ==
    /\ ~Member
    /\ ~zone \/ Native \/ entitled
    /\ member' = sent
    /\ UNCHANGED <<zone, sent, entitled, native, moving, evict, sock, send, fate, loose>>

\* DELETE /rooms/:slug/join: the row goes, the feed of the socket stays.
LeaveRoom ==
    /\ Member
    /\ member' = Never
    /\ loose' = (loose \/ sock.feed)
    /\ UNCHANGED <<zone, sent, entitled, native, moving, evict, sock, send, fate>>

\* GET /me with another time zone, into this one ...
MoveIn ==
    /\ zone /\ ~Native /\ ~moving
    /\ native' = sent
    /\ UNCHANGED <<zone, sent, entitled, member, moving, evict, sock, send, fate, loose>>

\* ... and out of it: who may listen to foreign zones keeps this one.
MoveAway ==
    /\ Native /\ ~moving
    /\ native' = Never
    /\ moving' = entitled
    /\ UNCHANGED <<zone, sent, entitled, member, evict, sock, send, fate, loose>>

KeepZone ==
    /\ moving
    /\ moving' = FALSE
    /\ member' = IF Member THEN member ELSE sent
    /\ UNCHANGED <<zone, sent, entitled, native, evict, sock, send, fate, loose>>

\* A webhook or an organization writes a change of tier; the invalidation is
\* called once the write has answered.
ChangeTier(p) ==
    /\ evict[p] = "idle"
    /\ entitled' = ~entitled
    /\ evict' = [evict EXCEPT ![p] = "call"]
    /\ UNCHANGED <<zone, sent, native, member, moving, sock, send, fate, loose>>

\* The period ends: nobody is called.  The snapshot of the handshake carries the
\* same end, or that of a period renewed since.
Lapse ==
    /\ entitled \/ sock.ent
    /\ entitled' \in {FALSE, entitled}
    /\ sock' = [sock EXCEPT !.ent = FALSE]
    /\ loose' = (loose \/ sock.feed)
    /\ UNCHANGED <<zone, sent, native, member, moving, evict, send, fate>>

Proceed(p, pc) == evict' = [evict EXCEPT ![p] = pc]

\* The emit, which changes nothing here, and the pass behind it.
EvictCall(p) ==
    /\ evict[p] = "call"
    /\ Proceed(p, "profile")
    /\ UNCHANGED <<zone, sent, entitled, native, member, moving, sock, send, fate, loose>>

\* Mutant: the pass goes by the tier somebody read before.
EvictCheckStale(p) ==
    /\ evict[p] = "profile"
    /\ \E was \in BOOLEAN : Proceed(p, IF was \/ ~zone \/ Native THEN "idle" ELSE "rows")
    /\ loose' = (loose \/ (sock.feed /\ Native))
    /\ UNCHANGED <<zone, sent, entitled, native, member, moving, sock, send, fate>>

\* Tier and zone as they are now: this room is none to drop for who may listen to
\* it, nor is a topic room.  The feed a native holds is not dropped either.
EvictCheck(p) ==
    /\ evict[p] = "profile"
    /\ Proceed(p, IF entitled \/ ~zone \/ Native THEN "idle" ELSE "rows")
    /\ loose' = (loose \/ (sock.feed /\ Native))
    /\ UNCHANGED <<zone, sent, entitled, native, member, moving, sock, send, fate>>

EvictRows(p) ==
    /\ evict[p] = "rows"
    /\ Proceed(p, IF Member THEN "find" ELSE "idle")
    /\ UNCHANGED <<zone, sent, entitled, native, member, moving, sock, send, fate, loose>>

\* fetchSockets asks every process for the sockets in the reader's own room.
EvictFind(p) ==
    /\ evict[p] = "find"
    /\ Proceed(p, IF sock.pc \in {"user", "list", "on"} THEN "leave" ELSE "idle")
    /\ UNCHANGED <<zone, sent, entitled, native, member, moving, sock, send, fate, loose>>

\* Mutant: the socket leaves the presence room instead.
EvictPresence(p) ==
    /\ evict[p] = "leave"
    /\ Proceed(p, "idle")
    /\ sock' = [sock EXCEPT !.here = FALSE]
    /\ UNCHANGED <<zone, sent, entitled, native, member, moving, send, fate, loose>>

\* The socket that was found leaves the feed.
EvictLeave(p) ==
    /\ evict[p] = "leave"
    /\ Proceed(p, "idle")
    /\ sock' = [sock EXCEPT !.feed = FALSE]
    /\ loose' = FALSE
    /\ UNCHANGED <<zone, sent, entitled, native, member, moving, send, fate>>

\* There is no io, the profile is missing, a query fails (which is only logged) or
\* the process dies, before the call or after it: the pass is over.
PassFails(p) ==
    /\ evict[p] # "idle"
    /\ Proceed(p, "idle")
    /\ loose' = (loose \/ (sock.feed /\ ~entitled /\ \A q \in Passes \ {p} : evict[q] = "idle"))
    /\ UNCHANGED <<zone, sent, entitled, native, member, moving, sock, send, fate>>

-----------------------------------------------------------------------------
(* A send by somebody else *)

Goto(s, pc) == send' = [send EXCEPT ![s].pc = pc]
Done(s) == send' = [send EXCEPT ![s] = NoSend]

Arrive(s, via, pc) ==
    /\ send[s].pc = "idle"
    /\ sent < MaxMessages
    /\ \E k \in Kinds :
         send' = [send EXCEPT ![s] = [NoSend EXCEPT !.pc = pc, !.via = via, !.kind = k]]
    /\ UNCHANGED <<zone, sent, reader, sock, fate, loose>>

\* globe:message and globe:voice, past the validation.
GlobeArrive(s) == Arrive(s, "globe", "gate")

\* room:message and room:voice: the zone is that of the sender's handshake.
RoomArrive(s) == zone /\ Arrive(s, "local", "mention")

\* The age of the account, the rate limit, the membership and the tier of the
\* sender, about whom the model knows nothing: the send goes on or ends.
Gate(s) ==
    /\ send[s].pc = "gate"
    /\ Goto(s, "mention") \/ Done(s)
    /\ UNCHANGED <<zone, sent, reader, sock, fate, loose>>

\* Mentions are kept only of those who belong to the room.
Mention(s, via, belongs) ==
    /\ send[s].pc = "mention" /\ send[s].via = via
    /\ send' = [send EXCEPT ![s].pc = "insert",
                            ![s].directed = send[s].kind = "mention" /\ belongs]
    /\ UNCHANGED <<zone, sent, reader, sock, fate, loose>>

GlobeMention(s) == Mention(s, "globe", Member)
RoomMention(s)  == Mention(s, "local", Native)

Store(s, via) ==
    /\ send[s].pc = "insert" /\ send[s].via = via
    /\ sent < MaxMessages
    /\ sent' = sent + 1
    /\ send' = [send EXCEPT ![s].pc = "emit", ![s].msg = sent + 1]
    /\ UNCHANGED <<zone, reader, sock, fate, loose>>

GlobeInsert(s) == Store(s, "globe")
RoomInsert(s)  == Store(s, "local")

\* The broadcast through one door; the author of the message replied to is
\* directed at whether or not they belong, and voice messages ring for nobody.
Emit(s, via, listening) ==
    /\ send[s].pc = "emit" /\ send[s].via = via
    /\ heard' = IF listening THEN heard \cup {send[s].msg} ELSE heard
    /\ IF send[s].kind = "voice" THEN Done(s)
       ELSE LET d == send[s].directed \/ send[s].kind = "reply" IN
            send' = [send EXCEPT ![s].directed = d, ![s].pc = IF d THEN "look" ELSE "fan"]
    /\ UNCHANGED <<zone, sent, reader, sock, rows, seen, lost, loose>>

GlobeEmit(s) == Emit(s, "globe", sock.feed)
RoomEmit(s)  == Emit(s, "local", sock.local)

\* isUserActivelyViewing: no row and no push for who looks at the room.
Look(s, from, next) ==
    /\ send[s].pc = from
    /\ IF sock.view THEN Done(s) /\ seen' = seen \cup {send[s].msg}
       ELSE Goto(s, next) /\ UNCHANGED seen
    /\ UNCHANGED <<zone, sent, reader, sock, rows, heard, lost, loose>>

LookDirected(s) == Look(s, "look", "ring")
LookBatch(s)    == Look(s, "watch", "batch")

Ring(s, from, after) ==
    /\ send[s].pc = from
    /\ rows' = [rows EXCEPT ![send[s].msg] = @ + 1]
    /\ send' = [send EXCEPT ![s] = after]
    /\ UNCHANGED <<zone, sent, reader, sock, heard, seen, lost, loose>>

\* The mention row of a directed target, then its push; the fan-out follows.
RingDirected(s) == Ring(s, "ring", [send[s] EXCEPT !.pc = "fan"])

\* The rows of the batch.
RingBatch(s) == Ring(s, "batch", NoSend)

\* The deferred fan-out: who belongs now, without the directed targets.
Fan(s, via, belongs) ==
    /\ send[s].pc = "fan" /\ send[s].via = via
    /\ IF belongs /\ ~send[s].directed THEN Goto(s, "watch") ELSE Done(s)
    /\ UNCHANGED <<zone, sent, reader, sock, fate, loose>>

\* Mutant: directed targets are not taken out of the fan-out.
GlobeFanAll(s) ==
    /\ send[s].pc = "fan" /\ send[s].via = "globe"
    /\ IF Member THEN Goto(s, "watch") ELSE Done(s)
    /\ UNCHANGED <<zone, sent, reader, sock, fate, loose>>

GlobeFan(s) == Fan(s, "globe", Member)
RoomFan(s)  == Fan(s, "local", Native)

\* An awaited call fails, or the process stops: the rest of the send is lost.
Fail(s) ==
    /\ send[s].pc # "idle"
    /\ Done(s)
    /\ lost' = IF send[s].pc \in Unsent THEN lost ELSE lost \cup {send[s].msg}
    /\ UNCHANGED <<zone, sent, reader, sock, rows, heard, seen, loose>>

-----------------------------------------------------------------------------

SocketStep ==
    \/ Handshake
    \/ Connect
    \/ ListRooms
    \/ Subscribe
    \/ Disconnect
    \/ GlobeJoin
    \/ GlobeLeave
    \/ SetViewing

PassStep(p) ==
    \/ ChangeTier(p)
    \/ EvictCall(p)
    \/ EvictCheck(p)
    \/ EvictRows(p)
    \/ EvictFind(p)
    \/ EvictLeave(p)
    \/ PassFails(p)

ReaderStep ==
    \/ JoinRoom
    \/ LeaveRoom
    \/ MoveIn
    \/ MoveAway
    \/ KeepZone
    \/ Lapse
    \/ \E p \in Passes : PassStep(p)

SendStep(s) ==
    \/ GlobeArrive(s)
    \/ RoomArrive(s)
    \/ Gate(s)
    \/ GlobeMention(s)
    \/ RoomMention(s)
    \/ GlobeInsert(s)
    \/ RoomInsert(s)
    \/ GlobeEmit(s)
    \/ RoomEmit(s)
    \/ LookDirected(s)
    \/ RingDirected(s)
    \/ GlobeFan(s)
    \/ RoomFan(s)
    \/ LookBatch(s)
    \/ RingBatch(s)
    \/ Fail(s)

Next == SocketStep \/ ReaderStep \/ \E s \in Sends : SendStep(s)

Spec == Init /\ [][Next]_vars

-----------------------------------------------------------------------------

\* A send that runs to its end has rung for, or was seen by, a reader who belonged
\* to the door it came through since before the message and through the deferred
\* fan-out, unless it is a voice message.
MembersAreTold ==
    [][\A s \in Sends :
         LET m == send[s].msg
             since == IF send[s].via = "globe" THEN member ELSE native
         IN (/\ send[s].pc \notin Unsent /\ send'[s].pc = "idle" /\ m \notin lost'
             /\ send[s].kind # "voice" /\ since # Never /\ since < m)
            => rows'[m] = 1 \/ m \in seen']_vars

\* However changes of tier and their passes overlap, each pass judging by the tier
\* it reads for itself, the feed of a foreign zone outlives the tier only while a
\* pass is still to come, unless the feed lost its backing in a way no pass makes
\* good, which loose records: a room joined without row or tier (the tier of the
\* handshake admits), a room left, a lapse nobody is called for, a move out of
\* the zone after the pass, a pass that failed with no other behind it.
FeedIsPaidFor ==
    zone /\ sock.feed /\ ~entitled /\ ~Native /\ ~loose
        => \E p \in Passes : evict[p] # "idle"

=============================================================================
