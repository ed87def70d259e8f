------------------------------ MODULE History ------------------------------
(***************************************************************************)
(* What a reader is answered about one place, a conversation or a room:    *)
(* pages of its history, a window around one message, pages of a search,   *)
(* and its row with the unread count in the lists of chats.  Each answer   *)
(* is put together from several queries while messages arrive, go and are  *)
(* marked read.                                                            *)
(*                                                                         *)
(* created_at counts microseconds, and no two messages share one; the      *)
(* server compares it with Date values, which are cut to a millisecond.    *)
(***************************************************************************)
EXTENDS Integers, FiniteSets

CONSTANTS
    MaxMessages,   \* bound on messages
    MaxClock,      \* bound on the clock
    Milli,         \* microseconds in a millisecond
    Limit,         \* rows of a page
    Half,          \* rows of one half of a window
    Marks          \* requests in flight that mark the place read

VARIABLES
    asks,       \* what the reader asks for: "pages", "window" or "row"
    place,      \* "conversation", "globe" (routes/globe.ts) or "room" (routes/chat.ts)
    clock,      \* microseconds
    msg,        \* the messages, by id
    blocked,    \* the reader has blocked the foe
    position,   \* last_read_at of the reader in the place, 0 for null
    mark,       \* the time each marking request has taken, 0 for none
    scroll,     \* a client paging back through the history or a search
    around,     \* a window being read
    list        \* a row of a list being read

vars == <<asks, place, clock, msg, blocked, position, mark, scroll, around, list>>

Ids     == 1..MaxMessages
Times   == 0..MaxClock
Message == [at : Times, by : {"me", "friend", "foe"}, gone : BOOLEAN]
Absent  == [at |-> 0, by |-> "me", gone |-> FALSE]

\* since: what there was when the client began; kept: what a page left out on
\* purpose, because its author was blocked or it was deleted.
Scroll  == [of : {"none", "history", "search"}, cursor : 0..MaxClock + 1, got : SUBSET Ids,
            more : BOOLEAN, since : SUBSET Ids, kept : SUBSET Ids]
Idle    == [of |-> "none", cursor |-> 0, got |-> {}, more |-> FALSE, since |-> {}, kept |-> {}]
Window  == [pc : {"off", "target", "done"}, target : Ids \cup {0}, kept : SUBSET Ids,
            rows : SUBSET Ids]
NoWindow == [pc |-> "off", target |-> 0, kept |-> {}, rows |-> {}]
\* still: what has been unread all the time; floor: the lowest position since.
Row     == [pc : {"off", "position", "count", "done"}, pos : Times, unread : SUBSET Ids,
            still : SUBSET Ids, floor : Times]
NoRow   == [pc |-> "off", pos |-> 0, unread |-> {}, still |-> {}, floor |-> 0]

\* Ids follow created_at, the messages present are the first ones, and a window
\* that is answered holds its target.
TypeOK ==
    /\ asks \in {"pages", "window", "row"}
    /\ place \in {"conversation", "globe", "room"} /\ clock \in 1..MaxClock
    /\ msg \in [Ids -> Message] /\ blocked \in BOOLEAN
    /\ \A m, n \in Ids : m < n /\ msg[n].at # 0 => msg[m].at \in 1..msg[n].at - 1
    /\ position \in Times /\ mark \in [Marks -> Times]
    /\ scroll \in Scroll /\ around \in Window /\ list \in Row
    /\ around.pc = "done" => around.target \in around.rows

Init ==
    /\ asks \in {"pages", "window", "row"}
    /\ place \in {"conversation", "globe", "room"}
    /\ clock = 1
    /\ msg = [m \in Ids |-> Absent]
    /\ blocked = FALSE /\ position = 0
    /\ mark = [k \in Marks |-> 0]
    /\ scroll = Idle /\ around = NoWindow /\ list = NoRow

There   == {m \in Ids : msg[m].at # 0}
CutTo(t, grain) == (t \div grain) * grain
Cut(t)  == CutTo(t, Milli)
Twins(m) == {n \in There \ {m} : Cut(msg[n].at) = Cut(msg[m].at)}
Unread(ms, pos) == {m \in Ids : ms[m].at > pos /\ ms[m].by # "me" /\ ~ms[m].gone}

-----------------------------------------------------------------------------
(* Messages come and go *)

Post ==
    /\ clock < MaxClock
    /\ \E m \in Ids \ There :
         /\ m = Cardinality(There) + 1
         /\ \E by \in IF asks = "row" THEN {"me", "friend"} ELSE {"friend", "foe"} :
              msg' = [msg EXCEPT ![m] = [at |-> clock, by |-> by, gone |-> FALSE]]
    /\ clock' = clock + 1
    /\ UNCHANGED <<asks, place, blocked, position, mark, scroll, around, list>>

Tick ==
    /\ clock < MaxClock
    /\ clock' = clock + 1
    /\ UNCHANGED <<asks, place, msg, blocked, position, mark, scroll, around, list>>

\* DELETE /messages/:id keeps the row.
Delete ==
    /\ \E m \in There : ~msg[m].gone /\ msg' = [msg EXCEPT ![m].gone = TRUE]
    /\ list' = [list EXCEPT !.still = @ \cap Unread(msg', position)]
    /\ UNCHANGED <<asks, place, clock, blocked, position, mark, scroll, around>>

Block ==
    /\ asks # "row"
    /\ blocked' = ~blocked
    /\ UNCHANGED <<asks, place, clock, msg, position, mark, scroll, around, list>>

-----------------------------------------------------------------------------
(* The read position *)

\* The handlers take the time, which only the lists will read ...
TakeTime(k) ==
    /\ asks = "row"
    /\ mark[k] = 0
    /\ mark' = [mark EXCEPT ![k] = clock]
    /\ UNCHANGED <<asks, place, clock, msg, blocked, position, scroll, around, list>>

Moved(pos) ==
    /\ position' = pos
    /\ list' = [list EXCEPT !.still = @ \cap Unread(msg, pos),
                            !.floor = IF pos < @ THEN pos ELSE @]

Write(k) ==
    /\ mark[k] # 0
    /\ Moved(mark[k])
    /\ mark' = [mark EXCEPT ![k] = 0]
    /\ UNCHANGED <<asks, place, clock, msg, blocked, scroll, around>>

\* ... and write it, whatever is there: POST /chats/room-read,
\* PUT /globe/rooms/:slug/read, PUT /globe/rooms/mark-all-read.
RoomRead(k)     == place # "conversation" /\ Write(k)
GlobeRead(k)    == place # "conversation" /\ Write(k)
GlobeReadAll(k) == place = "globe" /\ Write(k)

\* PUT /chat/conversations/mark-all-read
ConversationsRead(k) == place = "conversation" /\ Write(k)

-----------------------------------------------------------------------------
(* Pages *)

\* The first n of a set of messages by time, the newest first.
Newest(S, n) == {m \in S : Cardinality({o \in S : msg[o].at > msg[m].at}) < n}
\* Mutant: the newer half is ordered like the older one.
OldestReversed(S, n) == {m \in S : Cardinality({o \in S : msg[o].at > msg[m].at}) < n}

\* The first n by time.
Oldest(S, n) == {m \in S : Cardinality({o \in S : msg[o].at < msg[m].at}) < n}

Begin(of) ==
    /\ asks = "pages" /\ scroll = Idle
    /\ scroll' = [Idle EXCEPT !.of = of, !.cursor = MaxClock + 1, !.more = TRUE,
                              !.since = There]
    /\ UNCHANGED <<asks, place, clock, msg, blocked, position, mark, around, list>>

BeginHistory == Begin("history")
BeginSearch  == Begin("search")

\* One page of what is older than the cursor; a short page is the last.  The next
\* cursor is the oldest createdAt of the page, cut to the grain of the clock that handed it over.
Page(kept, grain) ==
    /\ scroll.more
    /\ LET rows == Newest({m \in There \ kept : msg[m].at < scroll.cursor}, Limit)
           end  == CHOOSE m \in rows : \A n \in rows : m <= n
       IN scroll' = [scroll EXCEPT !.got = @ \cup rows, !.kept = @ \cup kept,
                                   !.more = Cardinality(rows) = Limit,
                                   !.cursor = IF rows = {} THEN @ ELSE CutTo(msg[end].at, grain)]
    /\ UNCHANGED <<asks, place, clock, msg, blocked, mark, around>>

Foes    == IF blocked THEN {m \in There : msg[m].by = "foe"} ELSE {}
Deleted == {m \in There : msg[m].gone}

\* Every page of a conversation first moves the read position to now; deleted
\* messages stay in the page as tombstones, and blocked authors too.
ConversationPage ==
    /\ place = "conversation" /\ scroll.of = "history"
    /\ Page({}, Milli)
    /\ Moved(clock)

\* Mutant: tombstones are left out after the rows are counted.
GlobePageShort ==
    /\ place = "globe" /\ scroll.of = "history"
    /\ scroll.more
    /\ LET rows == Newest({m \in There \ Foes : msg[m].at < scroll.cursor}, Limit)
           end  == CHOOSE m \in rows : \A n \in rows : m <= n
       IN scroll' = [scroll EXCEPT !.got = @ \cup rows, !.kept = @ \cup Foes,
                                   !.more = Cardinality(rows \ Deleted) = Limit,
                                   !.cursor = IF rows = {} THEN @ ELSE Cut(msg[end].at)]
    /\ UNCHANGED <<asks, place, clock, msg, blocked, mark, around, position, list>>

GlobePage ==
    /\ place = "globe" /\ scroll.of = "history"
    /\ Page(Foes, Milli)
    /\ UNCHANGED <<position, list>>

RoomPage ==
    /\ place = "room" /\ scroll.of = "history"
    /\ Page(Foes, Milli)
    /\ UNCHANGED <<position, list>>

\* The search leaves deleted messages out; its cursor is a timestamp as the driver
\* hands it over, a Date or the exact text, with the id to break ties.
SearchPage ==
    /\ scroll.of = "search"
    /\ \E grain \in {Milli, 1} : Page(Foes \cup Deleted, grain)
    /\ UNCHANGED <<position, list>>

Leave ==
    /\ scroll # Idle
    /\ scroll' = Idle
    /\ UNCHANGED <<asks, place, clock, msg, blocked, position, mark, around, list>>

-----------------------------------------------------------------------------
(* A window around a message *)

\* The message must be there and not deleted; a conversation is marked read.
Target ==
    /\ asks = "window" /\ around.pc = "off"
    /\ \E t \in There \ Deleted : around' = [around EXCEPT !.pc = "target", !.target = t]
    /\ IF place = "conversation" THEN Moved(clock) ELSE UNCHANGED <<position, list>>
    /\ UNCHANGED <<asks, place, clock, msg, blocked, mark, scroll>>

\* Both halves by (created_at, id) against the target's createdAt, cut, and the
\* target, whatever has become of it.
Surround(kept) ==
    /\ around.pc = "target"
    /\ LET t     == around.target
           edge  == Cut(msg[t].at)
           rest  == There \ (kept \cup {t})
           Before(m) == msg[m].at < edge \/ (msg[m].at = edge /\ m < t)
           older == Newest({m \in rest : Before(m)}, Half)
           newer == Oldest({m \in rest : ~Before(m)}, Half)
       IN around' = [around EXCEPT !.pc = "done", !.kept = kept,
                                   !.rows = older \cup {t} \cup newer]
    /\ UNCHANGED <<asks, place, clock, msg, blocked, position, mark, scroll, list>>

ConversationAround == place = "conversation" /\ Surround(Deleted)
GlobeAround == place = "globe" /\ Surround(Deleted \cup Foes)
RoomAround  == place = "room" /\ Surround(Deleted \cup Foes)

AroundAnswered ==
    /\ around.pc = "done"
    /\ around' = NoWindow
    /\ UNCHANGED <<asks, place, clock, msg, blocked, position, mark, scroll, list>>

-----------------------------------------------------------------------------
(* The row of a list *)

ListBegin ==
    /\ asks = "row" /\ list.pc = "off"
    /\ list' = [NoRow EXCEPT !.pc = "position", !.still = Unread(msg, position),
                             !.floor = position]
    /\ UNCHANGED <<asks, place, clock, msg, blocked, position, mark, scroll, around>>

\* Mutant: the position is looked up under the wrong slug.
ListPositionElsewhere ==
    /\ list.pc = "position" /\ place # "conversation"
    /\ list' = [list EXCEPT !.pc = "count", !.pos = 0]
    /\ UNCHANGED <<asks, place, clock, msg, blocked, position, mark, scroll, around>>

\* The lists of rooms read the position first ...
ListPosition ==
    /\ list.pc = "position" /\ place # "conversation"
    /\ list' = [list EXCEPT !.pc = "count", !.pos = position]
    /\ UNCHANGED <<asks, place, clock, msg, blocked, position, mark, scroll, around>>

Count(pos, without) ==
    /\ list' = [list EXCEPT !.pc = "done", !.unread = {m \in There \ without :
                              msg[m].at > pos /\ msg[m].by # "me"}]
    /\ UNCHANGED <<asks, place, clock, msg, blocked, position, mark, scroll, around>>

\* ... and count against it: the rooms of GET /chats ...
ListRooms ==
    /\ list.pc = "count"
    /\ Count(list.pos, Deleted)

\* ... and GET /globe/unread, which counts deleted messages.
ListUnread ==
    /\ list.pc = "count" /\ place = "globe"
    /\ Count(list.pos, {})

\* Conversations are counted by one query with the position, deleted ones too, in
\* GET /chats ...
ListConversations ==
    /\ list.pc = "position" /\ place = "conversation"
    /\ Count(position, {})

\* ... in GET /chats/archived ...
ListArchived ==
    /\ list.pc = "position" /\ place = "conversation"
    /\ Count(position, {})

\* ... and in GET /chat/conversations.
ChatConversations ==
    /\ list.pc = "position" /\ place = "conversation"
    /\ Count(position, {})

ListAnswered ==
    /\ list.pc = "done"
    /\ list' = NoRow
    /\ UNCHANGED <<asks, place, clock, msg, blocked, position, mark, scroll, around>>

-----------------------------------------------------------------------------

Next ==
    \/ Post
    \/ Tick
    \/ Delete
    \/ Block
    \/ \E k \in Marks :
         \/ TakeTime(k)
         \/ RoomRead(k)
         \/ GlobeRead(k)
         \/ GlobeReadAll(k)
         \/ ConversationsRead(k)
    \/ BeginHistory
    \/ BeginSearch
    \/ ConversationPage
    \/ GlobePage
    \/ RoomPage
    \/ SearchPage
    \/ Leave
    \/ Target
    \/ ConversationAround
    \/ GlobeAround
    \/ RoomAround
    \/ AroundAnswered
    \/ ListBegin
    \/ ListPosition
    \/ ListRooms
    \/ ListUnread
    \/ ListConversations
    \/ ListArchived
    \/ ChatConversations
    \/ ListAnswered

Spec == Init /\ [][Next]_vars

-----------------------------------------------------------------------------

\* A client that has paged to the end holds every message there was when it began,
\* but for those a page left out on purpose and those that share a millisecond
\* with another one, which the cut cursor jumps over.
PagesReachBack ==
    scroll.of # "none" /\ ~scroll.more =>
        \A m \in scroll.since \ scroll.kept : m \in scroll.got \/ Twins(m) # {}

\* A window has no hole: what lies between two of its messages is in it, is hidden
\* from the reader, or shares the millisecond of the target.
WindowHasNoHole ==
    around.pc = "done" =>
        \A m \in Ids \ (around.rows \cup around.kept \cup Twins(around.target)) :
            (\A n \in around.rows : m < n) \/ (\A n \in around.rows : m > n)

\* An answered row counts all that has been unread since the list was asked for,
\* and nothing that was read all that time, however the marks overlapped.
CountsAreCurrent ==
    list.pc = "done" =>
        /\ list.still \subseteq list.unread
        /\ \A m \in list.unread : msg[m].by # "me" /\ msg[m].at > list.floor
=============================================================================
