------------------------------ MODULE MCInbox ------------------------------
(***************************************************************************)
(* What a reader is told and shown: the rooms, the rate limiter in front   *)
(* of them, the histories and lists, and the bell.  The components share   *)
(* no state at the grain of these models, so a behaviour moves one of      *)
(* them, the focus, and the others rest in their initial states.  The      *)
(* rooms come twice: with sends and no change of tier, and with changes of *)
(* tier and no sends, for no send reads or writes what a pass does.        *)
(***************************************************************************)
EXTENDS RateLimit, TLC

CONSTANTS
    Sends, Passes, Marks, Dms, Groups, Requests, NoChat,
    Milli, PageRows, HalfRows,   \* of History: its Limit and Half are PageRows and HalfRows
    RoomMessages, BellMessages,  \* bounds on the messages of a room and of the bell
    PlaceMessages, PlaceTime     \* bounds on the messages and the clock of a history

ASSUME BoundsAssumption ==
    RoomMessages \in Nat /\ BellMessages \in Nat /\ PlaceMessages \in Nat /\ PlaceTime \in Nat \ {0}
ASSUME PagesAssumption == Milli \in Nat \ {0} /\ PageRows \in Nat /\ HalfRows \in Nat
ASSUME ChatsAssumption == NoChat \notin Dms \cup Groups

VARIABLES
    focus,
    zone, sent, entitled, native, member, moving, evict, sock, send, rows, heard, seen, lost, loose,
    asks, place, clock, msg, blocked, position, mark, scroll, around, list,
    posted, rung, unread, lastRead, req

R == INSTANCE Rooms WITH MaxMessages <- RoomMessages
H == INSTANCE History WITH MaxMessages <- PlaceMessages, MaxClock <- PlaceTime,
                           Limit <- PageRows, Half <- HalfRows
B == INSTANCE Bell WITH MaxMessages <- BellMessages, sent <- posted

rvars == <<zone, sent, entitled, native, member, moving, evict, sock, send, rows, heard,
           seen, lost, loose>>
hvars == <<asks, place, clock, msg, blocked, position, mark, scroll, around, list>>
bvars == <<posted, rung, unread, lastRead, req>>

inboxVars == <<focus, vars, rvars, hvars, bvars>>

InboxInit ==
    /\ focus \in {"rooms", "tiers", "limit", "history", "bell"}
    /\ R!Init /\ Init /\ H!Init /\ B!Init
    /\ focus = "tiers" => zone
    /\ focus \notin {"rooms", "tiers"} => ~zone /\ ~entitled /\ member = Never
    /\ focus # "history" => asks = "row" /\ place = "room"

InboxNext ==
    \/ focus = "rooms" /\ UNCHANGED <<focus, evict, vars, hvars, bvars>> /\ R!Next
    \/ focus = "tiers" /\ (R!SocketStep \/ R!ReaderStep) /\ UNCHANGED <<focus, vars, hvars, bvars>>
    \/ focus = "limit" /\ Next /\ UNCHANGED <<focus, rvars, hvars, bvars>>
    \/ focus = "history" /\ H!Next /\ UNCHANGED <<focus, rvars, vars, bvars>>
    \/ focus = "bell" /\ B!Next /\ UNCHANGED <<focus, rvars, vars, hvars>>

InboxSpec == InboxInit /\ [][InboxNext]_inboxVars

Symmetry == Permutations(Marks) \cup Permutations(Requests) \cup Permutations(Passes)

\* The component in focus has its types.
InboxTypeOK ==
    /\ focus \in {"rooms", "tiers"} => R!TypeOK
    /\ focus = "limit" => TypeOK
    /\ focus = "history" => H!TypeOK
    /\ focus = "bell" => B!TypeOK

\* What a reader is answered, put together from several queries while messages
\* come and go, has no gap: pages, windows and counts.
AnswersAreWhole ==
    focus = "history" => H!PagesReachBack /\ H!WindowHasNoHole /\ H!CountsAreCurrent


\* Who belongs to a room through a whole send is told of it.
MembersAreTold == R!MembersAreTold

\* While passes overlap, a tier taken away keeps the feed of no foreign zone that
\* was joined with row and tier, unless the last pass of all fails.
FeedIsPaidFor == focus \in {"rooms", "tiers"} => R!FeedIsPaidFor

\* A clearing request takes a message off the bell and marks it read in its chat
\* together: all it was about, and all it opened.
BellSettles == B!SettledTogether /\ B!OpeningNeverDrifts
=============================================================================
