------------------------------ MODULE Reactions ------------------------------
(***************************************************************************)
(* One reaction of one user on one message (routes/reactions.ts), with the *)
(* events by which the clients in the room follow it, or on one article    *)
(* (routes/news.ts), which only the user's own client is told of.          *)
(*                                                                         *)
(* The rows made are numbered: a handler deletes the row it has read.      *)
(***************************************************************************)
EXTENDS Naturals

CONSTANTS
    Taps,     \* slots of requests in flight
    MaxRows   \* bound on the rows of a behaviour

VARIABLES
    on,       \* what the reaction is on
    row,      \* the row there is, 0 = none
    made,     \* rows made so far
    there,    \* the message or article is there
    shown,    \* what a client in the room, or the user's own, shows
    tap,      \* the request in each slot
    jostled   \* history: two requests overlapped, or one was cut off

reactionVars == <<on, row, made, there, shown, tap, jostled>>

Rows == 0..MaxRows
Tap == [pc : {"idle", "existing", "message", "insert", "delete", "tell"},
        by : {"toggle", "add", "remove"}, id : Rows, adds : BOOLEAN]
NoTap == [pc |-> "idle", by |-> "toggle", id |-> 0, adds |-> FALSE]

TypeOK ==
    /\ on \in {"message", "article"}
    /\ row \in Rows /\ made \in Rows /\ row <= made
    /\ there \in BOOLEAN /\ shown \in BOOLEAN
    /\ tap \in [Taps -> Tap]
    /\ jostled \in BOOLEAN

Init ==
    /\ on \in {"message", "article"}
    /\ row = 0 /\ made = 0
    /\ there = TRUE /\ shown = FALSE
    /\ tap = [t \in Taps |-> NoTap]
    /\ jostled = FALSE

Close(t) == tap' = [tap EXCEPT ![t] = NoTap]

-----------------------------------------------------------------------------
(* The handlers *)

\* Toggle and add read the message first.
React(t, by) ==
    /\ on = "message"
    /\ tap[t].pc = "idle" /\ there
    /\ tap' = [tap EXCEPT ![t] = [NoTap EXCEPT !.by = by,
                                   !.pc = IF by = "toggle" THEN "existing" ELSE "insert"]]
    /\ jostled' = (jostled \/ \E k \in Taps : tap[k].pc # "idle")
    /\ UNCHANGED <<on, row, made, there, shown>>

\* POST /news/reactions/toggle.
ReactToArticle(t) ==
    /\ on = "article"
    /\ tap[t].pc = "idle" /\ there
    /\ tap' = [tap EXCEPT ![t] = [NoTap EXCEPT !.pc = "existing"]]
    /\ jostled' = (jostled \/ \E k \in Taps : tap[k].pc # "idle")
    /\ UNCHANGED <<on, row, made, there, shown>>

\* DELETE /:id finds the row, and that it is the user's.
Remove(t) ==
    /\ on = "message"
    /\ tap[t].pc = "idle" /\ row # 0
    /\ tap' = [tap EXCEPT ![t] = [NoTap EXCEPT !.by = "remove", !.id = row, !.pc = "message"]]
    /\ jostled' = (jostled \/ \E k \in Taps : tap[k].pc # "idle")
    /\ UNCHANGED <<on, row, made, there, shown>>

ReadExisting(t) ==
    /\ tap[t].pc = "existing"
    /\ tap' = [tap EXCEPT ![t].id = row, ![t].pc = IF row = 0 THEN "insert" ELSE "delete"]
    /\ UNCHANGED <<on, row, made, there, shown, jostled>>

ReadMessage(t) ==
    /\ tap[t].pc = "message"
    /\ tap' = [tap EXCEPT ![t].pc = "delete"]
    /\ UNCHANGED <<on, row, made, there, shown, jostled>>

\* The row is unique: a second one is a conflict to add and throws in toggle,
\* as it does when what it is on is gone.
Insert(t) ==
    /\ tap[t].pc = "insert"
    /\ IF row # 0 \/ ~there
       THEN Close(t) /\ UNCHANGED <<row, made>>
       ELSE /\ made < MaxRows
            /\ made' = made + 1 /\ row' = made + 1
            /\ tap' = [tap EXCEPT ![t].pc = "tell", ![t].adds = TRUE]
    /\ UNCHANGED <<on, there, shown, jostled>>

\* A row gone by now is told of as removed all the same.
Delete(t) ==
    /\ tap[t].pc = "delete"
    /\ row' = IF row = tap[t].id THEN 0 ELSE row
    /\ tap' = [tap EXCEPT ![t].pc = "tell", ![t].adds = FALSE]
    /\ UNCHANGED <<on, made, there, shown, jostled>>

\* Mutant: the removal of a reaction is told as its addition.
TellAdded(t) ==
    /\ tap[t].pc = "tell"
    /\ shown' = TRUE
    /\ Close(t)
    /\ UNCHANGED <<on, row, made, there, jostled>>

\* reaction:update to the room, or the answer.
Tell(t) ==
    /\ tap[t].pc = "tell"
    /\ shown' = tap[t].adds
    /\ Close(t)
    /\ UNCHANGED <<on, row, made, there, jostled>>

\* The message or the article is deleted, and its reactions with it.
MessageGoes ==
    /\ there
    /\ there' = FALSE /\ row' = 0 /\ shown' = FALSE
    /\ UNCHANGED <<on, made, tap, jostled>>

\* The process stops between the row and the event.
CutOff(t) ==
    /\ tap[t].pc = "tell"
    /\ Close(t)
    /\ jostled' = TRUE
    /\ UNCHANGED <<on, row, made, there, shown>>

Next ==
    \/ \E t \in Taps :
         \/ \E by \in {"toggle", "add"} : React(t, by)
         \/ ReactToArticle(t) \/ Remove(t)
         \/ ReadExisting(t) \/ ReadMessage(t) \/ Insert(t) \/ Delete(t) \/ Tell(t)
         \/ CutOff(t)
    \/ MessageGoes

-----------------------------------------------------------------------------
(* Properties *)

\* Once no request is under way the clients show the reaction there is, unless
\* requests overlapped or one was cut off.
ReactionIsShown ==
    \/ jostled \/ ~there
    \/ \E t \in Taps : tap[t].pc # "idle"
    \/ shown <=> row # 0
=============================================================================
