------------------------------ MODULE Spacing ------------------------------
(***************************************************************************)
(* What the rate limiter of the rooms promises: a user gets one message    *)
(* into a room, and the next one no sooner than a second later, and is     *)
(* never refused when a second has passed.                                 *)
(***************************************************************************)
EXTENDS Integers

CONSTANTS
    Keys,      \* a user in a room
    Second,    \* a second, in ticks of the clock
    Never      \* no message was let through yet

VARIABLES
    now,       \* the clock
    last,      \* when a message was last let through
    answer     \* the answer to the last question

vars == <<now, last, answer>>

Init ==
    /\ now = 0
    /\ last = [k \in Keys |-> Never]
    /\ answer = FALSE

Tick ==
    /\ now' = now + 1
    /\ UNCHANGED <<last, answer>>

Spaced(k) == last[k] = Never \/ now - last[k] >= Second

Ask(k) ==
    /\ answer' = Spaced(k)
    /\ last' = IF Spaced(k) THEN [last EXCEPT ![k] = now] ELSE last
    /\ now' = now

Next == Tick \/ \E k \in Keys : Ask(k)

Spec == Init /\ [][Next]_vars
=============================================================================
