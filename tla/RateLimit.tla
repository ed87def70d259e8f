----------------------------- MODULE RateLimit -----------------------------
(***************************************************************************)
(* The token bucket in front of globe:message (socket/rateLimit.ts): one   *)
(* token a second, at most one token, refilled whenever it is asked, and   *)
(* swept from the map when it was not asked for a while.  It is shown to   *)
(* implement Spacing.  Tokens are counted in ticks of the clock, exactly   *)
(* (the code adds doubles), and the clock does not go back.                *)
(***************************************************************************)
EXTENDS Integers

CONSTANTS
    Keys,      \* `${userId}:${roomId}`
    Second,    \* a second in ticks: what one token costs
    Stale,     \* STALE_THRESHOLD in ticks
    MaxTime,   \* bound of the clock
    Never      \* no bucket, no message yet

ASSUME ClockAssumption ==
    /\ Second \in Nat \ {0}
    /\ Stale \in Nat
    /\ Stale >= Second
    /\ MaxTime \in Nat
    /\ Never \notin Int
    /\ Never \notin [tokens : Int, lastRefill : Int]

VARIABLES
    now,       \* Date.now()
    bucket,    \* buckets
    answer,    \* what checkRateLimit returned last
    passed     \* history: when a message last passed

vars == <<now, bucket, answer, passed>>

Bucket == [tokens : 0..Second, lastRefill : 0..MaxTime]

\* The parts have their types.
TypeOK ==
    /\ now \in 0..MaxTime
    /\ bucket \in [Keys -> Bucket \cup {Never}]
    /\ answer \in BOOLEAN
    /\ passed \in [Keys -> 0..MaxTime \cup {Never}]

Init ==
    /\ now = 0
    /\ bucket = [k \in Keys |-> Never]
    /\ answer = FALSE
    /\ passed = [k \in Keys |-> Never]

Capped(x) == IF x < Second THEN x ELSE Second

Tick ==
    /\ now < MaxTime
    /\ now' = now + 1
    /\ UNCHANGED <<bucket, answer, passed>>

\* The first message of a bucket passes at once.
First(k) ==
    /\ bucket[k] = Never
    /\ bucket' = [bucket EXCEPT ![k] = [tokens |-> 0, lastRefill |-> now]]
    /\ answer' = TRUE
    /\ passed' = [passed EXCEPT ![k] = now]
    /\ now' = now

Refilled(k) == Capped(bucket[k].tokens + (now - bucket[k].lastRefill))

Allow(k) ==
    /\ bucket[k] # Never
    /\ Refilled(k) >= Second
    /\ bucket' = [bucket EXCEPT ![k] = [tokens |-> Refilled(k) - Second, lastRefill |-> now]]
    /\ answer' = TRUE
    /\ passed' = [passed EXCEPT ![k] = now]
    /\ now' = now

Refuse(k) ==
    /\ bucket[k] # Never
    /\ Refilled(k) < Second
    /\ bucket' = [bucket EXCEPT ![k] = [tokens |-> Refilled(k), lastRefill |-> now]]
    /\ answer' = FALSE
    /\ UNCHANGED <<now, passed>>

IsStale(k) == bucket[k] # Never /\ now - bucket[k].lastRefill > Stale

\* Mutant: the age of a bucket is not looked at.
SweepAll ==
    /\ bucket' = [k \in Keys |-> Never]
    /\ UNCHANGED <<now, answer, passed>>

\* The interval: every bucket that was not asked for a while.
Sweep ==
    /\ bucket' = [k \in Keys |-> IF IsStale(k) THEN Never ELSE bucket[k]]
    /\ UNCHANGED <<now, answer, passed>>

Next ==
    \/ Tick
    \/ Sweep
    \/ \E k \in Keys : First(k) \/ Allow(k) \/ Refuse(k)

Spec == Init /\ [][Next]_vars

-----------------------------------------------------------------------------

\* A bucket holds what has been earned since a message last passed, and a bucket
\* is missing only if nothing passed or a whole token has been earned since.
Earned ==
    \A k \in Keys :
        IF bucket[k] = Never
        THEN passed[k] = Never \/ now - passed[k] >= Second
        ELSE /\ passed[k] # Never
             /\ passed[k] <= bucket[k].lastRefill
             /\ bucket[k].lastRefill <= now
             /\ bucket[k].tokens = Capped(bucket[k].lastRefill - passed[k])

Promise == INSTANCE Spacing WITH last <- passed

\* The bucket answers what Spacing answers, whatever the sequence of questions,
\* refusals, pauses and sweeps.
SpacesMessages == Promise!Spec
=============================================================================
