------------------------------ MODULE NewsSweep ------------------------------
(***************************************************************************)
(* The hourly news run (services/news): fetch what the outlets carry,      *)
(* enrich what is new under a daily spending cap, push what is breaking.   *)
(*                                                                         *)
(* The cron starts a run whether or not the last one has ended, and a      *)
(* deployment runs two processes for a while: runs may overlap.  One call  *)
(* of the model costs one unit of the cap.                                 *)
(***************************************************************************)
EXTENDS Naturals, FiniteSets

CONSTANTS
    Articles,  \* what the outlets publish
    Readers,   \* users with news pushes on
    Runs,      \* slots of runs in flight
    Cap,       \* enrichment_daily_cap_usd, in calls
    Quota,     \* daily_push_quota
    NoPair     \* an unused local

VARIABLES
    age,       \* of an article, from the publisher's time
    article,   \* news_articles: gone, not yet enriched, or its importance
    past,      \* news_push_history: none, cooling, within 24 hours, older
    usage,     \* news_config.enrichment_usage_today
    run,       \* the run in each slot
    calls,     \* history: calls charged since midnight
    pushes,    \* history: pushes queued of each article to each reader
    day,       \* history: pushes queued to each reader within 24 hours
    crossed,   \* history: articles in the hands of two runs at once
    strayed    \* history: runs overlapped, or one lost or misdated a charge

newsVars == <<age, article, past, usage, run, calls, pushes, day, crossed, strayed>>

Usage == [today : BOOLEAN, spent : 0..Cap, tripped : BOOLEAN]
Fresh == [today |-> TRUE, spent |-> 0, tripped |-> FALSE]
Pair == Readers \X Articles
Run == [pc : {"idle", "fetch", "load", "select", "enrich", "persist", "write", "pick",
              "gate", "cool", "insert"},
        rows : SUBSET Articles, local : Usage, todo : SUBSET Pair, pair : Pair \cup {NoPair}]
NoRun == [pc |-> "idle", rows |-> {}, local |-> Fresh, todo |-> {}, pair |-> NoPair]

TypeOK ==
    /\ age \in [Articles -> {"future", "fresh", "stale"}]
    /\ article \in [Articles -> {"gone", "raw", "breaking", "major"}]
    /\ past \in [Pair -> {"none", "hot", "day", "old"}]
    /\ usage \in Usage
    /\ run \in [Runs -> Run]
    /\ calls \in Nat
    /\ pushes \in [Pair -> 0..2]
    /\ day \in [Readers -> Nat]
    /\ crossed \subseteq Articles
    /\ strayed \in BOOLEAN
    /\ \A a \in Articles : article[a] = "gone" => \A u \in Readers : past[<<u, a>>] = "none"
    /\ \A a \in Articles : age[a] = "future" => article[a] = "gone"

Init ==
    /\ age = [a \in Articles |-> "future"]
    /\ article = [a \in Articles |-> "gone"]
    /\ past = [p \in Pair |-> "none"]
    /\ usage = Fresh
    /\ run = [r \in Runs |-> NoRun]
    /\ calls = 0
    /\ pushes = [p \in Pair |-> 0]
    /\ day = [u \in Readers |-> 0]
    /\ crossed = {}
    /\ strayed = FALSE

-----------------------------------------------------------------------------
(* runNewsIngestion *)

Goto(r, pc) == run' = [run EXCEPT ![r].pc = pc]

News == <<past, pushes, day, crossed>>
Budget == <<usage, calls>>

Begin(r) ==
    /\ run[r].pc = "idle"
    /\ Goto(r, "fetch")
    /\ strayed' = (strayed \/ \E k \in Runs : run[k].pc # "idle")
    /\ UNCHANGED <<age, article, News, Budget>>

\* The outlets that answer carry some of what is published; a known url is not
\* inserted again.
Fetch(r) ==
    /\ run[r].pc = "fetch"
    /\ \E got \in SUBSET {a \in Articles : age[a] # "future"} :
         article' = [a \in Articles |->
                        IF a \in got /\ article[a] = "gone" THEN "raw" ELSE article[a]]
    /\ Goto(r, "load")
    /\ UNCHANGED <<age, News, Budget, strayed>>

\* Mutant: every run begins with an untouched budget.
LoadFresh(r) ==
    /\ run[r].pc = "load"
    /\ run' = [run EXCEPT ![r].pc = "select", ![r].local = Fresh]
    /\ UNCHANGED <<age, article, News, Budget, strayed>>

\* Yesterday's usage counts for nothing.
LoadUsage(r) ==
    /\ run[r].pc = "load"
    /\ run' = [run EXCEPT ![r].pc = "select",
                          ![r].local = IF usage.today THEN usage ELSE Fresh]
    /\ UNCHANGED <<age, article, News, Budget, strayed>>

SelectRows(r) ==
    LET raw == {a \in Articles : article[a] = "raw"} IN
    /\ run[r].pc = "select"
    /\ run' = [run EXCEPT ![r].rows = raw, ![r].pc = IF raw = {} THEN "pick" ELSE "enrich"]
    /\ UNCHANGED <<age, article, News, Budget, strayed>>

\* On to the next row, or to the pushes.
After(r, a) == [run[r] EXCEPT !.rows = @ \ {a}, !.pc = IF run[r].rows = {a} THEN "pick" ELSE "enrich"]

\* Past the cap an article gets its own title and the rank of a major one,
\* whatever another run wrote meanwhile.
SkipEnrichment(r) ==
    /\ run[r].pc = "enrich" /\ run[r].local.tripped
    /\ \E a \in run[r].rows :
         /\ article' = [article EXCEPT ![a] = IF @ = "gone" THEN @ ELSE "major"]
         /\ run' = [run EXCEPT ![r] = After(r, a)]
    /\ UNCHANGED <<age, News, Budget, strayed>>

\* A failed call costs nothing and leaves the row for the next run.
CallFails(r) ==
    /\ run[r].pc = "enrich" /\ ~run[r].local.tripped
    /\ \E a \in run[r].rows : run' = [run EXCEPT ![r] = After(r, a)]
    /\ UNCHANGED <<age, article, News, Budget, strayed>>

\* Mutant: the breaker trips one call late.
ChargePastCap(r) ==
    LET spent == run[r].local.spent + 1 IN
    /\ run[r].pc = "enrich" /\ ~run[r].local.tripped
    /\ calls <= Cap
    /\ calls' = calls + 1
    /\ run' = [run EXCEPT ![r].pc = "persist", ![r].local.spent = spent,
                          ![r].local.tripped = spent > Cap]
    /\ strayed' = (strayed \/ ~run[r].local.today)
    /\ UNCHANGED <<age, article, usage, News>>

\* A charge of a run past midnight goes to the day it began in.
Charge(r) ==
    LET spent == run[r].local.spent + 1 IN
    /\ run[r].pc = "enrich" /\ ~run[r].local.tripped
    /\ calls <= Cap
    /\ calls' = calls + 1
    /\ run' = [run EXCEPT ![r].pc = "persist", ![r].local.spent = spent,
                          ![r].local.tripped = spent >= Cap]
    /\ strayed' = (strayed \/ ~run[r].local.today)
    /\ UNCHANGED <<age, article, usage, News>>

PersistUsage(r) ==
    /\ run[r].pc = "persist"
    /\ usage' = run[r].local
    /\ Goto(r, "write")
    /\ UNCHANGED <<age, article, calls, News, strayed>>

\* An answer that does not parse or is cut short, a rank, or a row thrown away:
\* its history goes with it.
ApplyAnswer(r) ==
    /\ run[r].pc = "write"
    /\ \E a \in run[r].rows :
         /\ run' = [run EXCEPT ![r] = After(r, a)]
         /\ \/ UNCHANGED <<article, past, crossed>>
            \/ /\ \E rank \in {"breaking", "major"} :
                    article' = [article EXCEPT ![a] = IF @ = "gone" THEN @ ELSE rank]
               /\ UNCHANGED <<past, crossed>>
            \/ /\ article' = [article EXCEPT ![a] = "gone"]
               /\ past' = [p \in Pair |-> IF p[2] = a THEN "none" ELSE past[p]]
               /\ crossed' = IF \E u \in Readers : past[<<u, a>>] # "none"
                             THEN crossed \cup {a} ELSE crossed
    /\ UNCHANGED <<age, pushes, day, Budget, strayed>>

-----------------------------------------------------------------------------
(* dispatchBreakingPushes *)

\* Breaking, fresh, and pushed to nobody yet: a reader skipped once is skipped
\* for good when another one was not.
Candidates ==
    {a \in Articles : /\ article[a] = "breaking" /\ age[a] = "fresh"
                      /\ \A u \in Readers : past[<<u, a>>] = "none"}

InHands(r) == {p[2] : p \in run[r].todo}

PickArticles(r) ==
    /\ run[r].pc = "pick"
    /\ run' = [run EXCEPT ![r] =
                 IF Candidates = {} THEN NoRun
                 ELSE [@ EXCEPT !.pc = "gate", !.todo = Readers \X Candidates]]
    /\ crossed' = crossed \cup {a \in Candidates : \E k \in Runs \ {r} : a \in InHands(k)}
    /\ UNCHANGED <<age, article, past, pushes, day, Budget, strayed>>

\* A reader in quiet hours or at the quota is passed over; no row says so.
\* After the last pair the batches go out.
Pass(r, p) ==
    LET rest == run[r].todo \ {p} IN
    run' = [run EXCEPT ![r] = IF rest = {} THEN NoRun
                              ELSE [@ EXCEPT !.todo = rest, !.pair = NoPair, !.pc = "gate"]]

\* Mutant: only the articles still in cooldown count.
InHour(u) == Cardinality({a \in Articles : past[<<u, a>>] = "hot"})

InDay(u) == Cardinality({a \in Articles : past[<<u, a>>] \in {"hot", "day"}})

CheckQuota(r) ==
    /\ run[r].pc = "gate"
    /\ \E p \in run[r].todo :
         \/ Pass(r, p)
         \/ /\ InDay(p[1]) < Quota
            /\ run' = [run EXCEPT ![r].pair = p, ![r].pc = "cool"]
    /\ UNCHANGED <<age, article, News, Budget, strayed>>

CheckCooldown(r) ==
    LET u == run[r].pair[1] IN
    /\ run[r].pc = "cool"
    /\ IF \E a \in Articles : past[<<u, a>>] = "hot"
       THEN Pass(r, run[r].pair)
       ELSE Goto(r, "insert")
    /\ UNCHANGED <<age, article, News, Budget, strayed>>

\* Mutant: the envelope is queued and no row says so.
InsertNothing(r) ==
    LET p == run[r].pair IN
    /\ run[r].pc = "insert"
    /\ pushes' = [pushes EXCEPT ![p] = IF @ = 2 THEN 2 ELSE @ + 1]
    /\ Pass(r, p)
    /\ UNCHANGED <<age, article, past, day, crossed, Budget, strayed>>

\* The history row, then the envelope, also when the row was there already;
\* an article gone by now fails the insert.
InsertHistory(r) ==
    LET p == run[r].pair IN
    /\ run[r].pc = "insert"
    /\ IF article[p[2]] = "gone"
       THEN UNCHANGED <<past, pushes, day>>
       ELSE /\ past' = [past EXCEPT ![p] = IF @ = "none" THEN "hot" ELSE @]
            /\ pushes' = [pushes EXCEPT ![p] = IF @ = 2 THEN 2 ELSE @ + 1]
            /\ day' = [day EXCEPT ![p[1]] = IF @ > Quota THEN @ ELSE @ + 1]
    /\ Pass(r, p)
    /\ UNCHANGED <<age, article, crossed, Budget, strayed>>

-----------------------------------------------------------------------------
(* The outlets, the clock, a stop *)

Publish(a) ==
    /\ age[a] = "future"
    /\ age' = [age EXCEPT ![a] = "fresh"]
    /\ UNCHANGED <<article, run, News, Budget, strayed>>

\* An hour: longer than the cooldown and the age a push may have.
Hour ==
    /\ \/ \E a \in Articles : age[a] = "fresh"
       \/ \E p \in Pair : past[p] = "hot"
    /\ age' = [a \in Articles |-> IF age[a] = "fresh" THEN "stale" ELSE age[a]]
    /\ past' = [p \in Pair |-> IF past[p] = "hot" THEN "day" ELSE past[p]]
    /\ UNCHANGED <<article, run, pushes, day, crossed, Budget, strayed>>

\* A day and a midnight pass, and every run in flight began the day before.
Midnight ==
    /\ usage.today \/ \E p \in Pair : past[p] \in {"hot", "day"}
    /\ age' = [a \in Articles |-> IF age[a] = "fresh" THEN "stale" ELSE age[a]]
    /\ past' = [p \in Pair |-> IF past[p] \in {"hot", "day"} THEN "old" ELSE past[p]]
    /\ usage' = [usage EXCEPT !.today = FALSE]
    /\ run' = [r \in Runs |-> [run[r] EXCEPT !.local.today = (run[r].pc \in {"idle", "fetch", "load"})]]
    /\ calls' = 0
    /\ day' = [u \in Readers |-> 0]
    /\ UNCHANGED <<article, pushes, crossed, strayed>>

\* runNewsPushRetention.
Retain ==
    /\ \E p \in Pair : past[p] = "old"
    /\ past' = [p \in Pair |-> IF past[p] = "old" THEN "none" ELSE past[p]]
    /\ UNCHANGED <<age, article, run, pushes, day, crossed, Budget, strayed>>

Stop(r) ==
    /\ run[r].pc # "idle"
    /\ run' = [run EXCEPT ![r] = NoRun]
    /\ strayed' = (strayed \/ run[r].pc = "persist")
    /\ UNCHANGED <<age, article, News, Budget>>

Next ==
    \/ \E r \in Runs :
         \/ Begin(r) \/ Fetch(r) \/ LoadUsage(r) \/ SelectRows(r) \/ SkipEnrichment(r)
         \/ CallFails(r) \/ Charge(r) \/ PersistUsage(r) \/ ApplyAnswer(r)
         \/ PickArticles(r) \/ CheckQuota(r) \/ CheckCooldown(r) \/ InsertHistory(r)
         \/ Stop(r)
    \/ \E a \in Articles : Publish(a)
    \/ Hour \/ Midnight \/ Retain

Spec == Init /\ [][Next]_newsVars

-----------------------------------------------------------------------------
(* Properties *)

\* An article is pushed to a reader once, through stops, retentions, a change of day
\* and runs that overlap over other articles; NeverPushedTwice is what fails when two
\* runs hold it at once.
PushedOnce == \A p \in Pair : p[2] \notin crossed => pushes[p] <= 1

\* What pushDispatcher.ts:16-19 says of its insert into the history: an article is
\* never pushed twice to a reader, overlapping sweeps or not.  The insert passes over
\* the row that is there, and the push is queued all the same.
NeverPushedTwice == \A p \in Pair : pushes[p] <= 1

\* Runs that do not overlap keep to the quota of a reader and to the cap of a
\* day, unless one stops between a call and its charge or runs past midnight.
KeepsToLimits == strayed \/ (calls <= Cap /\ \A u \in Readers : day[u] <= Quota)
=============================================================================
