------------------------------ MODULE Beacons -------------------------------
(***************************************************************************)
(* Beacons (routes/beacons.ts), their 30-day slots (services/limitChecks)  *)
(* and the daily matcher (jobs/beaconMatcher.ts).  A create waits for a    *)
(* language model between what it checks and what it writes; the matcher   *)
(* works for a long time from a snapshot, and every server process runs    *)
(* one.  Edits write only a beacon's text, which nothing here tells apart. *)
(*                                                                         *)
(* All beacons are of one timezone (others are never compared).  The two   *)
(* rows of a match are written by one statement and deleted together, so a *)
(* match is the set of its two beacons, and dismissing either row counts.  *)
(***************************************************************************)
EXTENDS Naturals, FiniteSets

CONSTANTS
    Users,         \* accounts
    BeaconIds,     \* beacons that may ever be created (bounds creation)
    Requests,      \* slots of create requests in flight
    Runs,          \* slots of matcher runs: server processes
    NoUser,        \* not created yet, or an unused local
    MaxBeacons     \* maxBeacons of the best tier: a tier changes at any time,
                   \* and with a smaller limit the gate only refuses more

ASSUME NoneAssumption == NoUser \notin Users
ASSUME FiniteAssumption == IsFiniteSet(BeaconIds) /\ IsFiniteSet(Requests)
ASSUME LimitAssumption == MaxBeacons \in Nat \ {0}

VARIABLES
    owner,        \* user_id of each beacon, NoUser = no row yet
    active,       \* is_active
    expired,      \* beacons past their effective expiry
    lastMatched,  \* beacons with a last_matched_at
    gone,         \* deleted accounts
    blocks,       \* blocked_users: pairs <<who, whom>>
    match,        \* beacon_matches, by pair of beacons
    recent,       \* matches whose created_at is less than 24 hours ago
    dismissed,    \* matches either side dismissed
    creating,     \* the user whose create is in each slot, past its limit check
    run,          \* the matcher run in each slot
    cut           \* history: a run has died or failed before its end

vars == <<owner, active, expired, lastMatched, gone, blocks,
          match, recent, dismissed, creating, run, cut>>

Pairs == {p \in SUBSET BeaconIds : Cardinality(p) = 2}

\* todo is what the loops have still to visit, cur the pair they are at.
Run == [pc : {"idle", "blocks", "pairs", "compare", "insert", "notify", "stamp"},
        snap : SUBSET BeaconIds, todo : SUBSET Pairs, cur : SUBSET BeaconIds]
NoRun == [pc |-> "idle", snap |-> {}, todo |-> {}, cur |-> {}]

Rows == {b \in BeaconIds : owner[b] \notin gone \cup {NoUser}}

TypeOK ==
    /\ owner \in [BeaconIds -> Users \cup {NoUser}]
    /\ active \subseteq Rows /\ lastMatched \subseteq Rows
    /\ expired \subseteq {b \in BeaconIds : owner[b] # NoUser}
    /\ gone \subseteq Users
    /\ blocks \subseteq Users \X Users
    /\ match \subseteq Pairs
    /\ \A p \in match : p \subseteq Rows
    /\ recent \subseteq match /\ dismissed \subseteq match
    /\ creating \in [Requests -> Users \cup {NoUser}]
    /\ run \in [Runs -> Run]
    /\ \A k \in Runs :
         /\ \A b \in run[k].snap : owner[b] # NoUser
         /\ \A p \in run[k].todo : p \subseteq run[k].snap
         /\ run[k].cur \subseteq run[k].snap
         /\ run[k].pc \in {"compare", "insert", "notify", "stamp"} => run[k].cur \in Pairs
    /\ cut \in BOOLEAN

Init ==
    /\ owner = [b \in BeaconIds |-> NoUser]
    /\ active = {} /\ expired = {} /\ lastMatched = {} /\ gone = {}
    /\ blocks = {}
    /\ match = {} /\ recent = {} /\ dismissed = {}
    /\ creating = [r \in Requests |-> NoUser]
    /\ run = [k \in Runs |-> NoRun]
    /\ cut = FALSE

users   == <<gone, blocks>>
beacons == <<owner, active, expired, lastMatched>>
matches == <<match, recent, dismissed>>

-----------------------------------------------------------------------------
(* POST and DELETE /beacons, and the dismissal of a match *)

Respond(r) == creating' = [creating EXCEPT ![r] = NoUser]

\* Mutant: only active beacons take a slot.
ActiveSlots(u) == {b \in active \ expired : owner[b] = u}

\* countOccupiedBeaconSlots: deleted and matched beacons count until they expire.
Slots(u) == {b \in Rows \ expired : owner[b] = u}

\* enforceLimit, then the text is off to be analysed.
CreateGate(r, u) ==
    /\ creating[r] = NoUser
    /\ u \notin gone
    /\ Cardinality(Slots(u)) < MaxBeacons
    /\ creating' = [creating EXCEPT ![r] = u]
    /\ UNCHANGED <<beacons, users, matches, run, cut>>

CreateInsert(r) ==
    /\ creating[r] \notin gone \cup {NoUser}
    /\ \E b \in BeaconIds :
         /\ owner[b] = NoUser
         /\ owner' = [owner EXCEPT ![b] = creating[r]]
         /\ active' = active \cup {b}
    /\ Respond(r)
    /\ UNCHANGED <<expired, lastMatched, users, matches, run, cut>>

\* The analysis failed or refused the text (503, 422), or the account is gone
\* and the foreign key refuses the row.
Refused(r) ==
    /\ creating[r] # NoUser
    /\ Respond(r)
    /\ UNCHANGED <<beacons, users, matches, run, cut>>

Delete(b) ==
    /\ b \in active
    /\ active' = active \ {b}
    /\ UNCHANGED <<owner, expired, lastMatched, users, matches, creating, run, cut>>

Dismiss(p) ==
    /\ p \in match \ dismissed
    /\ dismissed' = dismissed \cup {p}
    /\ UNCHANGED <<beacons, users, match, recent, creating, run, cut>>

-----------------------------------------------------------------------------
(* runBeaconMatching *)

\* Mutant: deleted beacons are matched as well.
StartWithDeleted(k) ==
    /\ run[k].pc = "idle"
    /\ Cardinality(Rows \ expired) >= 2
    /\ run' = [run EXCEPT ![k] = [NoRun EXCEPT !.pc = "blocks", !.snap = Rows \ expired]]
    /\ UNCHANGED <<beacons, users, matches, creating, cut>>

\* The snapshot of the active, unexpired beacons.
Start(k) ==
    /\ run[k].pc = "idle"
    /\ Cardinality(active \ expired) >= 2
    /\ run' = [run EXCEPT ![k] = [NoRun EXCEPT !.pc = "blocks", !.snap = active \ expired]]
    /\ UNCHANGED <<beacons, users, matches, creating, cut>>

\* Mutant: a block counts in one direction only.
BlockedOneWay(p) ==
    \A a, b \in p : a # b => <<owner[a], owner[b]>> \in blocks

Blocked(p) == \E a, b \in p : <<owner[a], owner[b]>> \in blocks

\* The blocks are loaded once; what the loops will visit is settled.
LoadBlocks(k) ==
    /\ run[k].pc = "blocks"
    /\ run' = [run EXCEPT
         ![k].pc = "pairs",
         ![k].todo = {p \in Pairs : /\ p \subseteq run[k].snap
                                    /\ \A a, b \in p : a # b => owner[a] # owner[b]
                                    /\ ~Blocked(p)}]
    /\ UNCHANGED <<beacons, users, matches, creating, cut>>

\* Mutant: a dismissed match comes back once it is a day old.
RestingToday(p) == p \in recent

\* The pair was matched in the last 24 hours or was dismissed.
Resting(p) == p \in recent \cup dismissed

Visit(k, p) ==
    /\ run[k].pc = "pairs"
    /\ p \in run[k].todo
    /\ run' = [run EXCEPT ![k].todo = @ \ {p},
                          ![k].pc = IF Resting(p) THEN "pairs" ELSE "compare",
                          ![k].cur = IF Resting(p) THEN {} ELSE p]
    /\ UNCHANGED <<beacons, users, matches, creating, cut>>

\* compareBeacons answers: no match (or an error), or a match.
Compared(k) ==
    /\ run[k].pc = "compare"
    /\ \/ run' = [run EXCEPT ![k].pc = "insert"]
       \/ run' = [run EXCEPT ![k].pc = "pairs", ![k].cur = {}]
    /\ UNCHANGED <<beacons, users, matches, creating, cut>>

\* A foreign key refuses the rows of a deleted account: the error ends the run.
Abort(k) ==
    /\ run' = [run EXCEPT ![k] = NoRun]
    /\ cut' = TRUE

\* Mutant: nobody checks that the beacons are still there.
InsertAnyMatch(k) ==
    /\ run[k].pc = "insert"
    /\ match' = match \cup {run[k].cur}
    /\ recent' = IF run[k].cur \in match THEN recent ELSE recent \cup {run[k].cur}
    /\ run' = [run EXCEPT ![k].pc = "notify"]
    /\ UNCHANGED <<beacons, users, dismissed, creating, cut>>

\* ON CONFLICT DO NOTHING keeps the created_at of a match that is there already.
InsertMatch(k) ==
    LET p == run[k].cur IN
    /\ run[k].pc = "insert"
    /\ IF p \subseteq Rows
       THEN /\ match' = match \cup {p}
            /\ recent' = IF p \in match THEN recent ELSE recent \cup {p}
            /\ run' = [run EXCEPT ![k].pc = "notify"]
            /\ UNCHANGED cut
       ELSE Abort(k) /\ UNCHANGED <<match, recent>>
    /\ UNCHANGED <<beacons, users, dismissed, creating>>

\* Both in-app notifications, in one insert, and then the pushes.
Notify(k) ==
    /\ run[k].pc = "notify"
    /\ IF run[k].cur \subseteq Rows
       THEN run' = [run EXCEPT ![k].pc = "stamp"] /\ UNCHANGED cut
       ELSE Abort(k)
    /\ UNCHANGED <<beacons, users, matches, creating>>

\* Mutant: only one of the two beacons is stamped.
StampOne(k) ==
    /\ run[k].pc = "stamp"
    /\ \E b \in run[k].cur : lastMatched' = lastMatched \cup ({b} \cap Rows)
    /\ run' = [run EXCEPT ![k].pc = "pairs", ![k].cur = {}]
    /\ UNCHANGED <<owner, active, expired, users, matches, creating, cut>>

Stamp(k) ==
    /\ run[k].pc = "stamp"
    /\ lastMatched' = lastMatched \cup (run[k].cur \cap Rows)
    /\ run' = [run EXCEPT ![k].pc = "pairs", ![k].cur = {}]
    /\ UNCHANGED <<owner, active, expired, users, matches, creating, cut>>

Finish(k) ==
    /\ run[k].pc = "pairs" /\ run[k].todo = {}
    /\ run' = [run EXCEPT ![k] = NoRun]
    /\ UNCHANGED <<beacons, users, matches, creating, cut>>

-----------------------------------------------------------------------------
(* Time, other handlers, crashes *)

\* The 30 days of a beacon are over.
Expire(b) ==
    /\ b \in Rows \ expired
    /\ expired' = expired \cup {b}
    /\ UNCHANGED <<owner, active, lastMatched, users, matches, creating, run, cut>>

\* A match is a day old.
Age(p) ==
    /\ p \in recent
    /\ recent' = recent \ {p}
    /\ UNCHANGED <<beacons, users, match, dismissed, creating, run, cut>>

ToggleBlock(u, v) ==
    /\ u # v /\ {u, v} \cap gone = {}
    /\ blocks' = IF <<u, v>> \in blocks THEN blocks \ {<<u, v>>} ELSE blocks \cup {<<u, v>>}
    /\ UNCHANGED <<beacons, gone, matches, creating, run, cut>>

\* DELETE /auth/account: blocks, beacons and their matches cascade.
DeleteAccount(u) ==
    LET mine == {b \in BeaconIds : owner[b] = u} IN
    /\ u \notin gone
    /\ gone' = gone \cup {u}
    /\ blocks' = {x \in blocks : u \notin {x[1], x[2]}}
    /\ active' = active \ mine /\ lastMatched' = lastMatched \ mine
    /\ match' = {p \in match : p \cap mine = {}}
    /\ recent' = recent \cap match' /\ dismissed' = dismissed \cap match'
    /\ UNCHANGED <<owner, expired, creating, run, cut>>

\* A server process dies: its run is over.
Crash(k) ==
    /\ run[k].pc # "idle"
    /\ Abort(k)
    /\ UNCHANGED <<beacons, users, matches, creating>>

-----------------------------------------------------------------------------

RequestStep(r) ==
    \/ \E u \in Users : CreateGate(r, u)
    \/ CreateInsert(r)
    \/ Refused(r)

RunStep(k) ==
    \/ Start(k)
    \/ LoadBlocks(k)
    \/ \E p \in Pairs : Visit(k, p)
    \/ Compared(k)
    \/ InsertMatch(k)
    \/ Notify(k)
    \/ Stamp(k)
    \/ Finish(k)
    \/ Crash(k)

Others ==
    \/ \E b \in BeaconIds : Delete(b) \/ Expire(b)
    \/ \E p \in Pairs : Dismiss(p) \/ Age(p)
    \/ \E u \in Users : DeleteAccount(u)
    \/ \E u, v \in Users : ToggleBlock(u, v)

Next ==
    \/ \E r \in Requests : RequestStep(r)
    \/ \E k \in Runs : RunStep(k)
    \/ Others

Spec == Init /\ [][Next]_vars

-----------------------------------------------------------------------------
(* Properties *)

\* Deleting and re-creating mints no slots: the beacons of one user within their
\* 30 days, deleted ones included, pass the largest limit by at most the creates
\* that run at once.
SlotsBounded ==
    \A u \in Users :
        Cardinality({b \in Rows \ expired : owner[b] = u})
            < MaxBeacons + Cardinality(Requests)

\* Runs that have p under comparison or will still notify its owners.
Matching(p) == {k \in Runs : run[k].cur = p}

\* Runs that may still come to p.
Heading(p) == {k \in Runs : p \in run[k].todo \/ run[k].cur = p}

\* Either owner blocks the other.
BlockBetween(p) == \E x \in blocks : \E a, b \in p : x = <<owner[a], owner[b]>>

\* No run of any process starts on a pair that is to be left alone: one whose match
\* was dismissed or made today is taken up by no run that was not at it already,
\* and one whose owners block each other by none that had not listed it before.
PairsAreLeftAlone ==
    [][\A p \in Pairs :
          /\ p \in recent' \cup dismissed' /\ p \in recent \cup dismissed /\ Matching(p) = {}
               => Matching(p)' = {}
          /\ BlockBetween(p) /\ BlockBetween(p)' /\ Heading(p) = {} => Heading(p)' = {}]_vars

\* A beacon taken back stays out: once it is inactive it never comes back, and
\* only the runs that had read it before still act on it.
WithdrawnStaysOut ==
    [][\A b \in BeaconIds :
          owner[b] # NoUser /\ b \notin active
            => /\ b \notin active'
               /\ \A k \in Runs : b \in run'[k].snap => b \in run[k].snap]_vars

\* The door to edits closes behind every match: its beacons carry a
\* last_matched_at or the run that made it is about to write it, unless a
\* process died or a run failed half way.
MatchesAreStamped ==
    ~cut => \A p \in match :
              \/ p \subseteq lastMatched
              \/ \E k \in Runs : run[k].cur = p /\ run[k].pc \in {"notify", "stamp"}

\* Matcher runs keep off what was taken back, dismissed, rested or blocked before
\* they came to it.
RunsKeepOff == PairsAreLeftAlone /\ WithdrawnStaysOut
=============================================================================
