------------------------------- MODULE JobFeed -------------------------------
(***************************************************************************)
(* Job postings: runs read boards elsewhere and upsert what they found     *)
(* (jobs/jobsScraper.ts, services/jobs), and a reader walks the feed, most *)
(* viewed first (routes/jobs.ts).                                          *)
(*                                                                         *)
(* The cursor is the view count and the number of the last row shown, and  *)
(* a run may write other counts while the reader is on the way.  A page    *)
(* holds one job.                                                          *)
(***************************************************************************)
EXTENDS Naturals, FiniteSets, SequencesExt

CONSTANTS
    Jobs,
    Scrapes,   \* slots of runs in flight
    MaxViews   \* bound on the views of a job

VARIABLES
    posting,   \* job_postings
    scrape,    \* the run in each slot
    walk       \* the walk of a reader through the feed

jobVars == <<posting, scrape, walk>>

Views == 0..MaxViews
NoPosting == [id |-> 0, views |-> 0, recent |-> FALSE]
Posting == [id : 0..Cardinality(Jobs), views : Views, recent : BOOLEAN]
Scrape == [at : {"idle", "upsert"}, found : SUBSET Jobs, views : [Jobs -> Views],
           recent : SUBSET Jobs]
NoScrape == [at |-> "idle", found |-> {}, views |-> [j \in Jobs |-> 0], recent |-> {}]
\* got and twice are what the reader was shown; still is history: what was in the
\* feed all along, with the count it had when the walk began.
Walk == [at : {"idle", "more", "done"}, last : Posting, got : SUBSET Jobs, twice : SUBSET Jobs,
         still : SUBSET Jobs]
NoWalk == [at |-> "idle", last |-> NoPosting, got |-> {}, twice |-> {}, still |-> {}]

TypeOK ==
    /\ posting \in [Jobs -> Posting]
    /\ scrape \in [Scrapes -> Scrape]
    /\ walk \in Walk

Init ==
    /\ posting = [j \in Jobs |-> NoPosting]
    /\ scrape = [s \in Scrapes |-> NoScrape]
    /\ walk = NoWalk

\* Posted within 60 days, by a date that was read with the job.
InFeed(j) == posting[j].id # 0 /\ posting[j].recent

Save(table) ==
    /\ posting' = table
    /\ walk' = [walk EXCEPT !.still = {j \in @ : table[j] = posting[j]}]

-----------------------------------------------------------------------------
(* A run *)

\* The board is read, in whole or in part: tiles and sources that fail are left out.
ReadBoard(s) ==
    /\ scrape[s].at = "idle"
    /\ \E found \in (SUBSET Jobs) \ {{}} : \E counts \in [found -> Views], recent \in SUBSET found :
         scrape' = [scrape EXCEPT ![s] =
           [at |-> "upsert", found |-> found, recent |-> recent,
            views |-> [j \in Jobs |-> IF j \in found THEN counts[j] ELSE 0]]]
    /\ UNCHANGED <<posting, walk>>

\* One statement: rows new to the table are numbered in the order of the batch,
\* the others get the new count and date.
UpsertJobs(s) ==
    LET run == scrape[s]
        known == {j \in Jobs : posting[j].id # 0}
    IN
    /\ run.at = "upsert"
    /\ \E news \in SetToSeqs(run.found \ known) :
         Save([j \in Jobs |->
                 IF j \notin run.found THEN posting[j]
                 ELSE [id |-> IF j \in known THEN posting[j].id
                              ELSE Cardinality(known) + (CHOOSE i \in DOMAIN news : news[i] = j),
                       views |-> run.views[j], recent |-> j \in run.recent]])
    /\ scrape' = [scrape EXCEPT ![s] = NoScrape]

\* A job that is in the batch twice fails the statement, or the process dies.
Stop(s) ==
    /\ scrape[s].at = "upsert"
    /\ scrape' = [scrape EXCEPT ![s] = NoScrape]
    /\ UNCHANGED <<posting, walk>>

\* Sixty days go by.
Age(j) ==
    /\ InFeed(j)
    /\ Save([posting EXCEPT ![j].recent = FALSE])
    /\ UNCHANGED scrape

-----------------------------------------------------------------------------
(* The feed *)

\* Fewer views, or as many and an older row.
Before(posted, other) ==
    \/ posted.views < other.views
    \/ posted.views = other.views /\ posted.id < other.id

\* Mutant: the cursor is the view count alone.
PastCount(posted, cursor) == cursor.id = 0 \/ posted.views < cursor.views

\* The cursor filter; without a cursor everything passes.
PastCursor(posted, cursor) == cursor.id = 0 \/ Before(posted, cursor)

\* One job more than asked for tells whether there is a next page.
Page(w) ==
    LET rest == {j \in Jobs : InFeed(j) /\ PastCursor(posting[j], w.last)}
        top == CHOOSE j \in rest : \A k \in rest \ {j} : Before(posting[k], posting[j])
    IN  IF rest = {} THEN [w EXCEPT !.at = "done"]
        ELSE [w EXCEPT !.got = @ \union {top}, !.twice = @ \union ({top} \intersect w.got),
                       !.last = posting[top],
                       !.at = IF Cardinality(rest) > 1 THEN "more" ELSE "done"]

OpenFeed ==
    /\ walk.at # "more"
    /\ walk' = Page([NoWalk EXCEPT !.still = {j \in Jobs : InFeed(j)}])
    /\ UNCHANGED <<posting, scrape>>

ReadOn ==
    /\ walk.at = "more"
    /\ walk' = Page(walk)
    /\ UNCHANGED <<posting, scrape>>

Next ==
    \/ \E s \in Scrapes : ReadBoard(s) \/ UpsertJobs(s) \/ Stop(s)
    \/ \E j \in Jobs : Age(j)
    \/ OpenFeed \/ ReadOn

-----------------------------------------------------------------------------
(* Properties *)

\* A job whose count does not change during a walk is shown once, however the
\* counts of others change; a job that loses views meanwhile may come twice, and
\* one that gains views may be missed.
UnmovedShownOnce ==
    /\ walk.still \intersect walk.twice = {}
    /\ walk.at = "done" => walk.still \subseteq walk.got
=============================================================================
