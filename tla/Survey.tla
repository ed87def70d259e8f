------------------------------- MODULE Survey -------------------------------
(***************************************************************************)
(* The ballot of one user in the survey of the tribe tab                   *)
(* (routes/tribe.ts): the vote, which is submitted once, and the tab,      *)
(* which shows the counts and the user's own choice from separate queries. *)
(***************************************************************************)
EXTENDS Naturals, FiniteSets

CONSTANTS
    Options,   \* options of the survey
    Ballots,   \* slots of the user's votes in flight
    Nothing    \* a ballot paper not yet written

VARIABLES
    status,     \* surveys.status
    votes,      \* options with a row of the user in survey_votes
    ballot,     \* the vote in each slot
    tab,        \* the GET in flight: what it has read
    counted,    \* history: the choice of the vote that was recorded first
    contested   \* history: votes overlapped

surveyVars == <<status, votes, ballot, tab, counted, contested>>

Choice == (SUBSET Options) \ {{}}
Ballot == [pc : {"idle", "options", "existing", "insert"}, choice : SUBSET Options]
NoBallot == [pc |-> "idle", choice |-> {}]
Tab == [pc : {"idle", "counts", "mine", "shown"}, counts : SUBSET Options, mine : SUBSET Options,
        from : SUBSET Options]
NoTab == [pc |-> "idle", counts |-> {}, mine |-> {}, from |-> {}]

TypeOK ==
    /\ status \in {"live", "finished", "archived"}
    /\ votes \subseteq Options
    /\ ballot \in [Ballots -> Ballot]
    /\ tab \in Tab
    /\ counted \in Choice \cup {Nothing}
    /\ contested \in BOOLEAN

Init ==
    /\ status = "live" /\ votes = {}
    /\ ballot = [b \in Ballots |-> NoBallot]
    /\ tab = NoTab
    /\ counted = Nothing /\ contested = FALSE

-----------------------------------------------------------------------------
(* POST /survey/vote *)

Close(b) == ballot' = [ballot EXCEPT ![b] = NoBallot]
Goto(b, pc) == ballot' = [ballot EXCEPT ![b].pc = pc]

\* The current survey is read: only a live one takes votes.
ResolveSurvey(b, choice) ==
    /\ ballot[b].pc = "idle"
    /\ status = "live"
    /\ ballot' = [ballot EXCEPT ![b] = [pc |-> "options", choice |-> choice]]
    /\ contested' = (contested \/ \E d \in Ballots : ballot[d].pc # "idle")
    /\ UNCHANGED <<status, votes, tab, counted>>

\* Options of the survey, and a text with the one that asks for it.
CheckOptions(b) ==
    /\ ballot[b].pc = "options"
    /\ Goto(b, "existing") \/ Close(b)
    /\ UNCHANGED <<status, votes, tab, counted, contested>>

\* Mutant: only a repeated choice is refused.
CheckSame(b) ==
    /\ ballot[b].pc = "existing"
    /\ IF ballot[b].choice \subseteq votes THEN Close(b) ELSE Goto(b, "insert")
    /\ UNCHANGED <<status, votes, tab, counted, contested>>

CheckExisting(b) ==
    /\ ballot[b].pc = "existing"
    /\ IF votes # {} THEN Close(b) ELSE Goto(b, "insert")
    /\ UNCHANGED <<status, votes, tab, counted, contested>>

\* The rows that are there already are passed over; the survey is not asked
\* again.
InsertVotes(b) ==
    /\ ballot[b].pc = "insert"
    /\ votes' = votes \cup ballot[b].choice
    /\ counted' = IF votes = {} THEN ballot[b].choice ELSE counted
    /\ Close(b)
    /\ UNCHANGED <<status, tab, contested>>

\* A statement fails, or the process dies.
CutOff(b) ==
    /\ ballot[b].pc # "idle"
    /\ Close(b)
    /\ UNCHANGED <<status, votes, tab, counted, contested>>

-----------------------------------------------------------------------------
(* GET /survey, and the operator *)

\* The counts of the options, then the user's own rows.  from is history: the
\* rows as the request began.
LoadSurvey ==
    /\ tab.pc \in {"idle", "shown"}
    /\ status \in {"live", "finished"}
    /\ tab' = [NoTab EXCEPT !.pc = "counts", !.from = votes]
    /\ UNCHANGED <<status, votes, ballot, counted, contested>>

\* Mutant: the counts are those of an earlier read.
ReadOldCounts ==
    /\ tab.pc = "counts"
    /\ tab' = [tab EXCEPT !.pc = "mine"]
    /\ UNCHANGED <<status, votes, ballot, counted, contested>>

ReadCounts ==
    /\ tab.pc = "counts"
    /\ tab' = [tab EXCEPT !.pc = "mine", !.counts = votes]
    /\ UNCHANGED <<status, votes, ballot, counted, contested>>

ReadMine ==
    /\ tab.pc = "mine"
    /\ tab' = [tab EXCEPT !.pc = "shown", !.mine = votes]
    /\ UNCHANGED <<status, votes, ballot, counted, contested>>

\* The operator finishes the survey, opens it again, or archives it.
SetStatus(s) ==
    /\ s # status
    /\ status' = s
    /\ UNCHANGED <<votes, ballot, tab, counted, contested>>

Next ==
    \/ \E b \in Ballots :
         \/ \E choice \in Choice : ResolveSurvey(b, choice)
         \/ CheckOptions(b) \/ CheckExisting(b) \/ InsertVotes(b) \/ CutOff(b)
    \/ LoadSurvey \/ ReadCounts \/ ReadMine
    \/ \E s \in {"live", "finished", "archived"} : SetStatus(s)

Spec == Init /\ [][Next]_surveyVars

-----------------------------------------------------------------------------
(* Properties *)

\* What tribe.ts:324-326 says of a second submit, and 344-345 of the unique key that
\* guards two at once: the votes on record are those of the first one recorded.
SecondSubmitAddsNothing == IF counted = Nothing THEN votes = {} ELSE votes = counted

\* While one vote is under way at a time, that is so through failures, retries and
\* changes of the survey's status; and the tab shows a choice the counts include,
\* unless it was made while the tab was read.
VoteStands ==
    /\ contested \/ SecondSubmitAddsNothing
    /\ tab.pc = "shown" => \/ tab.mine \subseteq tab.counts
                           \/ tab.mine # tab.from
=============================================================================
