----------------------------- MODULE Onboarding -----------------------------
(***************************************************************************)
(* The onboarding of a user who gives the code of a referrer               *)
(* (POST /auth/onboarding), with the handles it and PUT /auth/handle       *)
(* compete for.                                                            *)
(*                                                                         *)
(* No transaction holds the statements together: one that fails answers    *)
(* 500 and leaves what was written before it, and the client tries again.  *)
(***************************************************************************)
EXTENDS Naturals

CONSTANTS
    Handles,     \* handles a user may ask for
    Submits,     \* slots of the user's requests in flight
    MaxReferrals \* bound on the referrals counted

VARIABLES
    mine,       \* the user's handle: a temporary one, or one of Handles
    others,     \* handles of other users
    changed,    \* handle_updated_at is within the cooldown
    referred,   \* rows of referrals for the user
    months,     \* months the referrer was last granted
    trial,      \* times the user was granted the joiner's days
    welcomes,   \* announcements in the user's room
    submit,     \* the request in each slot
    broken,     \* history: two requests overlapped
    cut         \* history: one was cut off

onboardingVars == <<mine, others, changed, referred, months, trial, welcomes, submit,
                    broken, cut>>

Temp == "_temp_"
Submit == [pc : {"idle", "taken", "prior", "upsert", "referrer", "refer", "grant", "trial",
                 "welcome", "change", "rename"},
           handle : Handles \cup {Temp}, first : BOOLEAN, seen : BOOLEAN]
NoSubmit == [pc |-> "idle", handle |-> Temp, first |-> FALSE, seen |-> FALSE]

TypeOK ==
    /\ mine \in Handles \cup {Temp}
    /\ others \subseteq Handles /\ mine \notin others
    /\ changed \in BOOLEAN
    /\ referred \in 0..MaxReferrals /\ months \in 0..MaxReferrals
    /\ trial \in 0..MaxReferrals /\ welcomes \in 0..MaxReferrals
    /\ submit \in [Submits -> Submit]
    /\ broken \in BOOLEAN /\ cut \in BOOLEAN

Init ==
    /\ mine = Temp /\ others = {}
    /\ changed = FALSE
    /\ referred = 0 /\ months = 0 /\ trial = 0 /\ welcomes = 0
    /\ submit = [s \in Submits |-> NoSubmit]
    /\ broken = FALSE /\ cut = FALSE

-----------------------------------------------------------------------------
(* POST /onboarding *)

Goto(s, pc) == submit' = [submit EXCEPT ![s].pc = pc]
Close(s) == submit' = [submit EXCEPT ![s] = NoSubmit]
Busy == \E k \in Submits : submit[k].pc # "idle"
More(n) == IF n = MaxReferrals THEN n ELSE n + 1

Rewards == <<referred, months, trial, welcomes>>
Elsewhere == <<others, changed>>
History == <<broken, cut>>

Start(s, h) ==
    /\ submit[s].pc = "idle"
    /\ submit' = [submit EXCEPT ![s] = [NoSubmit EXCEPT !.pc = "taken", !.handle = h]]
    /\ broken' = (broken \/ Busy)
    /\ UNCHANGED <<mine, Rewards, Elsewhere, cut>>

\* A handle anybody has is refused, the user's own too: a second try with the
\* same handle ends here.
CheckTaken(s) ==
    /\ submit[s].pc = "taken"
    /\ IF submit[s].handle \in others \cup {mine} THEN Close(s) ELSE Goto(s, "prior")
    /\ UNCHANGED <<mine, Rewards, Elsewhere, History>>

\* Mutant: every onboarding is taken for the first.
ReadNoPrior(s) ==
    /\ submit[s].pc = "prior"
    /\ submit' = [submit EXCEPT ![s].pc = "upsert", ![s].first = TRUE]
    /\ UNCHANGED <<mine, Rewards, Elsewhere, History>>

ReadPrior(s) ==
    /\ submit[s].pc = "prior"
    /\ submit' = [submit EXCEPT ![s].pc = "upsert", ![s].first = (mine = Temp)]
    /\ UNCHANGED <<mine, Rewards, Elsewhere, History>>

\* The handle is unique: one taken meanwhile throws.  Without a code, or with
\* one that leads nowhere, the rewards are passed over.  The premium of the row
\* returned is what the joiner is judged by.
Upsert(s) ==
    /\ submit[s].pc = "upsert"
    /\ IF submit[s].handle \in others
       THEN Close(s) /\ UNCHANGED mine
       ELSE /\ mine' = submit[s].handle
            /\ \E pc \in {"referrer", "welcome"} :
                 submit' = [submit EXCEPT ![s].pc = pc, ![s].seen = (trial > 0)]
    /\ UNCHANGED <<Rewards, Elsewhere, History>>

\* The owner of the code may be banned or gone by now.
ReadReferrer(s) ==
    /\ submit[s].pc = "referrer"
    /\ Goto(s, "refer") \/ Goto(s, "welcome")
    /\ UNCHANGED <<mine, Rewards, Elsewhere, History>>

\* No constraint keeps a user from being referred twice.
InsertReferral(s) ==
    /\ submit[s].pc = "refer"
    /\ referred' = More(referred)
    /\ Goto(s, "grant")
    /\ UNCHANGED <<mine, months, trial, welcomes, Elsewhere, History>>

\* A month for every referral of the referrer, counted anew, up to twelve.
GrantReferrer(s) ==
    /\ submit[s].pc = "grant"
    /\ months' = referred
    /\ Goto(s, IF submit[s].first /\ ~submit[s].seen THEN "trial" ELSE "welcome")
    /\ UNCHANGED <<mine, referred, trial, welcomes, Elsewhere, History>>

GrantJoiner(s) ==
    /\ submit[s].pc = "trial"
    /\ trial' = More(trial)
    /\ Goto(s, "welcome")
    /\ UNCHANGED <<mine, referred, months, welcomes, Elsewhere, History>>

\* The mail and the announcement, the first time.
Welcome(s) ==
    /\ submit[s].pc = "welcome"
    /\ welcomes' = IF submit[s].first THEN More(welcomes) ELSE welcomes
    /\ Close(s)
    /\ UNCHANGED <<mine, referred, months, trial, Elsewhere, History>>

-----------------------------------------------------------------------------
(* PUT /handle, the others, a failure *)

\* The cooldown and the handle are those of the session check.
StartChange(s, h) ==
    /\ submit[s].pc = "idle"
    /\ mine # Temp
    /\ ~changed /\ h # mine
    /\ submit' = [submit EXCEPT ![s] = [NoSubmit EXCEPT !.pc = "change", !.handle = h]]
    /\ broken' = (broken \/ Busy)
    /\ UNCHANGED <<mine, Rewards, Elsewhere, cut>>

CheckFree(s) ==
    /\ submit[s].pc = "change"
    /\ IF submit[s].handle \in others THEN Close(s) ELSE Goto(s, "rename")
    /\ UNCHANGED <<mine, Rewards, Elsewhere, History>>

\* The row is read again by no one: a handle taken meanwhile throws.
Rename(s) ==
    /\ submit[s].pc = "rename"
    /\ IF submit[s].handle \in others
       THEN UNCHANGED <<mine, changed>>
       ELSE mine' = submit[s].handle /\ changed' = TRUE
    /\ Close(s)
    /\ UNCHANGED <<Rewards, others, History>>

CooldownEnds ==
    /\ changed
    /\ changed' = FALSE
    /\ UNCHANGED <<mine, others, Rewards, submit, History>>

\* Another user takes a handle or gives one up.
OtherTakes(h) ==
    /\ h # mine
    /\ others' = IF h \in others THEN others \ {h} ELSE others \cup {h}
    /\ UNCHANGED <<mine, changed, Rewards, submit, History>>

\* A statement fails or the process stops.
CutOff(s) ==
    /\ submit[s].pc # "idle"
    /\ Close(s)
    /\ cut' = TRUE
    /\ UNCHANGED <<mine, Rewards, Elsewhere, broken>>

Next ==
    \/ \E s \in Submits :
         \/ \E h \in Handles : Start(s, h) \/ StartChange(s, h)
         \/ CheckTaken(s) \/ ReadPrior(s) \/ Upsert(s) \/ ReadReferrer(s) \/ InsertReferral(s)
         \/ GrantReferrer(s) \/ GrantJoiner(s) \/ Welcome(s) \/ CheckFree(s) \/ Rename(s)
         \/ CutOff(s)
    \/ \E h \in Handles : OtherTakes(h)
    \/ CooldownEnds

-----------------------------------------------------------------------------
(* Properties *)

\* Tried again and again, also after a failure half-way, an onboarding welcomes the
\* user and grants the joiner's days at most once, the days never without a referral,
\* and the referrer no more months than there are referrals; exactly as many, and the
\* welcome, if no request was cut off.  Only two requests at once break that.  (A user
\* who onboards again under another handle is another referral, and the referrer is
\* paid again: nothing in the code or beside it says otherwise.)
JoinsOnce ==
    broken \/
    /\ welcomes <= 1 /\ trial <= 1 /\ months <= referred
    /\ trial = 1 => referred > 0
    /\ ~Busy /\ ~cut => months = referred /\ (mine # Temp => welcomes = 1)
=============================================================================
