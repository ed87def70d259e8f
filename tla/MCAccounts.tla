------------------------------ MODULE MCAccounts ------------------------------
(***************************************************************************)
(* What the platform keeps of its users: the identities they sign in with, *)
(* the news pushed to them, the access they pay for, their handles, votes  *)
(* and reactions.  The components share no state at the grain of these     *)
(* models, so a behaviour moves one part of them and the others rest in    *)
(* their initial states.  News has two parts: one run at a time over all   *)
(* articles, for the limits, and all runs over one article, for the        *)
(* overlaps.                                                               *)
(***************************************************************************)
EXTENDS MCSlots, Naturals, FiniteSets

CONSTANTS
    Articles, Readers, Cap, Quota, Nothing,
    Signups, Periods, Events, Faults, Referrals, Reactions   \* bounds, see the instances

ASSUME AmountsAssumption ==
    /\ Signups \in Nat /\ Events \in Nat /\ Faults \in Nat /\ Reactions \in Nat
    /\ Periods \in Nat \ {0} /\ Referrals \in Nat \ {0}
ASSUME NewsAssumption == Cap \in Nat \ {0} /\ Quota \in Nat /\ IsFiniteSet(Articles)
ASSUME NothingAssumption ==
    /\ Nothing \notin Nat \cup (Readers \X Articles)
    /\ \A choice \in SUBSET Options : choice # Nothing
ASSUME HandlesAssumption == "_temp_" \notin Options

VARIABLES
    part,
    account, login, erasing, gone, told, barred, excused,
    age, article, past, usage, run, calls, pushes, day, crossed, strayed,
    period, paid, event, owed, hook, premium, conversion, faults, disordered, meddled,
    mine, others, changed, referred, months, trial, welcomes, submit, broken, cut,
    status, votes, ballot, tab, counted, contested,
    on, row, made, there, shown, tap, jostled

S == INSTANCE SignIn WITH Logins <- Slots, MaxAccounts <- Signups
N == INSTANCE NewsSweep WITH Runs <- Slots, NoPair <- Nothing
W == INSTANCE Billing WITH Hooks <- Slots, MaxPeriod <- Periods, MaxEvents <- Events,
                           MaxFaults <- Faults, Lifetime <- Nothing, now <- period
J == INSTANCE Onboarding WITH Handles <- Options, Submits <- Slots, MaxReferrals <- Referrals
V == INSTANCE Survey WITH Ballots <- Slots
K == INSTANCE Reactions WITH Taps <- Slots, MaxRows <- Reactions

svars == <<account, login, erasing, gone, told, barred, excused>>
nvars == <<age, article, past, usage, run, calls, pushes, day, crossed, strayed>>
wvars == <<period, paid, event, owed, hook, premium, conversion, faults, disordered, meddled>>
jvars == <<mine, others, changed, referred, months, trial, welcomes, submit, broken, cut>>
vvars == <<status, votes, ballot, tab, counted, contested>>
kvars == <<on, row, made, there, shown, tap, jostled>>

accountsVars == <<part, svars, nvars, wvars, jvars, vvars, kvars>>

AccountsInit ==
    /\ part \in {"sign in", "news", "overlap", "billing", "onboarding", "survey", "reactions"}
    /\ S!Init /\ N!Init /\ W!Init /\ J!Init /\ V!Init /\ K!Init
    /\ on = "article" => part = "reactions"

OneRun == \A r \in Slots \ One : run[r].pc = "idle"
OneArticle == \A a \in Articles \ One : age[a] = "future"

AccountsNext ==
    \/ part = "sign in" /\ S!Next
       /\ UNCHANGED <<part, nvars, wvars, jvars, vvars, kvars>>
    \/ part = "news" /\ N!Next /\ OneRun'
       /\ UNCHANGED <<part, svars, wvars, jvars, vvars, kvars>>
    \/ part = "overlap" /\ N!Next /\ OneArticle'
       /\ UNCHANGED <<part, svars, wvars, jvars, vvars, kvars>>
    \/ part = "billing" /\ W!Next
       /\ UNCHANGED <<part, svars, nvars, jvars, vvars, kvars>>
    \/ part = "onboarding" /\ J!Next
       /\ UNCHANGED <<part, svars, nvars, wvars, vvars, kvars>>
    \/ part = "survey" /\ V!Next
       /\ UNCHANGED <<part, svars, nvars, wvars, jvars, kvars>>
    \/ part = "reactions" /\ K!Next
       /\ UNCHANGED <<part, svars, nvars, wvars, jvars, vvars>>

AccountsSpec == AccountsInit /\ [][AccountsNext]_accountsVars /\ W!Fairness

-----------------------------------------------------------------------------
(* Properties *)

\* The component in part has its types.
AccountsTypeOK ==
    CASE part = "sign in" -> S!TypeOK
      [] part \in {"news", "overlap"} -> N!TypeOK
      [] part = "billing" -> W!TypeOK
      [] part = "onboarding" -> J!TypeOK
      [] part = "survey" -> V!TypeOK
      [] part = "reactions" -> K!TypeOK

\* An identity at a provider leads to one account, and to none that is let in
\* while that account is banned.
IdentityHolds == part = "sign in" => S!OneAccount /\ S!BanHolds

\* An article is pushed to a reader once, unless two runs have it in hand at once, which
\* is what goes wrong in NeverPushedTwice.  Runs that do not overlap keep to the cap of
\* a day and to the quota, unless one ends or meets midnight with a charge in hand.
NewsKeepsToLimits == part \in {"news", "overlap"} => N!PushedOnce /\ N!KeepsToLimits

\* What is told or asked again counts once: an event of the store however often it is
\* delivered, if the events come in order; an onboarding for the user, who is welcomed
\* and given days once, also when an attempt failed half-way, though not for the
\* referrer, who has as many months as there are referrals of that user; the first
\* vote; and the reaction a client shows.  The last three hold while no two requests
\* are under way at once; for votes that is what goes wrong in SecondSubmitAddsNothing.
RepeatsCountOnce ==
    /\ part = "billing" => W!AccessFollowsStore
    /\ part = "onboarding" => J!JoinsOnce
    /\ part = "survey" => V!VoteStands
    /\ part = "reactions" => K!ReactionIsShown

\* An initial purchase that names a user and an expiry is put down to its referrer in the
\* end, however often the handler fails on the way and the store delivers it.  Any
\* other purchase is answered 200 and put down to nobody.
PurchasesAreAttributed == W!PurchaseIsAttributed
=============================================================================
