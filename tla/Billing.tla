------------------------------- MODULE Billing -------------------------------
(***************************************************************************)
(* The premium of one user: the store's subscription, the webhook that     *)
(* tells of it (routes/revenuecat.ts), the grants of referrals             *)
(* (routes/auth.ts) and the access that follows (services/capabilities.ts).*)
(*                                                                         *)
(* The store and RevenueCat are external: every change of the subscription *)
(* makes an event, delivered until it is answered 200.  Time is counted in *)
(* billing periods.                                                        *)
(***************************************************************************)
EXTENDS Naturals, Sequences

CONSTANTS
    Hooks,      \* slots of webhook requests in flight
    MaxPeriod,  \* bound on the time
    MaxEvents,  \* bound on the events of a behaviour
    MaxFaults,  \* bound on the failures of a behaviour
    Lifetime    \* premium_expires_at = null

VARIABLES
    now,          \* the time
    paid,         \* the time the store has been paid for, 0 = not yet
    event,        \* the events, in the order the store made them
    owed,         \* those not answered 200 yet
    hook,         \* the webhook request in each slot
    premium,      \* user_profiles.is_premium and premium_expires_at
    conversion,   \* events with a row in attribution_conversions
    faults,       \* failures so far
    disordered,   \* history: an event was handled beside or after a later one
    meddled       \* history: a grant, a transfer or an event without expiration

billingVars == <<now, paid, event, owed, hook, premium, conversion, faults, disordered, meddled>>

Grant == {"INITIAL_PURCHASE", "RENEWAL", "UNCANCELLATION"}
SoftExpiry == {"BILLING_ISSUE"}
Revoke == {"EXPIRATION"}
Type == Grant \cup SoftExpiry \cup Revoke \cup {"CANCELLATION", "TRANSFER"}

Period == 0..(MaxPeriod + 2)
NoExpiry == 0
\* known: one of the ids it carries is the user's.
Event == [type : Type, until : Period, known : BOOLEAN]
Hook == [pc : {"idle", "apply", "lookup", "insert", "reply"}, e : 0..MaxEvents]
NoHook == [pc |-> "idle", e |-> 0]

TypeOK ==
    /\ now \in 1..MaxPeriod
    /\ paid \in Period
    /\ event \in Seq(Event) /\ Len(event) <= MaxEvents
    /\ owed \cup conversion \subseteq 1..Len(event)
    /\ hook \in [Hooks -> Hook]
    /\ premium \in [is : BOOLEAN, until : Period \cup {Lifetime}]
    /\ faults \in 0..MaxFaults
    /\ disordered \in BOOLEAN /\ meddled \in BOOLEAN

Init ==
    /\ now = 1 /\ paid = 0
    /\ event = <<>> /\ owed = {}
    /\ hook = [h \in Hooks |-> NoHook]
    /\ premium = [is |-> FALSE, until |-> Lifetime]
    /\ conversion = {}
    /\ faults = 0 /\ disordered = FALSE /\ meddled = FALSE

\* premiumActive of computeCapabilities.
Access == premium.is /\ (premium.until = Lifetime \/ premium.until > now)

-----------------------------------------------------------------------------
(* The store *)

TellOf(type, until, known) ==
    /\ Len(event) < MaxEvents
    /\ event' = Append(event, [type |-> type, until |-> until, known |-> known])
    /\ owed' = owed \cup {Len(event) + 1}

Tell(type, until) == TellOf(type, until, TRUE)

Handling == <<hook, premium, conversion, faults, disordered>>

\* A purchase, once nothing is paid for.
Purchase ==
    /\ paid <= now
    /\ paid' = now + 1
    /\ Tell("INITIAL_PURCHASE", now + 1)
    /\ UNCHANGED <<now, meddled, Handling>>

\* The store charges ahead of the end of the period.
Renew ==
    /\ paid = now + 1
    /\ paid' = now + 2
    /\ Tell("RENEWAL", now + 2)
    /\ UNCHANGED <<now, meddled, Handling>>

\* Auto-renew is turned off or on again, or a charge fails: nothing is taken
\* away before the end of what is paid.
TurnOff ==
    /\ paid > now
    /\ \E type \in {"CANCELLATION", "UNCANCELLATION", "BILLING_ISSUE"} : Tell(type, paid)
    /\ UNCHANGED <<now, paid, meddled, Handling>>

\* The end of what is paid.
Expire ==
    /\ paid \in 1..now
    /\ \A e \in 1..Len(event) : event[e].type = "EXPIRATION" => event[e].until < paid
    /\ Tell("EXPIRATION", paid)
    /\ UNCHANGED <<now, paid, meddled, Handling>>

\* The subscription of another account of the same customer moves here.
Transfer ==
    /\ paid <= now
    /\ paid' = now + 1
    /\ Tell("TRANSFER", now + 1)
    /\ meddled' = TRUE
    /\ UNCHANGED <<now, Handling>>

\* An event amiss: without an expiration, or with ids that are no user's.
TellAmiss(type, until) ==
    \/ TellOf(type, NoExpiry, TRUE)
    \/ TellOf(type, until, FALSE)

PurchaseAmiss ==
    /\ paid <= now
    /\ paid' = now + 1
    /\ TellAmiss("INITIAL_PURCHASE", now + 1)
    /\ meddled' = TRUE
    /\ UNCHANGED <<now, Handling>>

ChangeAmiss ==
    /\ paid > now
    /\ \E type \in {"RENEWAL", "BILLING_ISSUE"} : TellAmiss(type, paid)
    /\ meddled' = TRUE
    /\ UNCHANGED <<now, paid, Handling>>

PeriodEnds ==
    /\ now < MaxPeriod
    /\ now' = now + 1
    /\ UNCHANGED <<paid, event, owed, meddled, Handling>>

-----------------------------------------------------------------------------
(* POST /webhook *)

Outside == <<now, paid, event, meddled>>
Goto(h, pc) == hook' = [hook EXCEPT ![h].pc = pc]
Told(h) == event[hook[h].e]

\* RevenueCat delivers what it is owed, in no order of its own.
Deliver(h, e) ==
    /\ hook[h].pc = "idle" /\ e \in owed
    /\ \A k \in Hooks : hook[k].e # e
    /\ hook' = [hook EXCEPT ![h] = [pc |-> "apply", e |-> e]]
    /\ disordered' = (disordered \/ (\E f \in owed : f < e) \/ (\E k \in Hooks : hook[k].e > e)
                        \/ (\E f \in 1..Len(event) \ owed : f > e))
    /\ UNCHANGED <<Outside, owed, premium, conversion, faults>>

\* Mutant: a charge that failed ends the access.
ApplyRevokesEarly(h) ==
    /\ hook[h].pc = "apply"
    /\ premium' = IF Told(h).type \in Grant
                  THEN [is |-> TRUE, until |-> Told(h).until]
                  ELSE [premium EXCEPT !.is = FALSE]
    /\ Goto(h, IF Told(h).type = "INITIAL_PURCHASE" THEN "lookup" ELSE "reply")
    /\ UNCHANGED <<Outside, owed, conversion, faults, disordered>>

\* Mutant: the purchase is answered without its conversion.
ApplyOnly(h) ==
    /\ hook[h].pc = "apply"
    /\ premium' = [is |-> Told(h).type \notin Revoke, until |-> Told(h).until]
    /\ Goto(h, "reply")
    /\ UNCHANGED <<Outside, owed, conversion, faults, disordered>>

\* The events that are put down to a referrer: the handler answers 200 before it
\* comes to that if the user is not known or a grant has no expiration.
Converts(ev) == ev.type = "INITIAL_PURCHASE" /\ ev.known /\ ev.until # NoExpiry

Apply(h) ==
    LET until == Told(h).until
        type == Told(h).type
    IN
    /\ hook[h].pc = "apply"
    /\ CASE ~Told(h).known -> UNCHANGED premium
         [] Told(h).known /\ type = "TRANSFER" -> premium' = [premium EXCEPT !.is = TRUE]
         [] Told(h).known /\ type \in Grant /\ until = NoExpiry -> UNCHANGED premium
         [] Told(h).known /\ type \in Grant \cup SoftExpiry /\ until # NoExpiry ->
              premium' = [is |-> TRUE, until |-> until]
         [] Told(h).known /\ type \in SoftExpiry /\ until = NoExpiry ->
              premium' = [premium EXCEPT !.is = FALSE]
         [] Told(h).known /\ type \in Revoke -> premium' = [premium EXCEPT !.is = FALSE]
         [] Told(h).known /\ type = "CANCELLATION" -> UNCHANGED premium
    /\ Goto(h, IF Converts(Told(h)) THEN "lookup" ELSE "reply")
    /\ UNCHANGED <<Outside, owed, conversion, faults, disordered>>

\* The referral of the user is read, and the purchase put down to it once.
LookUpReferral(h) ==
    /\ hook[h].pc = "lookup"
    /\ Goto(h, "insert")
    /\ UNCHANGED <<Outside, owed, premium, conversion, faults, disordered>>

InsertConversion(h) ==
    /\ hook[h].pc = "insert"
    /\ conversion' = conversion \cup {hook[h].e}
    /\ Goto(h, "reply")
    /\ UNCHANGED <<Outside, owed, premium, faults, disordered>>

Reply(h) ==
    /\ hook[h].pc = "reply"
    /\ owed' = owed \ {hook[h].e}
    /\ hook' = [hook EXCEPT ![h] = NoHook]
    /\ UNCHANGED <<Outside, premium, conversion, faults, disordered>>

\* Mutant: a failure is answered 200.
FailAnswered(h) ==
    /\ hook[h].pc # "idle" /\ faults < MaxFaults
    /\ owed' = owed \ {hook[h].e}
    /\ hook' = [hook EXCEPT ![h] = NoHook]
    /\ faults' = faults + 1
    /\ UNCHANGED <<Outside, premium, conversion, disordered>>

\* A statement fails, the process stops or the answer is lost: the event is
\* still owed.
Fail(h) ==
    /\ hook[h].pc # "idle" /\ faults < MaxFaults
    /\ hook' = [hook EXCEPT ![h] = NoHook]
    /\ faults' = faults + 1
    /\ UNCHANGED <<Outside, owed, premium, conversion, disordered>>

\* Someone onboards with the user's code: the months of all referrals from now
\* replace what was there.
GrantReferrer ==
    /\ ~meddled
    /\ premium' = [is |-> TRUE, until |-> now + 1]
    /\ meddled' = TRUE
    /\ UNCHANGED <<now, paid, event, owed, hook, conversion, faults, disordered>>

Next ==
    \/ Purchase \/ Renew \/ TurnOff \/ Expire \/ Transfer \/ PurchaseAmiss \/ ChangeAmiss \/ PeriodEnds
    \/ \E h \in Hooks :
         \/ \E e \in 1..MaxEvents : Deliver(h, e)
         \/ Apply(h) \/ LookUpReferral(h) \/ InsertConversion(h) \/ Reply(h) \/ Fail(h)
    \/ GrantReferrer

\* RevenueCat redelivers what it is owed, and a handler is not left half-way.
Fairness ==
    /\ \A h \in Hooks : WF_billingVars(Apply(h) \/ LookUpReferral(h) \/ InsertConversion(h) \/ Reply(h))
    /\ \A e \in 1..MaxEvents : WF_billingVars(\E h \in Hooks : Deliver(h, e))

-----------------------------------------------------------------------------
(* Properties *)

Settled == owed = {}

\* Once every event is answered, the access is what the store was paid for, if
\* the events came one by one and in order, and nothing else meddled.
AccessFollowsStore ==
    Settled /\ ~disordered /\ ~meddled => (Access <=> paid > now)

\* A purchase that tells the user and the end of its period is put down to its
\* referrer in the end and then no longer owed, whatever fails on the way and however
\* often it is told.  (The handler answers 200 to any other and puts nothing down.)
PurchaseIsAttributed ==
    \A e \in 1..MaxEvents :
      (e \in owed /\ event[e].type = "INITIAL_PURCHASE" /\ event[e].known /\ event[e].until # NoExpiry)
          ~> (e \in conversion /\ e \notin owed)
=============================================================================
