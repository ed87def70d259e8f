-------------------------- MODULE GroupMembership --------------------------
(***************************************************************************)
(* One group of routes/groups.ts: its conversation row, its participant    *)
(* rows and the create, join, leave and kick handlers, with the deletion   *)
(* of accounts (routes/auth.ts).  None of the reads below is repeated in   *)
(* the write that relies on it, and only leave uses a transaction; every   *)
(* await ends one action, so handlers interleave as the event loop and the *)
(* database let them.                                                      *)
(*                                                                         *)
(* Slugs, names and the owned-groups limit belong to GroupSlugs; messages, *)
(* announcements and per-member flags (muted, archived, hidden, receipts)  *)
(* are left out.                                                           *)
(***************************************************************************)
EXTENDS Naturals, FiniteSets

CONSTANTS
    Users,      \* accounts that may ever exist
    Requests,   \* handler slots: how many requests may be in flight at once
    NoUser,     \* "no account": a null created_by_id, an unused local
    FreeCap,    \* maxGroupMembers of a free owner
    PremiumCap  \* maxGroupMembers of a premium owner

ASSUME UsersAssumption == IsFiniteSet(Users) /\ NoUser \notin Users
ASSUME RequestsAssumption == IsFiniteSet(Requests)
ASSUME CapAssumption == FreeCap \in Nat \ {0} /\ PremiumCap \in Nat /\ FreeCap <= PremiumCap

VARIABLES
    accounts,   \* rows of the users table
    group,      \* the conversation: not created yet, open, or archived_at is set
    owner,      \* its created_by_id (ON DELETE SET NULL)
    premium,    \* the owner's tier is premium
    row,        \* conversation_participants: role of each user, "none" = no row
    active,     \* users whose row has left_at = null
    req         \* the in-flight handler of each slot

vars == <<accounts, group, owner, premium, row, active, req>>

RowRole == {"none", "member", "admin", "kicked"}
User == Users \cup {NoUser}

CreateStep == {"insertAdmin"}
JoinStep   == {"readRow", "count", "tier", "rejoin", "insert"}
LeaveStep  == {"countAdmins", "leave", "leaveAndArchive"}
KickStep   == {"readTarget", "kick"}
Step == {"idle"} \cup CreateStep \cup JoinStep \cup LeaveStep \cup KickStep

\* user is the joiner, leaver, creator or kick target; known says that the join
\* found an earlier row, seen is the member count the join has read.
Request == [pc : Step, user : User, known : BOOLEAN, seen : Nat]
NoRequest == [pc |-> "idle", user |-> NoUser, known |-> FALSE, seen |-> 0]

TypeOK ==
    /\ accounts \subseteq Users
    /\ group \in {"none", "open", "archived"}
    /\ owner \in User
    /\ premium \in BOOLEAN
    /\ row \in [Users -> RowRole]
    /\ active \subseteq {u \in Users : row[u] # "none"}
    /\ req \in [Requests -> Request]
    /\ \A r \in Requests : req[r].pc # "idle" => req[r].user \in Users

Init ==
    /\ accounts = Users
    /\ group = "none"
    /\ owner = NoUser
    /\ premium \in BOOLEAN
    /\ row = [u \in Users |-> "none"]
    /\ active = {}
    /\ req = [r \in Requests |-> NoRequest]

-----------------------------------------------------------------------------
(* Handler plumbing *)

rows == <<accounts, group, owner, premium, row, active>>

\* A request of account u arrives in a free slot and stops at its first await.
Arrive(r, u, rec) ==
    /\ req[r].pc = "idle"
    /\ u \in accounts
    /\ req' = [req EXCEPT ![r] = rec]

Goto(r, step) == req' = [req EXCEPT ![r].pc = step]

Respond(r) == req' = [req EXCEPT ![r] = NoRequest]

ActiveAdmins == {u \in active : row[u] = "admin"}

-----------------------------------------------------------------------------
(* POST /groups: two inserts without a transaction *)

InsertConversation(r, u) ==
    /\ group = "none"
    /\ group' = "open"
    /\ owner' = u
    /\ Arrive(r, u, [NoRequest EXCEPT !.pc = "insertAdmin", !.user = u])
    /\ UNCHANGED <<accounts, premium, row, active>>

\* UNIQUE (conversation, user) and the foreign key may refuse the row (500):
\* the creator has joined by the slug meanwhile, or is gone.
InsertAdminRow(r) ==
    LET u == req[r].user IN
    /\ req[r].pc = "insertAdmin"
    /\ IF row[u] = "none" /\ u \in accounts
       THEN row' = [row EXCEPT ![u] = "admin"] /\ active' = active \cup {u}
       ELSE UNCHANGED <<row, active>>
    /\ Respond(r)
    /\ UNCHANGED <<accounts, group, owner, premium>>

-----------------------------------------------------------------------------
(* POST /groups/:slug/join *)

\* Mutant: the check of D-12 is missing.
JoinReadAnyGroup(r, u) ==
    /\ group # "none"
    /\ Arrive(r, u, [NoRequest EXCEPT !.pc = "readRow", !.user = u])
    /\ UNCHANGED rows

\* The slug resolves and the group is not archived (D-12).
JoinReadGroup(r, u) ==
    /\ group = "open"
    /\ Arrive(r, u, [NoRequest EXCEPT !.pc = "readRow", !.user = u])
    /\ UNCHANGED rows

\* Mutant: "kicked" is not looked at.
JoinReadRowIgnoringKick(r) ==
    LET u == req[r].user IN
    /\ req[r].pc = "readRow"
    /\ IF u \in active
       THEN Respond(r)
       ELSE req' = [req EXCEPT ![r].pc = "count", ![r].known = row[u] # "none"]
    /\ UNCHANGED rows

\* A member (400) and a kicked user (403) are refused.
JoinReadRow(r) ==
    LET u == req[r].user IN
    /\ req[r].pc = "readRow"
    /\ IF u \in active \/ row[u] = "kicked"
       THEN Respond(r)
       ELSE req' = [req EXCEPT ![r].pc = "count", ![r].known = row[u] # "none"]
    /\ UNCHANGED rows

JoinCount(r) ==
    /\ req[r].pc = "count"
    /\ req' = [req EXCEPT ![r].pc = "tier", ![r].seen = Cardinality(active)]
    /\ UNCHANGED rows

Cap == IF premium THEN PremiumCap ELSE FreeCap

Admitted(q) == [q EXCEPT !.pc = IF q.known THEN "rejoin" ELSE "insert",
                         !.known = FALSE, !.seen = 0]

\* Mutant: the comparison admits one too many.
JoinReadTierOffByOne(r) ==
    /\ req[r].pc = "tier"
    /\ IF owner = NoUser \/ req[r].seen > Cap
       THEN Respond(r)
       ELSE req' = [req EXCEPT ![r] = Admitted(@)]
    /\ UNCHANGED rows

\* The limit is the owner's.  Without an owner, or once their account is gone,
\* the profile lookup yields no row and the handler throws (500).
JoinReadTier(r) ==
    /\ req[r].pc = "tier"
    /\ IF owner = NoUser \/ req[r].seen >= Cap
       THEN Respond(r)
       ELSE req' = [req EXCEPT ![r] = Admitted(@)]
    /\ UNCHANGED rows

\* Mutant: the participant is taken back although the row is gone.
RejoinUnchecked(r) ==
    /\ req[r].pc = "rejoin"
    /\ active' = active \cup {req[r].user}
    /\ Respond(r)
    /\ UNCHANGED <<accounts, group, owner, premium, row>>

\* UPDATE ... SET left_at = null by row id: the row keeps whatever role it has.
Rejoin(r) ==
    LET u == req[r].user IN
    /\ req[r].pc = "rejoin"
    /\ active' = IF row[u] = "none" THEN active ELSE active \cup {u}
    /\ Respond(r)
    /\ UNCHANGED <<accounts, group, owner, premium, row>>

\* Mutant: the insert becomes an upsert of the role.
InsertOrResetMember(r) ==
    LET u == req[r].user IN
    /\ req[r].pc = "insert"
    /\ IF u \in accounts
       THEN row' = [row EXCEPT ![u] = "member"] /\ active' = active \cup {u}
       ELSE UNCHANGED <<row, active>>
    /\ Respond(r)
    /\ UNCHANGED <<accounts, group, owner, premium>>

\* INSERT of a member row; the unique pair and the foreign key may refuse it.
InsertMember(r) ==
    LET u == req[r].user IN
    /\ req[r].pc = "insert"
    /\ IF row[u] = "none" /\ u \in accounts
       THEN row' = [row EXCEPT ![u] = "member"] /\ active' = active \cup {u}
       ELSE UNCHANGED <<row, active>>
    /\ Respond(r)
    /\ UNCHANGED <<accounts, group, owner, premium>>

-----------------------------------------------------------------------------
(* POST /groups/:id/leave *)

LeaveRead(r, u) ==
    /\ u \in active
    /\ Arrive(r, u, [NoRequest EXCEPT
                       !.pc = IF row[u] = "admin" THEN "countAdmins" ELSE "leave",
                       !.user = u])
    /\ UNCHANGED rows

\* D-05: is anyone else an active admin?
LeaveCountAdmins(r) ==
    /\ req[r].pc = "countAdmins"
    /\ Goto(r, IF ActiveAdmins \ {req[r].user} = {} THEN "leaveAndArchive" ELSE "leave")
    /\ UNCHANGED rows

\* The transaction stamps left_at by row id and archives for the last admin.
LeaveTx(r) ==
    /\ req[r].pc \in {"leave", "leaveAndArchive"}
    /\ active' = active \ {req[r].user}
    /\ group' = IF req[r].pc = "leaveAndArchive" THEN "archived" ELSE group
    /\ Respond(r)
    /\ UNCHANGED <<accounts, owner, premium, row>>

-----------------------------------------------------------------------------
(* DELETE /groups/:id/members/:userId *)

\* Mutant: an admin may kick themselves.
KickGateSelf(r, a, u) ==
    /\ a \in ActiveAdmins
    /\ Arrive(r, a, [NoRequest EXCEPT !.pc = "readTarget", !.user = u])
    /\ UNCHANGED rows

\* Only an admin kicks, and not themselves.
KickGate(r, a, u) ==
    /\ a # u
    /\ a \in ActiveAdmins
    /\ Arrive(r, a, [NoRequest EXCEPT !.pc = "readTarget", !.user = u])
    /\ UNCHANGED rows

KickReadTarget(r) ==
    /\ req[r].pc = "readTarget"
    /\ IF req[r].user \in active THEN Goto(r, "kick") ELSE Respond(r)
    /\ UNCHANGED rows

\* UPDATE by row id: left_at = now, role = 'kicked'.
Kick(r) ==
    LET u == req[r].user IN
    /\ req[r].pc = "kick"
    /\ row' = [row EXCEPT ![u] = IF @ = "none" THEN "none" ELSE "kicked"]
    /\ active' = active \ {u}
    /\ Respond(r)
    /\ UNCHANGED <<accounts, group, owner, premium>>

-----------------------------------------------------------------------------
(* Other actors *)

\* DELETE /auth/account: participant rows cascade, created_by_id becomes null.
DeleteAccount(u) ==
    /\ u \in accounts
    /\ accounts' = accounts \ {u}
    /\ row' = [row EXCEPT ![u] = "none"]
    /\ active' = active \ {u}
    /\ owner' = IF owner = u THEN NoUser ELSE owner
    /\ UNCHANGED <<group, premium, req>>

\* A purchase, an expiry or a refund changes the owner's tier.
OwnerTierChanges ==
    /\ owner # NoUser
    /\ premium' = ~premium
    /\ UNCHANGED <<accounts, group, owner, row, active, req>>

\* The process dies: rows survive, handlers do not.
Crash ==
    /\ \E r \in Requests : req[r] # NoRequest
    /\ req' = [r \in Requests |-> NoRequest]
    /\ UNCHANGED rows

-----------------------------------------------------------------------------

HandlerStep(r) ==
    \/ InsertAdminRow(r)
    \/ JoinReadRow(r)
    \/ JoinCount(r)
    \/ JoinReadTier(r)
    \/ Rejoin(r)
    \/ InsertMember(r)
    \/ LeaveCountAdmins(r)
    \/ LeaveTx(r)
    \/ KickReadTarget(r)
    \/ Kick(r)

Arrival(r) ==
    \E u \in Users :
        \/ InsertConversation(r, u)
        \/ JoinReadGroup(r, u)
        \/ LeaveRead(r, u)
        \/ \E a \in Users : KickGate(r, a, u)

Next ==
    \/ \E r \in Requests : Arrival(r) \/ HandlerStep(r)
    \/ \E u \in Users : DeleteAccount(u)
    \/ OwnerTierChanges
    \/ Crash

Spec == Init /\ [][Next]_vars

-----------------------------------------------------------------------------
(* Properties *)

JoinsInFlight == {r \in Requests : req[r].pc \in JoinStep}

\* Joins of u that have read u's row already.
JoinsDecided(u) ==
    {r \in Requests : req[r].pc \in JoinStep \ {"readRow"} /\ req[r].user = u}

\* No creation is under way that could still add an admin.
Settled == \A r \in Requests : req[r].pc # "insertAdmin"

\* An insert of a row of u would be refused: they have one, or they are gone.
Refused(u) == row[u] # "none" \/ u \notin accounts

\* u is not the admin and has no way left to become it.
NeverAdmin(u) == row[u] # "admin" /\ (Settled \/ Refused(u))

\* Only the creator is ever an admin, once: whoever is being kicked is not the
\* admin, and only a non-admin leaves without counting admins.
SoleAdmin ==
    /\ group = "none" => /\ active = {}
                         /\ \A u \in Users : row[u] = "none"
                         /\ \A r \in Requests : req[r].pc = "idle"
    /\ group = "archived" => Settled
    /\ \A u \in Users : row[u] = "admin" => Settled
    /\ \A u, v \in Users : row[u] = "admin" /\ row[v] = "admin" => u = v
    /\ \A r, q \in Requests :
          req[r].pc = "insertAdmin" /\ req[q].pc = "insertAdmin" => r = q
    /\ \A r \in Requests :
          /\ req[r].pc \in {"countAdmins", "leaveAndArchive", "readTarget", "kick"} => Settled
          /\ req[r].pc \in {"readTarget", "kick"} => row[req[r].user] # "admin"
          /\ req[r].pc = "leave" => NeverAdmin(req[r].user)

\* The last admin goes only when the same step archives the group (D-05), or by
\* deleting the account: no kick, race or repeated leave strands an open group.
AdminLossArchives ==
    [][ActiveAdmins # {} /\ ActiveAdmins' = {}
         => group' = "archived" \/ accounts' # accounts]_vars

\* Once archived, with no join past its archived check, a group only shrinks.
ArchivedGroupOnlyShrinks ==
    [][group = "archived" /\ JoinsInFlight = {}
         => /\ group' = "archived" /\ JoinsInFlight' = {}
            /\ active' \subseteq active]_vars

\* A kicked user none of whose joins has passed the check of their row never
\* gets back in, whatever they and the admins call afterwards.
KickSticks ==
    [][\A u \in Users :
          row[u] = "kicked" /\ u \notin active /\ JoinsDecided(u) = {}
            => u \notin active' /\ JoinsDecided(u)' = {}]_vars

\* Archiving a group and kicking a user are final, as soon as no join is under way
\* that had passed the check for it.
ClosedDoorsStayClosed == ArchivedGroupOnlyShrinks /\ KickSticks

\* The member count overshoots the largest tier limit by at most the joins that
\* run at once: each saw a count below the limit.
CapacityBounded == Cardinality(active) < PremiumCap + Cardinality(Requests)
=============================================================================
