--------------------------- MODULE OrgMembership ---------------------------
(***************************************************************************)
(* One organization of routes/orgs.ts: its membership rows, its invites    *)
(* and the HTTP handlers that change them.  Every await on the database    *)
(* inside a handler ends one action, so two handlers interleave exactly    *)
(* where the event loop lets them.  A db.transaction that holds            *)
(* LOCK TABLE organization_memberships IN EXCLUSIVE MODE is one action:    *)
(* that mode conflicts with itself and with the ROW EXCLUSIVE lock every   *)
(* INSERT, UPDATE and DELETE of the table takes.                           *)
(*                                                                         *)
(* A statement of a handler may fail, or the process die at any await: the  *)
(* slot is free again and what was committed stays (RequestFails).  The     *)
(* caps:invalidated emit that follows a commit is best-effort and touches   *)
(* no row: what it does to the rooms a socket has joined is in Rooms.       *)
(*                                                                         *)
(* POST /orgs is not an action: canCreateOrg is false for every caller     *)
(* (services/capabilities.ts), so an organization is seeded by an operator *)
(* with one admin, which is Init.                                          *)
(***************************************************************************)
EXTENDS Naturals, FiniteSets

CONSTANTS
    Users,     \* accounts that may ever exist
    Tokens,    \* invite tokens that may ever be minted (bounds invite creation)
    OtherRoles,\* the roles beside "admin": nothing in orgs.ts tells them apart
    Requests,  \* handler slots: how many requests may be in flight at once
    NoUser,    \* "no account" in a local variable or an invite
    NoToken    \* "no invite" in a local variable

ASSUME UsersAssumption == IsFiniteSet(Users) /\ NoUser \notin Users
ASSUME RequestsAssumption == IsFiniteSet(Requests)
ASSUME RolesAssumption == "admin" \notin OtherRoles /\ "none" \notin OtherRoles
ASSUME TokensAssumption == NoToken \notin Tokens

VARIABLES
    accounts,  \* rows of the users table
    role,      \* organization_memberships: role of each user, "none" = no row
    invite,    \* organization_invites by token
    req        \* the in-flight handler of each slot

vars == <<accounts, role, invite, req>>

Grant == OtherRoles \cup {"admin"}
Role  == Grant \cup {"none"}
User  == Users \cup {NoUser}

\* "closed" stands for the three rows the accept handler refuses alike:
\* accepted_at is set, expires_at is past, or the row is gone.  An invitee of
\* NoUser is a link invite.
Invite == [status : {"unminted", "pending", "closed"}, role : Role, invitee : User]
Unminted == [status |-> "unminted", role |-> "none", invitee |-> NoUser]
Closed   == [status |-> "closed", role |-> "none", invitee |-> NoUser]

Step == {"idle", "setRole", "remove",                \* member handlers
         "mint", "reuse", "rotate",                  \* invite handler
         "checkMember", "admit"}                     \* accept handler
Request == [pc : Step, caller : User, subject : User, role : Role,
            token : Tokens \cup {NoToken}]
\* The steps of a handler that acts on one member.
MemberSteps == {"setRole", "remove", "checkMember", "admit"}
NoRequest == [pc |-> "idle", caller |-> NoUser, subject |-> NoUser,
              role |-> "none", token |-> NoToken]

TypeOK ==
    /\ accounts \subseteq Users
    /\ role \in [Users -> Role]
    /\ invite \in [Tokens -> Invite]
    /\ req \in [Requests -> Request]
    /\ \A r \in Requests : req[r].pc \in MemberSteps => req[r].subject \in Users

Init ==
    /\ accounts = Users
    /\ \E u \in Users : role = [v \in Users |-> IF v = u THEN "admin" ELSE "none"]
    /\ invite = [t \in Tokens |-> Unminted]
    /\ req = [r \in Requests |-> NoRequest]

-----------------------------------------------------------------------------
(* Handler plumbing *)

\* getCapabilities(req): a live read of the caller's membership row, made once
\* per request; no transaction below revalidates its answer.
IsAdmin(u) == role[u] = "admin"
Admins == {u \in Users : IsAdmin(u)}

\* A request of an authenticated account arrives in a free slot.
Arrive(r, u, rec) ==
    /\ req[r].pc = "idle"
    /\ u \in accounts
    /\ req' = [req EXCEPT ![r] = rec]

Goto(r, step) == req' = [req EXCEPT ![r].pc = step]

Respond(r) == req' = [req EXCEPT ![r] = NoRequest]

\* The awaited statement fails (the handler answers 500) or the process dies.
RequestFails(r) ==
    /\ req[r].pc # "idle"
    /\ Respond(r)
    /\ UNCHANGED <<accounts, role, invite>>

-----------------------------------------------------------------------------
(* PUT and DELETE /:id/members/:userId *)

SetRoleGate(r, u, s, g) ==
    /\ IsAdmin(u)
    /\ Arrive(r, u, [NoRequest EXCEPT !.pc = "setRole", !.subject = s, !.role = g])
    /\ UNCHANGED <<accounts, role, invite>>

\* An admin removes anyone; anyone may leave.
RemoveGate(r, u, s) ==
    /\ IsAdmin(u) \/ u = s
    /\ Arrive(r, u, [NoRequest EXCEPT !.pc = "remove", !.subject = s])
    /\ UNCHANGED <<accounts, role, invite>>

\* Mutant: the comparison lets the last admin go.
LastAdminOffByOne(s) == IsAdmin(s) /\ Cardinality(Admins) < 1

\* The guard both locked transactions share: COUNT(admins) <= 1.
LastAdmin(s) == IsAdmin(s) /\ Cardinality(Admins) <= 1

\* The UPDATE of the first transaction and the DELETE of the second.
LockedTx(r, step, s, g) ==
    /\ req[r].pc = step
    /\ IF role[s] = "none" \/ LastAdmin(s)
       THEN UNCHANGED role
       ELSE role' = [role EXCEPT ![s] = g]
    /\ Respond(r)
    /\ UNCHANGED <<accounts, invite>>

SetRoleTx(r) == LockedTx(r, "setRole", req[r].subject, req[r].role)
\* Mutant: the row is kept and marked instead of deleted.
RemoveTxKeepsRow(r) == LockedTx(r, "remove", req[r].subject, "removed")
RemoveTx(r)  == LockedTx(r, "remove", req[r].subject, "none")

-----------------------------------------------------------------------------
(* POST /:id/invite: by handle, reuse the pending link, or rotate it *)

Pending(t) == invite[t].status = "pending"
PendingLinks == {t \in Tokens : Pending(t) /\ invite[t].invitee = NoUser}

\* A handle resolves to an account and goes straight to the insert; a link
\* request first reuses or rotates what is pending.
InviteGate(r, u, s, g, path) ==
    /\ IsAdmin(u)
    /\ IF path = "mint" THEN s \in accounts ELSE s = NoUser
    /\ Arrive(r, u, [NoRequest EXCEPT !.pc = path, !.caller = u,
                                      !.subject = s, !.role = g])
    /\ UNCHANGED <<accounts, role, invite>>

\* Mutant: the lookup of a pending link is skipped.
ReuseLinkNever(r) ==
    /\ req[r].pc = "reuse"
    /\ Goto(r, "mint")
    /\ UNCHANGED <<accounts, role, invite>>

\* An existing pending link is returned as it is; otherwise one is minted.
ReuseLink(r) ==
    /\ req[r].pc = "reuse"
    /\ IF PendingLinks # {} THEN Respond(r) ELSE Goto(r, "mint")
    /\ UNCHANGED <<accounts, role, invite>>

\* One UPDATE expires every pending link of the organization.
RotateLinks(r) ==
    /\ req[r].pc = "rotate"
    /\ invite' = [t \in Tokens |-> IF t \in PendingLinks THEN Closed ELSE invite[t]]
    /\ Goto(r, "mint")
    /\ UNCHANGED <<accounts, role>>

\* A fresh token is inserted.  The foreign keys refuse the row when inviter or
\* invitee has been deleted meanwhile (the handler answers 500).
MintInvite(r) ==
    LET q == req[r] IN
    /\ q.pc = "mint"
    /\ IF {q.caller, q.subject} \subseteq accounts \cup {NoUser}
       THEN \E t \in Tokens :
              /\ invite[t] = Unminted
              /\ invite' = [invite EXCEPT ![t] =
                    [status |-> "pending", role |-> q.role, invitee |-> q.subject]]
       ELSE UNCHANGED invite
    /\ Respond(r)
    /\ UNCHANGED <<accounts, role>>

\* INVITE_TTL_MS goes by.
InviteExpires(t) ==
    /\ Pending(t)
    /\ invite' = [invite EXCEPT ![t] = Closed]
    /\ UNCHANGED <<accounts, role, req>>

-----------------------------------------------------------------------------
(* POST /invites/:token/accept *)

\* Mutant: accepted_at and expires_at are not looked at.
AcceptReadAnyInvite(r, u, t) ==
    /\ invite[t] # Unminted
    /\ Arrive(r, u, [NoRequest EXCEPT !.pc = "checkMember", !.subject = u,
                                      !.role = invite[t].role, !.token = t])
    /\ UNCHANGED <<accounts, role, invite>>

\* The invite row is read: unknown, used and expired tokens are refused here.
\* Whoever holds the token may present it; the invitee is not compared.
AcceptReadInvite(r, u, t) ==
    /\ Pending(t)
    /\ Arrive(r, u, [NoRequest EXCEPT !.pc = "checkMember", !.subject = u,
                                      !.role = invite[t].role, !.token = t])
    /\ UNCHANGED <<accounts, role, invite>>

AcceptCheckMember(r) ==
    /\ req[r].pc = "checkMember"
    /\ IF role[req[r].subject] # "none" THEN Respond(r) ELSE Goto(r, "admit")
    /\ UNCHANGED <<accounts, role, invite>>

\* The transaction inserts the membership and stamps accepted_at.  UNIQUE
\* (org, user) and the foreign key abort it; the invite row is not read again.
AcceptTx(r) ==
    LET u == req[r].subject IN
    /\ req[r].pc = "admit"
    /\ IF role[u] = "none" /\ u \in accounts
       THEN /\ role' = [role EXCEPT ![u] = req[r].role]
            /\ invite' = [invite EXCEPT ![req[r].token] = Closed]
       ELSE UNCHANGED <<role, invite>>
    /\ Respond(r)
    /\ UNCHANGED accounts

-----------------------------------------------------------------------------
(* DELETE /auth/account: the users row goes; its memberships and the invites
   addressed to it cascade, with no last-admin guard *)

DeleteAccount(u) ==
    /\ u \in accounts
    /\ accounts' = accounts \ {u}
    /\ role' = [role EXCEPT ![u] = "none"]
    /\ invite' = [t \in Tokens |-> IF invite[t].invitee = u THEN Closed ELSE invite[t]]
    /\ UNCHANGED req

-----------------------------------------------------------------------------

HandlerStep(r) ==
    \/ SetRoleTx(r)
    \/ RemoveTx(r)
    \/ ReuseLink(r)
    \/ RotateLinks(r)
    \/ MintInvite(r)
    \/ AcceptCheckMember(r)
    \/ AcceptTx(r)
    \/ RequestFails(r)

Arrival(r) ==
    \E u \in Users :
        \/ \E s \in Users, g \in Grant : SetRoleGate(r, u, s, g)
        \/ \E s \in Users : RemoveGate(r, u, s)
        \/ \E s \in User, g \in Grant, path \in {"mint", "reuse", "rotate"} :
                InviteGate(r, u, s, g, path)
        \/ \E t \in Tokens : AcceptReadInvite(r, u, t)

Next ==
    \/ \E r \in Requests : Arrival(r) \/ HandlerStep(r)
    \/ \E t \in Tokens : InviteExpires(t)
    \/ \E u \in Users : DeleteAccount(u)

Spec == Init /\ [][Next]_vars

-----------------------------------------------------------------------------
(* Properties *)

\* Role changes and removals never take an organization's last admin away,
\* however they interleave (the CR-03 table lock); only deleting an account can.
AdminsKept == [][Admins # {} /\ Admins' = {} => accounts' # accounts]_vars

AcceptsInFlight(t) == {r \in Requests : req[r].token = t}

\* An invite that is used, expired, rotated away or deleted, with no acceptance
\* of it in flight, is never offered and never taken up again.
ClosedInvitesStayClosed ==
    [][\A t \in Tokens :
          invite[t] = Closed /\ AcceptsInFlight(t) = {}
            => invite'[t] = Closed /\ AcceptsInFlight(t)' = {}]_vars

\* "Reuse the pending link" keeps the number of pending links down to the
\* number of invite requests that ran at once; a lone caller sees one link.
PendingLinksBounded == Cardinality(PendingLinks) <= Cardinality(Requests)
=============================================================================
