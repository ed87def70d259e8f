------------------------ MODULE OrgMembership_proofs ------------------------
(***************************************************************************)
(* What TLAPS proves of OrgMembership, for any accounts, tokens and slots. *)
(***************************************************************************)
EXTENDS OrgMembership, FiniteSetTheorems, TLAPS

-----------------------------------------------------------------------------
(* Type correctness *)

LEMMA NoRequestType == NoRequest \in Request /\ NoRequest.pc \notin MemberSteps
  BY DEF NoRequest, Request, Step, MemberSteps, User, Role

\* A handler that answers leaves its slot well formed.
LEMMA RespondType ==
    ASSUME TypeOK, NEW r \in Requests, Respond(r)
    PROVE  /\ req' \in [Requests -> Request]
           /\ \A q \in Requests : req'[q].pc \in MemberSteps => req'[q].subject \in Users
  BY NoRequestType DEF TypeOK, Respond

LEMMA LockedTxType ==
    ASSUME TypeOK, NEW r \in Requests, NEW step \in MemberSteps, NEW g \in Role,
           LockedTx(r, step, req[r].subject, g)
    PROVE  TypeOK'
  <1> DEFINE s == req[r].subject
  <1>1. s \in Users
    BY DEF TypeOK, LockedTx
  <1>2. role' \in [Users -> Role]
    BY <1>1 DEF TypeOK, LockedTx
  <1>3. QED
    BY <1>2, RespondType DEF TypeOK, LockedTx

LEMMA HandlerType ==
    ASSUME TypeOK, NEW r \in Requests, HandlerStep(r)
    PROVE  TypeOK'
  <1>a. req[r] \in Request
    BY DEF TypeOK
  <1>1. CASE SetRoleTx(r)
    <2>1. req[r].role \in Role
      BY <1>a DEF Request
    <2>2. QED
      BY <1>1, <2>1, LockedTxType DEF SetRoleTx, MemberSteps
  <1>2. CASE RemoveTx(r)
    BY <1>2, LockedTxType DEF RemoveTx, MemberSteps, Role
  <1>3. CASE RequestFails(r)
    BY <1>3, RespondType DEF TypeOK, RequestFails
  <1>4. CASE ReuseLink(r)
    <2>1. CASE Respond(r)
      BY <1>4, <2>1, RespondType DEF TypeOK, ReuseLink
    <2>2. CASE Goto(r, "mint")
      BY <1>4, <2>2 DEF TypeOK, ReuseLink, Goto, Request, Step, MemberSteps
    <2>3. QED
      BY <1>4, <2>1, <2>2 DEF ReuseLink
  <1>5. CASE RotateLinks(r)
    BY <1>5 DEF TypeOK, RotateLinks, Goto, Request, Step, MemberSteps, Invite, Closed, Role, User
  <1>6. CASE MintInvite(r)
    <2>1. invite' \in [Tokens -> Invite]
      BY <1>a, <1>6 DEF TypeOK, MintInvite, Request, Invite
    <2>2. QED
      BY <1>6, <2>1, RespondType DEF TypeOK, MintInvite
  <1>7. CASE AcceptCheckMember(r)
    <2>1. CASE Respond(r)
      BY <1>7, <2>1, RespondType DEF TypeOK, AcceptCheckMember
    <2>2. CASE Goto(r, "admit")
      BY <1>7, <2>2 DEF TypeOK, AcceptCheckMember, Goto, Request, Step, MemberSteps
    <2>3. QED
      BY <1>7, <2>1, <2>2 DEF AcceptCheckMember
  <1>8. CASE AcceptTx(r)
    <2> DEFINE u == req[r].subject
    <2>1. u \in Users
      BY <1>8 DEF TypeOK, AcceptTx, MemberSteps
    <2>2. role' \in [Users -> Role]
      BY <1>a, <1>8, <2>1 DEF TypeOK, AcceptTx, Request
    <2>3. invite' \in [Tokens -> Invite]
      BY <1>8 DEF TypeOK, AcceptTx, Invite, Closed, Role, User
    <2>4. QED
      BY <1>8, <2>2, <2>3, RespondType DEF TypeOK, AcceptTx
  <1>9. QED
    BY <1>1, <1>2, <1>3, <1>4, <1>5, <1>6, <1>7, <1>8 DEF HandlerStep

LEMMA ArrivalType ==
    ASSUME TypeOK, NEW r \in Requests, Arrival(r)
    PROVE  TypeOK'
  <1>1. PICK u \in Users :
          \/ \E s \in Users, g \in Grant : SetRoleGate(r, u, s, g)
          \/ \E s \in Users : RemoveGate(r, u, s)
          \/ \E s \in User, g \in Grant, path \in {"mint", "reuse", "rotate"} :
                  InviteGate(r, u, s, g, path)
          \/ \E t \in Tokens : AcceptReadInvite(r, u, t)
    BY DEF Arrival
  <1> USE DEF TypeOK, Arrive, NoRequest, Request, Step, MemberSteps, User, Role
  <1>2. ASSUME NEW s \in Users, NEW g \in Grant, SetRoleGate(r, u, s, g)
        PROVE  TypeOK'
    BY <1>2 DEF SetRoleGate
  <1>3. ASSUME NEW s \in Users, RemoveGate(r, u, s)
        PROVE  TypeOK'
    BY <1>3 DEF RemoveGate
  <1>4. ASSUME NEW s \in User, NEW g \in Grant, NEW path \in {"mint", "reuse", "rotate"},
               InviteGate(r, u, s, g, path)
        PROVE  TypeOK'
    BY <1>4 DEF InviteGate
  <1>5. ASSUME NEW t \in Tokens, AcceptReadInvite(r, u, t)
        PROVE  TypeOK'
    BY <1>5 DEF AcceptReadInvite, Invite
  <1>6. QED
    BY <1>1, <1>2, <1>3, <1>4, <1>5

LEMMA TypeStep == TypeOK /\ [Next]_vars => TypeOK'
  <1> SUFFICES ASSUME TypeOK, [Next]_vars PROVE TypeOK'
    OBVIOUS
  <1>1. ASSUME NEW t \in Tokens, InviteExpires(t) PROVE TypeOK'
    BY <1>1 DEF TypeOK, InviteExpires, Invite, Closed, Role, User
  <1>2. ASSUME NEW u \in Users, DeleteAccount(u) PROVE TypeOK'
    BY <1>2 DEF TypeOK, DeleteAccount, Invite, Closed, Role, User
  <1>3. CASE UNCHANGED vars
    BY <1>3 DEF TypeOK, vars
  <1>4. QED
    BY <1>1, <1>2, <1>3, HandlerType, ArrivalType DEF Next

\* Every handler, expiry and deletion keeps the rows and the slots well formed.
THEOREM TypeCorrect == Spec => []TypeOK
  <1>1. Init => TypeOK
    BY NoRequestType DEF Init, TypeOK, Role, Grant, Invite, Unminted, User
  <1>2. QED
    BY <1>1, TypeStep, PTL DEF Spec

-----------------------------------------------------------------------------
(* The last admin *)

\* An admin the guard lets go leaves another admin behind.
LEMMA NotLastAdmin ==
    ASSUME NEW s \in Admins, ~LastAdmin(s)
    PROVE  \E a \in Admins : a # s
  <1>1. IsFiniteSet(Admins)
    BY UsersAssumption, FS_Subset DEF Admins
  <1>2. Cardinality(Admins) \in Nat /\ ~(Cardinality(Admins) <= 1)
    BY <1>1, FS_CardinalityType DEF LastAdmin, Admins
  <1>3. SUFFICES ASSUME \A a \in Admins : a = s PROVE FALSE
    OBVIOUS
  <1>4. Admins = {s}
    BY <1>3
  <1>5. Cardinality(Admins) = 1
    BY <1>4, FS_Singleton
  <1>6. QED
    BY <1>2, <1>5

LEMMA LockedTxKeepsAdmins ==
    ASSUME TypeOK, NEW r, NEW step, NEW s, NEW g, LockedTx(r, step, s, g), Admins # {}
    PROVE  Admins' # {}
  <1>1. CASE role' = role
    BY <1>1 DEF Admins, IsAdmin
  <1>2. CASE ~LastAdmin(s) /\ role' = [role EXCEPT ![s] = g]
    <2>1. \E a \in Admins : a # s
      BY <1>2, NotLastAdmin
    <2>2. PICK a \in Admins : a # s
      BY <2>1
    <2>3. a \in Admins'
      BY <1>2, <2>2 DEF TypeOK, Admins, IsAdmin
    <2>4. QED
      BY <2>3
  <1>3. QED
    BY <1>1, <1>2 DEF LockedTx

\* Under the table lock no interleaving of role changes, removals and accepted
\* invites takes the last admin away: only the deletion of an account can.
THEOREM LastAdminSafe == Spec => AdminsKept
  <1>1. TypeOK /\ [Next]_vars => (Admins # {} /\ Admins' = {} => accounts' # accounts)
    <2> SUFFICES ASSUME TypeOK, [Next]_vars, Admins # {}, accounts' = accounts
                 PROVE  Admins' # {}
      OBVIOUS
    <2>1. CASE UNCHANGED role
      BY <2>1 DEF Admins, IsAdmin
    <2>2. ASSUME NEW r \in Requests, SetRoleTx(r) \/ RemoveTx(r) PROVE Admins' # {}
      BY <2>2, LockedTxKeepsAdmins DEF SetRoleTx, RemoveTx
    <2>3. ASSUME NEW r \in Requests, AcceptTx(r), ~UNCHANGED role PROVE Admins' # {}
      <3>1. PICK a \in Admins : TRUE
        OBVIOUS
      <3>2. /\ role[req[r].subject] = "none"
            /\ role' = [role EXCEPT ![req[r].subject] = req[r].role]
        BY <2>3 DEF AcceptTx
      <3>3. a \in Admins'
        BY <3>1, <3>2 DEF TypeOK, Admins, IsAdmin
      <3>4. QED
        BY <3>3
    <2>4. ASSUME NEW u \in Users, DeleteAccount(u) PROVE FALSE
      BY <2>4 DEF DeleteAccount
    <2>5. QED
      BY <2>1, <2>2, <2>3, <2>4
      DEF Next, Arrival, HandlerStep, SetRoleGate, RemoveGate, InviteGate,
          AcceptReadInvite, RequestFails, ReuseLink, RotateLinks, MintInvite,
          AcceptCheckMember, InviteExpires, vars
  <1>2. QED
    BY <1>1, TypeCorrect, PTL DEF Spec, AdminsKept

-----------------------------------------------------------------------------
(* Invites *)

\* A step that puts t into no slot leaves no acceptance of it in flight.
LEMMA NoNewAcceptance ==
    ASSUME NEW t \in Tokens, AcceptsInFlight(t) = {},
           \A q \in Requests : req'[q].token = t => req[q].token = t
    PROVE  AcceptsInFlight(t)' = {}
  BY DEF AcceptsInFlight

\* A used, expired, rotated or deleted invite with no acceptance of it under way
\* stays dead: no handler offers it or takes it up again.
THEOREM InvitesStayClosed == Spec => ClosedInvitesStayClosed
  <1>1. TypeOK /\ [Next]_vars =>
          \A t \in Tokens : invite[t] = Closed /\ AcceptsInFlight(t) = {}
            => invite'[t] = Closed /\ AcceptsInFlight(t)' = {}
    <2> SUFFICES ASSUME TypeOK, [Next]_vars, NEW t \in Tokens,
                        invite[t] = Closed, AcceptsInFlight(t) = {}
                 PROVE  invite'[t] = Closed /\ AcceptsInFlight(t)' = {}
      OBVIOUS
    <2>a. ~Pending(t) /\ invite[t] # Unminted /\ t # NoToken
      BY TokensAssumption DEF Pending, Closed, Unminted
    <2>b. NoRequest.token # t
      BY <2>a DEF NoRequest
    <2>1. ASSUME NEW r \in Requests, Arrival(r)
          PROVE  invite'[t] = Closed /\ AcceptsInFlight(t)' = {}
      <3>1. invite' = invite
        BY <2>1 DEF Arrival, SetRoleGate, RemoveGate, InviteGate, AcceptReadInvite
      <3>2. req'[r].token # t
        <4>1. ASSUME NEW u \in Users, NEW c \in Users, NEW g \in Grant, SetRoleGate(r, u, c, g)
              PROVE  req'[r].token = NoToken
          BY <4>1 DEF SetRoleGate, Arrive, NoRequest, TypeOK
        <4>2. ASSUME NEW u \in Users, NEW c \in Users, RemoveGate(r, u, c)
              PROVE  req'[r].token = NoToken
          BY <4>2 DEF RemoveGate, Arrive, NoRequest, TypeOK
        <4>3. ASSUME NEW u \in Users, NEW c \in User, NEW g \in Grant,
                     NEW path \in {"mint", "reuse", "rotate"}, InviteGate(r, u, c, g, path)
              PROVE  req'[r].token = NoToken
          BY <4>3 DEF InviteGate, Arrive, NoRequest, TypeOK
        <4>4. ASSUME NEW u \in Users, NEW v \in Tokens, AcceptReadInvite(r, u, v)
              PROVE  req'[r].token = v /\ Pending(v)
          BY <4>4 DEF AcceptReadInvite, Arrive, NoRequest, TypeOK
        <4>5. QED
          BY <2>1, <2>a, <4>1, <4>2, <4>3, <4>4 DEF Arrival
      <3>3. \A q \in Requests : q # r => req'[q] = req[q]
        BY <2>1 DEF Arrival, SetRoleGate, RemoveGate, InviteGate, AcceptReadInvite, Arrive, TypeOK
      <3>4. QED
        BY <3>1, <3>2, <3>3, NoNewAcceptance
    <2>2. ASSUME NEW r \in Requests, HandlerStep(r)
          PROVE  invite'[t] = Closed /\ AcceptsInFlight(t)' = {}
      <3>1. invite'[t] = Closed
        BY <2>2, <2>a DEF HandlerStep, SetRoleTx, RemoveTx, LockedTx, RequestFails, ReuseLink,
              RotateLinks, MintInvite, AcceptCheckMember, AcceptTx, TypeOK
      <3>2. \/ Respond(r)
            \/ Goto(r, "mint")
            \/ Goto(r, "admit")
        BY <2>2 DEF HandlerStep, SetRoleTx, RemoveTx, LockedTx, RequestFails, ReuseLink,
              RotateLinks, MintInvite, AcceptCheckMember, AcceptTx
      <3>3. \A q \in Requests : q # r => req'[q] = req[q]
        BY <3>2 DEF Respond, Goto, TypeOK
      <3>4. req'[r].token = t => req[r].token = t
        <4>1. Respond(r) => req'[r].token # t
          BY <2>b DEF Respond, TypeOK
        <4>3. Goto(r, "mint") \/ Goto(r, "admit") => req'[r].token = req[r].token
          BY DEF Goto, TypeOK, Request
        <4>4. QED
          BY <3>2, <4>1, <4>3
      <3>5. QED
        BY <3>1, <3>3, <3>4, NoNewAcceptance
    <2>3. ASSUME NEW s \in Tokens, InviteExpires(s)
          PROVE  invite'[t] = Closed /\ AcceptsInFlight(t)' = {}
      BY <2>3 DEF InviteExpires, AcceptsInFlight, TypeOK
    <2>4. ASSUME NEW u \in Users, DeleteAccount(u)
          PROVE  invite'[t] = Closed /\ AcceptsInFlight(t)' = {}
      BY <2>4 DEF DeleteAccount, AcceptsInFlight, TypeOK
    <2>5. CASE UNCHANGED vars
      BY <2>5 DEF vars, AcceptsInFlight
    <2>6. QED
      BY <2>1, <2>2, <2>3, <2>4, <2>5 DEF Next
  <1>2. QED
    BY <1>1, TypeCorrect, PTL DEF Spec, ClosedInvitesStayClosed

-----------------------------------------------------------------------------
(* Pending links *)

\* Requests about to mint a link: each has found no pending one, or expired them.
Minters == {r \in Requests : req[r].pc = "mint" /\ req[r].subject = NoUser}

\* Pending links and the ones on their way fit the slots together.
LinksFit ==
    /\ IsFiniteSet(PendingLinks)
    /\ Cardinality(PendingLinks) + Cardinality(Minters) <= Cardinality(Requests)

LEMMA MintersFinite ==
    /\ IsFiniteSet(Minters) /\ Cardinality(Minters) \in Nat
    /\ Cardinality(Minters) <= Cardinality(Requests) /\ Cardinality(Requests) \in Nat
  <1>1. Minters \subseteq Requests
    BY DEF Minters
  <1>2. QED
    BY <1>1, RequestsAssumption, FS_Subset, FS_CardinalityType

\* Without a pending link whoever mints fits the slots.
LEMMA NoneIsFit ==
    ASSUME NEW M \in SUBSET Requests
    PROVE  IsFiniteSet({}) /\ Cardinality({}) + Cardinality(M) <= Cardinality(Requests)
  <1>1. /\ Cardinality(M) <= Cardinality(Requests)
        /\ Cardinality(M) \in Nat /\ Cardinality(Requests) \in Nat
    BY RequestsAssumption, FS_Subset, FS_CardinalityType
  <1>2. QED
    BY <1>1, FS_EmptySet

\* No link and no minter more than before.
LEMMA FewerAreFit ==
    ASSUME LinksFit, PendingLinks' \subseteq PendingLinks, Minters' \subseteq Minters
    PROVE  LinksFit'
  <1>1. /\ IsFiniteSet(PendingLinks') /\ Cardinality(PendingLinks') <= Cardinality(PendingLinks)
        /\ Cardinality(PendingLinks') \in Nat /\ Cardinality(PendingLinks) \in Nat
    <2>1. IsFiniteSet(PendingLinks)
      BY DEF LinksFit
    <2>2. QED
      BY <2>1, FS_Subset, FS_CardinalityType
  <1>2. /\ Cardinality(Minters') <= Cardinality(Minters)
        /\ Cardinality(Minters') \in Nat /\ Cardinality(Minters) \in Nat
    BY MintersFinite, FS_Subset, FS_CardinalityType
  <1>3. Cardinality(PendingLinks) + Cardinality(Minters) <= Cardinality(Requests)
    BY DEF LinksFit
  <1>4. Cardinality(PendingLinks') + Cardinality(Minters') <= Cardinality(Requests)
    BY <1>1, <1>2, <1>3, MintersFinite
  <1>5. QED
    BY <1>1, <1>4 DEF LinksFit

\* A minter gives its place to its link.
LEMMA MintedIsFit ==
    ASSUME LinksFit, NEW r \in Minters, NEW t,
           PendingLinks' \subseteq PendingLinks \cup {t}, Minters' \subseteq Minters \ {r}
    PROVE  LinksFit'
  <1> DEFINE P == PendingLinks \cup {t}
             M == Minters \ {r}
  <1>1. IsFiniteSet(PendingLinks)
    BY DEF LinksFit
  <1>2. /\ IsFiniteSet(P) /\ Cardinality(P) <= Cardinality(PendingLinks) + 1
        /\ Cardinality(P) \in Nat /\ Cardinality(PendingLinks) \in Nat
    <2>1. IsFiniteSet(P)
      BY <1>1, FS_AddElement
    <2>2. Cardinality(P) = Cardinality(PendingLinks) \/ Cardinality(P) = Cardinality(PendingLinks) + 1
      BY <1>1, FS_AddElement
    <2>3. Cardinality(P) \in Nat /\ Cardinality(PendingLinks) \in Nat
      BY <1>1, <2>1, FS_CardinalityType
    <2>4. QED
      BY <2>1, <2>2, <2>3
  <1>3. IsFiniteSet(M) /\ Cardinality(M) = Cardinality(Minters) - 1 /\ Cardinality(M) \in Nat
    <2>1. IsFiniteSet(M) /\ Cardinality(M) = Cardinality(Minters) - 1
      BY MintersFinite, FS_RemoveElement
    <2>2. QED
      BY <2>1, FS_CardinalityType
  <1> HIDE DEF P, M
  <1>4. /\ IsFiniteSet(PendingLinks') /\ Cardinality(PendingLinks') <= Cardinality(P)
        /\ Cardinality(PendingLinks') \in Nat
    <2>1. PendingLinks' \subseteq P
      BY DEF P
    <2>2. QED
      BY <1>2, <2>1, FS_Subset, FS_CardinalityType
  <1>5. Cardinality(Minters') <= Cardinality(M) /\ Cardinality(Minters') \in Nat
    <2>1. Minters' \subseteq M
      BY DEF M
    <2>2. QED
      BY <1>3, <2>1, FS_Subset, FS_CardinalityType
  <1>6. Cardinality(PendingLinks) + Cardinality(Minters) <= Cardinality(Requests)
    BY DEF LinksFit
  <1>7. Cardinality(PendingLinks') + Cardinality(Minters') <= Cardinality(Requests)
    BY <1>2, <1>3, <1>4, <1>5, <1>6, MintersFinite
  <1>8. QED
    BY <1>4, <1>7 DEF LinksFit

\* A handler that neither looks for links nor mints one adds to neither.
LEMMA MintersStay ==
    ASSUME TypeOK, NEW r \in Requests, NEW x \in Request, x.pc = "mint" => x.subject # NoUser,
           req' = [req EXCEPT ![r] = x]
    PROVE  Minters' \subseteq Minters \ {r}
  BY DEF TypeOK, Minters

LEMMA LinksStep == TypeOK /\ LinksFit /\ [Next]_vars => LinksFit'
  <1> SUFFICES ASSUME TypeOK, LinksFit, [Next]_vars PROVE LinksFit'
    OBVIOUS
  <1>n. NoRequest \in Request /\ NoRequest.pc = "idle"
    BY NoRequestType DEF NoRequest
  <1>c. Closed.status = "closed" /\ Unminted.status = "unminted"
    BY DEF Closed, Unminted
  <1>r. ASSUME NEW r \in Requests, Respond(r) PROVE Minters' \subseteq Minters \ {r}
    BY <1>n, <1>r, MintersStay DEF Respond
  <1>1. ASSUME NEW r \in Requests, Arrival(r) PROVE LinksFit'
    <2>1. UNCHANGED invite
      BY <1>1 DEF Arrival, SetRoleGate, RemoveGate, InviteGate, AcceptReadInvite
    <2>2. PICK x \in Request : req' = [req EXCEPT ![r] = x] /\ (x.pc = "mint" => x.subject # NoUser)
      <3>1. ASSUME NEW u \in Users, NEW s \in Users, NEW g \in Grant, SetRoleGate(r, u, s, g)
            PROVE  \E x \in Request : req' = [req EXCEPT ![r] = x] /\ x.pc # "mint"
        <4> DEFINE x == [NoRequest EXCEPT !.pc = "setRole", !.subject = s, !.role = g]
        <4>x. x \in Request
          BY <1>n DEF Request, Step, Role, User, TypeOK, Invite
        <4>1. QED
          BY <1>n, <3>1, <4>x DEF SetRoleGate, Arrive, Request
      <3>2. ASSUME NEW u \in Users, NEW s \in Users, RemoveGate(r, u, s)
            PROVE  \E x \in Request : req' = [req EXCEPT ![r] = x] /\ x.pc # "mint"
        <4> DEFINE x == [NoRequest EXCEPT !.pc = "remove", !.subject = s]
        <4>x. x \in Request
          BY <1>n DEF Request, Step, Role, User, TypeOK, Invite
        <4>1. QED
          BY <1>n, <3>2, <4>x DEF RemoveGate, Arrive, Request
      <3>3. ASSUME NEW u \in Users, NEW s \in User, NEW g \in Grant,
                   NEW path \in {"mint", "reuse", "rotate"}, InviteGate(r, u, s, g, path)
            PROVE  \E x \in Request : /\ req' = [req EXCEPT ![r] = x]
                                      /\ x.pc = "mint" => x.subject # NoUser
        <4>1. path = "mint" => s # NoUser
          BY <3>3, UsersAssumption DEF InviteGate, TypeOK
        <4> DEFINE x == [NoRequest EXCEPT !.pc = path, !.caller = u, !.subject = s, !.role = g]
        <4>x. x \in Request
          BY <1>n DEF Request, Step, Role, User, TypeOK, Invite
        <4>2. QED
          BY <1>n, <3>3, <4>1, <4>x DEF InviteGate, Arrive, Request
      <3>4. ASSUME NEW u \in Users, NEW t \in Tokens, AcceptReadInvite(r, u, t)
            PROVE  \E x \in Request : req' = [req EXCEPT ![r] = x] /\ x.pc # "mint"
        <4> DEFINE x == [NoRequest EXCEPT !.pc = "checkMember", !.subject = u,
                                      !.role = invite[t].role, !.token = t]
        <4>x. x \in Request
          BY <1>n DEF Request, Step, Role, User, TypeOK, Invite
        <4>1. QED
          BY <1>n, <3>4, <4>x DEF AcceptReadInvite, Arrive, Request
      <3>5. QED
        BY <1>1, <3>1, <3>2, <3>3, <3>4 DEF Arrival
    <2>3. QED
      BY <2>1, <2>2, MintersStay, FewerAreFit DEF PendingLinks, Pending
  <1>2. ASSUME NEW r \in Requests, SetRoleTx(r) \/ RemoveTx(r) \/ RequestFails(r) PROVE LinksFit'
    <2>1. UNCHANGED invite
      BY <1>2 DEF SetRoleTx, RemoveTx, LockedTx, RequestFails
    <2>2. Minters' \subseteq Minters
      <3>1. Respond(r)
        BY <1>2 DEF SetRoleTx, RemoveTx, LockedTx, RequestFails
      <3>2. QED
        BY <1>r, <3>1
    <2>3. QED
      BY <2>1, <2>2, FewerAreFit DEF PendingLinks, Pending
  <1>3. ASSUME NEW r \in Requests, ReuseLink(r) PROVE LinksFit'
    <2>1. PendingLinks' = PendingLinks
      BY <1>3 DEF ReuseLink, PendingLinks, Pending
    <2>2. CASE PendingLinks # {}
      BY <1>3, <1>r, <2>1, <2>2, FewerAreFit DEF ReuseLink
    <2>3. CASE PendingLinks = {}
      <3>1. PendingLinks' = {}
        BY <2>1, <2>3
      <3>2. QED
        BY <3>1, NoneIsFit DEF LinksFit, Minters
    <2>4. QED
      BY <2>2, <2>3
  <1>4. ASSUME NEW r \in Requests, RotateLinks(r) PROVE LinksFit'
    <2>1. \A t \in Tokens : invite'[t] = IF t \in PendingLinks THEN Closed ELSE invite[t]
      BY <1>4 DEF RotateLinks
    <2>2. PendingLinks' = {}
      BY <1>c, <2>1 DEF PendingLinks, Pending
    <2>3. QED
      BY <2>2, NoneIsFit DEF LinksFit, Minters
  <1>5. ASSUME NEW r \in Requests, MintInvite(r) PROVE LinksFit'
    <2>1. Minters' \subseteq Minters \ {r} /\ req[r].pc = "mint"
      BY <1>5, <1>r DEF MintInvite
    <2>2. CASE UNCHANGED invite
      BY <2>1, <2>2, FewerAreFit DEF PendingLinks, Pending
    <2>3. ASSUME NEW t \in Tokens,
                 invite' = [invite EXCEPT ![t] =
                    [status |-> "pending", role |-> req[r].role, invitee |-> req[r].subject]]
          PROVE  LinksFit'
      <3>1. \A s \in Tokens \ {t} : invite'[s] = invite[s]
        BY <2>3 DEF TypeOK
      <3>2. invite'[t].invitee = req[r].subject
        BY <2>3 DEF TypeOK
      <3>3. CASE req[r].subject = NoUser
        <4>1. r \in Minters
          BY <2>1, <3>3 DEF Minters
        <4>2. PendingLinks' \subseteq PendingLinks \cup {t}
          BY <3>1 DEF PendingLinks, Pending
        <4>3. QED
          BY <2>1, <4>1, <4>2, MintedIsFit
      <3>4. CASE req[r].subject # NoUser
        <4>1. PendingLinks' \subseteq PendingLinks
          BY <3>1, <3>2, <3>4 DEF PendingLinks, Pending
        <4>2. QED
          BY <2>1, <4>1, FewerAreFit
      <3>5. QED
        BY <3>3, <3>4
    <2>4. QED
      BY <1>5, <2>2, <2>3 DEF MintInvite
  <1>6. ASSUME NEW r \in Requests, AcceptCheckMember(r) PROVE LinksFit'
    <2>1. PendingLinks' = PendingLinks
      BY <1>6 DEF AcceptCheckMember, PendingLinks, Pending
    <2>2. Goto(r, "admit") => Minters' \subseteq Minters
      BY DEF Goto, TypeOK, Request, Minters
    <2>3. QED
      BY <1>6, <1>r, <2>1, <2>2, FewerAreFit DEF AcceptCheckMember
  <1>7. ASSUME NEW r \in Requests, AcceptTx(r) PROVE LinksFit'
    <2>2. Minters' \subseteq Minters
      BY <1>7, <1>r DEF AcceptTx
    <2>3. \A t \in Tokens : invite'[t] = invite[t] \/ invite'[t] = Closed
      BY <1>7 DEF AcceptTx, TypeOK
    <2>4. PendingLinks' \subseteq PendingLinks
      BY <1>c, <2>3 DEF PendingLinks, Pending
    <2>5. QED
      BY <2>2, <2>4, FewerAreFit
  <1>8. ASSUME (\E t \in Tokens : InviteExpires(t)) \/ (\E u \in Users : DeleteAccount(u))
               \/ UNCHANGED vars
        PROVE  LinksFit'
    <2>1. UNCHANGED req
      BY <1>8 DEF InviteExpires, DeleteAccount, vars
    <2>2. \A t \in Tokens : invite'[t] = invite[t] \/ invite'[t] = Closed
      BY <1>8 DEF InviteExpires, DeleteAccount, vars, TypeOK
    <2>3. PendingLinks' \subseteq PendingLinks
      BY <1>c, <2>2 DEF PendingLinks, Pending
    <2>4. QED
      BY <2>1, <2>3, FewerAreFit DEF Minters
  <1>9. QED
    BY <1>1, <1>2, <1>3, <1>4, <1>5, <1>6, <1>7, <1>8 DEF Next, HandlerStep

\* For any accounts, tokens and slots: handlers that found no pending link, or
\* expired them all, leave no more links pending than there are slots.
THEOREM LinksAreBounded == Spec => []PendingLinksBounded
  <1>1. Init => LinksFit
    <2>1. Unminted.status = "unminted"
      BY DEF Unminted
    <2>2. Init => PendingLinks = {}
      BY <2>1 DEF Init, PendingLinks, Pending
    <2>3. QED
      BY <2>2, NoneIsFit DEF LinksFit, Minters
  <1>2. LinksFit => PendingLinksBounded
    <2> SUFFICES ASSUME LinksFit PROVE PendingLinksBounded
      OBVIOUS
    <2>1. IsFiniteSet(PendingLinks)
      BY DEF LinksFit
    <2>2. Cardinality(PendingLinks) \in Nat
      BY <2>1, FS_CardinalityType
    <2>3. QED
      BY <2>2, MintersFinite DEF LinksFit, PendingLinksBounded
  <1>3. QED
    BY <1>1, <1>2, LinksStep, TypeCorrect, PTL DEF Spec

=============================================================================
