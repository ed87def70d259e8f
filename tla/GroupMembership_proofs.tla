----------------------- MODULE GroupMembership_proofs -----------------------
(***************************************************************************)
(* What TLAPS proves of GroupMembership, for any accounts, slots and caps. *)
(***************************************************************************)
EXTENDS GroupMembership, FiniteSetTheorems, TLAPS

-----------------------------------------------------------------------------
(* Type correctness *)

\* What TypeOK says of the slots.
SlotsOK ==
    /\ req \in [Requests -> Request]
    /\ \A r \in Requests : req[r].pc # "idle" => req[r].user \in Users

\* Every step writes at most one slot: what it writes there.
LEMMA SlotType ==
    ASSUME SlotsOK, NEW r \in Requests, NEW rec \in Request,
           rec.pc # "idle" => rec.user \in Users,
           req' = [req EXCEPT ![r] = rec]
    PROVE  SlotsOK'
  BY DEF SlotsOK

LEMMA NoRequestType == NoRequest \in Request /\ NoRequest.pc = "idle"
  BY DEF NoRequest, Request, Step, User

LEMMA RespondType ==
    ASSUME SlotsOK, NEW r \in Requests, Respond(r)
    PROVE  SlotsOK'
  BY NoRequestType, SlotType DEF Respond

LEMMA GotoType ==
    ASSUME SlotsOK, NEW r \in Requests, NEW step \in Step, Goto(r, step),
           req[r].pc # "idle"
    PROVE  SlotsOK'
  <1> DEFINE rec == [req[r] EXCEPT !.pc = step]
  <1>1. rec \in Request /\ rec.user \in Users
    BY DEF SlotsOK, Request
  <1>2. QED
    BY <1>1, SlotType DEF Goto

LEMMA ArriveType ==
    ASSUME SlotsOK, NEW r \in Requests, NEW u \in Users, NEW v \in Users, NEW step \in Step,
           Arrive(r, u, [NoRequest EXCEPT !.pc = step, !.user = v])
    PROVE  SlotsOK'
  <1> DEFINE rec == [NoRequest EXCEPT !.pc = step, !.user = v]
  <1>1. rec \in Request /\ rec.user \in Users
    BY DEF NoRequest, Request, User
  <1>2. QED
    BY <1>1, SlotType DEF Arrive

\* The two handlers that read a local: the row's presence and the count.
LEMMA JoinReadRowType ==
    ASSUME TypeOK, NEW r \in Requests, JoinReadRow(r)
    PROVE  SlotsOK'
  <1>1. SlotsOK
    BY DEF TypeOK, SlotsOK
  <1>2. CASE Respond(r)
    BY <1>1, <1>2, RespondType
  <1>3. CASE req' = [req EXCEPT ![r].pc = "count", ![r].known = row[req[r].user] # "none"]
    <2> DEFINE rec == [req[r] EXCEPT !.pc = "count", !.known = row[req[r].user] # "none"]
    <2>1. req[r] \in Request /\ req[r].user \in Users
      BY DEF TypeOK, JoinReadRow
    <2>2. rec \in Request /\ rec.user \in Users
      BY <2>1 DEF Request, Step, JoinStep
    <2>3. req' = [req EXCEPT ![r] = rec]
      BY <1>3
    <2>4. QED
      BY <1>1, <2>2, <2>3, SlotType
  <1>4. QED
    BY <1>2, <1>3 DEF JoinReadRow

LEMMA JoinCountType ==
    ASSUME TypeOK, NEW r \in Requests, JoinCount(r)
    PROVE  SlotsOK' /\ Cardinality(active) \in Nat
  <1> DEFINE rec == [req[r] EXCEPT !.pc = "tier", !.seen = Cardinality(active)]
  <1>1. Cardinality(active) \in Nat
    BY UsersAssumption, FS_Subset, FS_CardinalityType DEF TypeOK
  <1>2. req[r] \in Request /\ req[r].user \in Users
    BY DEF TypeOK, JoinCount
  <1>3. rec \in Request /\ rec.user \in Users
    BY <1>1, <1>2 DEF Request, Step, JoinStep
  <1>4. req' = [req EXCEPT ![r] = rec]
    BY DEF JoinCount
  <1>5. SlotsOK
    BY DEF TypeOK, SlotsOK
  <1>6. QED
    BY <1>1, <1>3, <1>4, <1>5, SlotType

LEMMA JoinReadTierType ==
    ASSUME TypeOK, NEW r \in Requests, JoinReadTier(r)
    PROVE  SlotsOK'
  <1>1. SlotsOK
    BY DEF TypeOK, SlotsOK
  <1>2. CASE Respond(r)
    BY <1>1, <1>2, RespondType
  <1>3. CASE req' = [req EXCEPT ![r] = Admitted(@)]
    <2>1. req[r] \in Request /\ req[r].user \in Users
      BY DEF TypeOK, JoinReadTier
    <2>2. Admitted(req[r]) \in Request /\ Admitted(req[r]).user \in Users
      BY <2>1 DEF Admitted, Request, Step, JoinStep
    <2>3. QED
      BY <1>1, <1>3, <2>2, SlotType
  <1>4. QED
    BY <1>2, <1>3 DEF JoinReadTier

LEMMA HandlerType ==
    ASSUME TypeOK, NEW r \in Requests, HandlerStep(r)
    PROVE  TypeOK'
  <1>a. SlotsOK
    BY DEF TypeOK, SlotsOK
  <1>b. req[r].pc # "idle"
    BY DEF HandlerStep, InsertAdminRow, JoinReadRow, JoinCount, JoinReadTier, Rejoin,
           InsertMember, LeaveCountAdmins, LeaveTx, KickReadTarget, Kick
  <1>c. req[r].user \in Users
    BY <1>b DEF TypeOK
  <1>1. SlotsOK'
    <2>1. Respond(r) => SlotsOK'
      BY <1>a, RespondType
    <2>2. LeaveCountAdmins(r) \/ KickReadTarget(r) => SlotsOK'
      BY <1>a, <1>b, <2>1, GotoType DEF LeaveCountAdmins, KickReadTarget, Step, LeaveStep, KickStep
    <2>3. QED
      BY <2>1, <2>2, JoinReadRowType, JoinCountType, JoinReadTierType
      DEF HandlerStep, InsertAdminRow, Rejoin, InsertMember, LeaveTx, Kick
  <1>2. /\ row' \in [Users -> RowRole]
        /\ active' \subseteq {u \in Users : row'[u] # "none"}
    <2>1. CASE InsertAdminRow(r)
      BY <1>c, <2>1 DEF TypeOK, InsertAdminRow, RowRole
    <2>2. CASE Rejoin(r)
      BY <1>c, <2>2 DEF TypeOK, Rejoin
    <2>3. CASE InsertMember(r)
      BY <1>c, <2>3 DEF TypeOK, InsertMember, RowRole
    <2>4. CASE LeaveTx(r)
      BY <2>4 DEF TypeOK, LeaveTx
    <2>5. CASE Kick(r)
      BY <1>c, <2>5 DEF TypeOK, Kick, RowRole
    <2>6. CASE UNCHANGED rows
      BY <2>6 DEF TypeOK, rows
    <2>7. QED
      BY <2>1, <2>2, <2>3, <2>4, <2>5, <2>6
      DEF HandlerStep, JoinReadRow, JoinCount, JoinReadTier, LeaveCountAdmins, KickReadTarget
  <1>3. /\ accounts' = accounts /\ owner' = owner /\ premium' = premium
        /\ group' \in {group, "archived"}
    BY DEF HandlerStep, InsertAdminRow, JoinReadRow, JoinCount, JoinReadTier, Rejoin,
           InsertMember, LeaveCountAdmins, LeaveTx, KickReadTarget, Kick, rows
  <1>4. QED
    BY <1>1, <1>2, <1>3 DEF TypeOK, SlotsOK

LEMMA ArrivalType ==
    ASSUME TypeOK, NEW r \in Requests, Arrival(r)
    PROVE  TypeOK'
  <1>a. SlotsOK
    BY DEF TypeOK, SlotsOK
  <1>1. ASSUME NEW u \in Users, InsertConversation(r, u)
        PROVE  TypeOK'
    <2>1. SlotsOK'
      BY <1>a, <1>1, ArriveType DEF InsertConversation, Step, CreateStep
    <2>2. QED
      BY <1>1, <2>1 DEF InsertConversation, TypeOK, SlotsOK, User
  <1>2. ASSUME NEW u \in Users, JoinReadGroup(r, u)
        PROVE  TypeOK'
    <2>1. SlotsOK'
      BY <1>a, <1>2, ArriveType DEF JoinReadGroup, Step, JoinStep
    <2>2. QED
      BY <1>2, <2>1 DEF JoinReadGroup, TypeOK, SlotsOK, rows
  <1>3. ASSUME NEW u \in Users, LeaveRead(r, u)
        PROVE  TypeOK'
    <2>1. SlotsOK'
      <3> DEFINE step == IF row[u] = "admin" THEN "countAdmins" ELSE "leave"
      <3>1. step \in Step /\ Arrive(r, u, [NoRequest EXCEPT !.pc = step, !.user = u])
        BY <1>3 DEF LeaveRead, Step, LeaveStep
      <3> HIDE DEF step
      <3>2. QED
        BY <1>a, <3>1, ArriveType
    <2>2. QED
      BY <1>3, <2>1 DEF LeaveRead, TypeOK, SlotsOK, rows
  <1>4. ASSUME NEW u \in Users, NEW a \in Users, KickGate(r, a, u)
        PROVE  TypeOK'
    <2>1. SlotsOK'
      BY <1>a, <1>4, ArriveType DEF KickGate, Step, KickStep
    <2>2. QED
      BY <1>4, <2>1 DEF KickGate, TypeOK, SlotsOK, rows
  <1>5. QED
    BY <1>1, <1>2, <1>3, <1>4 DEF Arrival

LEMMA TypeStep == TypeOK /\ [Next]_vars => TypeOK'
  <1> SUFFICES ASSUME TypeOK, [Next]_vars PROVE TypeOK'
    OBVIOUS
  <1>1. ASSUME NEW u \in Users, DeleteAccount(u) PROVE TypeOK'
    BY <1>1 DEF TypeOK, DeleteAccount, RowRole, User
  <1>2. CASE OwnerTierChanges
    BY <1>2 DEF TypeOK, OwnerTierChanges
  <1>3. CASE Crash
    BY <1>3, NoRequestType DEF TypeOK, Crash, rows
  <1>4. CASE UNCHANGED vars
    BY <1>4 DEF TypeOK, vars
  <1>5. QED
    BY <1>1, <1>2, <1>3, <1>4, HandlerType, ArrivalType DEF Next

\* Every handler, deletion and crash keeps the rows and the slots well formed,
\* and every active user has a participant row.
THEOREM TypeCorrect == Spec => []TypeOK
  <1>1. Init => TypeOK
    BY NoRequestType DEF Init, TypeOK, RowRole, User
  <1>2. QED
    BY <1>1, TypeStep, PTL DEF Spec

-----------------------------------------------------------------------------
(* The sole admin *)

\* A step that starts no creation, makes nobody admin and leaves the slot r in
\* order keeps SoleAdmin: the other slots keep their promises.
LEMMA QuietStep ==
    ASSUME TypeOK, TypeOK', SoleAdmin, NEW r \in Requests,
           group # "none", group' # "none", group' = "archived" => Settled,
           \A q \in Requests \ {r} : req'[q] = req[q],
           req'[r].pc # "insertAdmin",
           \A u \in Users : row'[u] = "admin" => row[u] = "admin",
           \A u \in Users : Refused(u) => Refused(u)',
           req'[r].pc \in {"countAdmins", "leaveAndArchive", "readTarget", "kick"} => Settled,
           req'[r].pc \in {"readTarget", "kick"} => row[req'[r].user] # "admin",
           req'[r].pc = "leave" => NeverAdmin(req'[r].user)
    PROVE  SoleAdmin'
  <1>1. Settled => Settled'
    BY DEF Settled
  <1>2. \A q \in Requests : req'[q].pc # "idle" => req'[q].user \in Users
    BY DEF TypeOK
  <1>3. ASSUME NEW q \in Requests
        PROVE /\ req'[q].pc \in {"countAdmins", "leaveAndArchive", "readTarget", "kick"} => Settled'
              /\ req'[q].pc \in {"readTarget", "kick"} => row'[req'[q].user] # "admin"
              /\ req'[q].pc = "leave" => NeverAdmin(req[q].user)'
    <2>1. CASE q = r
      BY <1>1, <1>2, <2>1 DEF NeverAdmin, Refused
    <2>2. CASE q # r
      BY <1>1, <1>2, <2>2 DEF SoleAdmin, NeverAdmin, Refused
    <2>3. QED
      BY <2>1, <2>2
  <1>4. \A p, q \in Requests :
           req'[p].pc = "insertAdmin" /\ req'[q].pc = "insertAdmin" => p = q
    BY DEF SoleAdmin
  <1>5. /\ \A u \in Users : row'[u] = "admin" => Settled'
        /\ \A u, v \in Users : row'[u] = "admin" /\ row'[v] = "admin" => u = v
    BY <1>1 DEF SoleAdmin
  <1>6. QED
    BY <1>1, <1>3, <1>4, <1>5 DEF SoleAdmin

\* The usual case: rows and group are only read.
LEMMA ReadStep ==
    ASSUME TypeOK, TypeOK', SoleAdmin, NEW r \in Requests, group # "none", UNCHANGED rows,
           \A q \in Requests \ {r} : req'[q] = req[q],
           req'[r].pc # "insertAdmin",
           req'[r].pc \in {"countAdmins", "leaveAndArchive", "readTarget", "kick"} => Settled,
           req'[r].pc \in {"readTarget", "kick"} => row[req'[r].user] # "admin",
           req'[r].pc = "leave" => NeverAdmin(req'[r].user)
    PROVE  SoleAdmin'
  <1>1. group' = "archived" => Settled
    BY DEF SoleAdmin, rows
  <1>2. \A u \in Users : Refused(u) => Refused(u)'
    BY DEF Refused, rows
  <1>3. QED
    BY <1>1, <1>2, QuietStep DEF rows

\* What a step that answers leaves in its slot.
LEMMA RespondSlot ==
    ASSUME TypeOK, NEW r \in Requests, Respond(r)
    PROVE  req'[r].pc = "idle" /\ \A q \in Requests \ {r} : req'[q] = req[q]
  BY DEF TypeOK, Respond, NoRequest

LEMMA GotoSlot ==
    ASSUME TypeOK, NEW r \in Requests, NEW step, Goto(r, step)
    PROVE  /\ req'[r].pc = step /\ req'[r].user = req[r].user
           /\ \A q \in Requests \ {r} : req'[q] = req[q]
  BY DEF TypeOK, Goto, Request

LEMMA ArriveSlot ==
    ASSUME TypeOK, NEW r \in Requests, NEW u, NEW v, NEW step,
           Arrive(r, u, [NoRequest EXCEPT !.pc = step, !.user = v])
    PROVE  /\ req'[r].pc = step /\ req'[r].user = v
           /\ \A q \in Requests \ {r} : req'[q] = req[q]
  BY DEF TypeOK, Arrive, NoRequest

\* A handler that is under way found the group.
LEMMA GroupExists ==
    ASSUME SoleAdmin, NEW r \in Requests, req[r].pc # "idle"
    PROVE  group # "none"
  BY DEF SoleAdmin

LEMMA InsertAdminRowSole ==
    ASSUME TypeOK, TypeOK', SoleAdmin, NEW r \in Requests, InsertAdminRow(r)
    PROVE  SoleAdmin'
  <1> DEFINE u == req[r].user
  <1>0. req[r].pc = "insertAdmin" /\ u \in Users
    BY DEF InsertAdminRow, TypeOK
  <1>1. /\ req'[r].pc = "idle"
        /\ \A q \in Requests \ {r} : req'[q] = req[q]
    BY RespondSlot DEF InsertAdminRow
  <1>2. /\ group = "open" /\ group' = "open"
        /\ \A v \in Users : row[v] # "admin"
    BY <1>0, GroupExists DEF SoleAdmin, Settled, TypeOK, InsertAdminRow
  <1>3. Settled'
    BY <1>0, <1>1 DEF SoleAdmin, Settled
  <1>4. \A q \in Requests :
          /\ req'[q].pc \notin {"countAdmins", "leaveAndArchive", "readTarget", "kick"}
          /\ req'[q].pc = "leave" => NeverAdmin(req[q].user) /\ req'[q].user = req[q].user
                                     /\ req[q].user \in Users
    BY <1>0, <1>1 DEF SoleAdmin, Settled, TypeOK
  <1>5. \A v \in Users : Refused(v) => Refused(v)'
    BY <1>0 DEF InsertAdminRow, Refused, TypeOK
  <1>6. \A v, w \in Users : row'[v] = "admin" /\ row'[w] = "admin" => v = w
    BY <1>0, <1>2 DEF InsertAdminRow, TypeOK
  <1>7. \A q \in Requests : req'[q].pc = "leave" => NeverAdmin(req[q].user)'
    BY <1>0, <1>1, <1>3, <1>4 DEF NeverAdmin, Refused, InsertAdminRow, TypeOK, Settled
  <1>8. QED
    BY <1>2, <1>3, <1>4, <1>6, <1>7 DEF SoleAdmin, Settled

LEMMA HandlerSole ==
    ASSUME TypeOK, TypeOK', SoleAdmin, NEW r \in Requests, HandlerStep(r)
    PROVE  SoleAdmin'
  <1>a. req[r].pc # "idle"
    BY DEF HandlerStep, InsertAdminRow, JoinReadRow, JoinCount, JoinReadTier, Rejoin,
           InsertMember, LeaveCountAdmins, LeaveTx, KickReadTarget, Kick
  <1>b. group # "none" /\ req[r].user \in Users
    BY <1>a, GroupExists DEF TypeOK
  <1>c. \A v \in Users : UNCHANGED row /\ UNCHANGED accounts /\ Refused(v) => Refused(v)'
    BY DEF Refused
  <1>1. CASE InsertAdminRow(r)
    BY <1>1, InsertAdminRowSole
  <1>2. CASE JoinReadRow(r) \/ JoinCount(r) \/ JoinReadTier(r)
    <2>1. \A q \in Requests \ {r} : req'[q] = req[q]
      BY <1>2 DEF TypeOK, JoinReadRow, JoinCount, JoinReadTier, Respond
    <2>2. req[r] \in Request
      BY DEF TypeOK
    <2>3. \/ req'[r] = NoRequest
          \/ req'[r] = Admitted(req[r])
          \/ req'[r] = [req[r] EXCEPT !.pc = "count", !.known = row[req[r].user] # "none"]
          \/ req'[r] = [req[r] EXCEPT !.pc = "tier", !.seen = Cardinality(active)]
      BY <1>2 DEF TypeOK, JoinReadRow, JoinCount, JoinReadTier, Respond
    <2>4. req'[r].pc \in {"idle", "count", "tier", "rejoin", "insert"}
      <3>1. NoRequest.pc = "idle"
        BY DEF NoRequest
      <3>2. Admitted(req[r]).pc \in {"rejoin", "insert"}
        BY <2>2 DEF Admitted, Request
      <3>3. req'[r] \notin {NoRequest, Admitted(req[r])} => req'[r].pc \in {"count", "tier"}
        BY <2>2, <2>3 DEF Request
      <3>4. QED
        BY <3>1, <3>2, <3>3
    <2>5. QED
      BY <1>b, <1>2, <2>1, <2>4, ReadStep DEF JoinReadRow, JoinCount, JoinReadTier
  <1>3. CASE Rejoin(r)
    <2>1. UNCHANGED <<group, row, accounts>> /\ Respond(r)
      BY <1>3 DEF Rejoin
    <2>2. QED
      BY <1>b, <1>c, <2>1, RespondSlot, QuietStep DEF SoleAdmin
  <1>4. CASE InsertMember(r)
    <2>1. /\ group' = group /\ Respond(r)
          /\ \A v \in Users : row'[v] = "admin" => row[v] = "admin"
          /\ \A v \in Users : Refused(v) => Refused(v)'
      BY <1>b, <1>4 DEF TypeOK, InsertMember, Refused
    <2>2. QED
      BY <1>b, <2>1, RespondSlot, QuietStep DEF SoleAdmin
  <1>5. CASE LeaveCountAdmins(r)
    <2>1. Settled
      BY <1>5 DEF LeaveCountAdmins, SoleAdmin
    <2>2. CASE ActiveAdmins \ {req[r].user} = {}
      BY <1>b, <1>5, <2>1, <2>2, GotoSlot, ReadStep DEF LeaveCountAdmins
    <2>3. CASE ActiveAdmins \ {req[r].user} # {}
      \* Somebody else is the admin, so the leaver no longer is.
      <3>1. PICK a \in ActiveAdmins : a # req[r].user
        BY <2>3
      <3>2. a \in Users /\ row[a] = "admin"
        BY <3>1 DEF TypeOK, ActiveAdmins
      <3>3. row[req[r].user] # "admin"
        BY <1>b, <3>1, <3>2 DEF SoleAdmin
      <3>4. QED
        BY <1>b, <1>5, <2>1, <2>3, <3>3, GotoSlot, ReadStep DEF LeaveCountAdmins, NeverAdmin
    <2>4. QED
      BY <2>2, <2>3
  <1>6. CASE LeaveTx(r)
    <2>1. /\ UNCHANGED <<row, accounts>> /\ Respond(r)
          /\ group' # "none" /\ (group' = "archived" => Settled)
      BY <1>b, <1>6 DEF LeaveTx, SoleAdmin
    <2>2. QED
      BY <1>b, <1>c, <2>1, RespondSlot, QuietStep
  <1>7. CASE KickReadTarget(r)
    <2>1. Settled /\ row[req[r].user] # "admin" /\ UNCHANGED rows
      BY <1>7 DEF KickReadTarget, SoleAdmin
    <2>2. CASE Respond(r)
      BY <1>b, <2>1, <2>2, RespondSlot, ReadStep
    <2>3. CASE Goto(r, "kick")
      BY <1>b, <2>1, <2>3, GotoSlot, ReadStep
    <2>4. QED
      BY <1>7, <2>2, <2>3 DEF KickReadTarget
  <1>8. CASE Kick(r)
    <2>1. /\ group' = group /\ Respond(r)
          /\ \A v \in Users : row'[v] = "admin" => row[v] = "admin"
          /\ \A v \in Users : Refused(v) => Refused(v)'
      BY <1>b, <1>8 DEF TypeOK, Kick, Refused
    <2>2. QED
      BY <1>b, <2>1, RespondSlot, QuietStep DEF SoleAdmin
  <1>9. QED
    BY <1>1, <1>2, <1>3, <1>4, <1>5, <1>6, <1>7, <1>8 DEF HandlerStep

LEMMA ArrivalSole ==
    ASSUME TypeOK, TypeOK', SoleAdmin, NEW r \in Requests, Arrival(r)
    PROVE  SoleAdmin'
  <1>1. ASSUME NEW u \in Users, InsertConversation(r, u) PROVE SoleAdmin'
    <2>1. /\ group = "none" /\ group' = "open" /\ UNCHANGED <<row, active, accounts>>
          /\ req'[r].pc = "insertAdmin"
          /\ \A q \in Requests \ {r} : req'[q] = req[q]
      BY <1>1, ArriveSlot DEF InsertConversation
    <2>2. /\ \A q \in Requests \ {r} : req'[q].pc = "idle"
          /\ \A v \in Users : row'[v] = "none"
      BY <2>1 DEF SoleAdmin
    <2>3. QED
      BY <2>1, <2>2 DEF SoleAdmin
  <1>2. ASSUME NEW u \in Users, JoinReadGroup(r, u) PROVE SoleAdmin'
    <2>1. group # "none" /\ UNCHANGED rows
      BY <1>2 DEF JoinReadGroup
    <2>2. req'[r].pc = "readRow" /\ \A q \in Requests \ {r} : req'[q] = req[q]
      BY <1>2, ArriveSlot DEF JoinReadGroup
    <2>3. QED
      BY <2>1, <2>2, ReadStep
  <1>3. ASSUME NEW u \in Users, LeaveRead(r, u) PROVE SoleAdmin'
    <2>1. group # "none" /\ row[u] # "none" /\ UNCHANGED rows
      BY <1>3 DEF LeaveRead, SoleAdmin, TypeOK
    <2>2. CASE row[u] = "admin"
      <3>1. Settled
        BY <2>2 DEF SoleAdmin
      <3>2. Arrive(r, u, [NoRequest EXCEPT !.pc = "countAdmins", !.user = u])
        BY <1>3, <2>2 DEF LeaveRead
      <3>3. req'[r].pc = "countAdmins" /\ req'[r].user = u
            /\ \A q \in Requests \ {r} : req'[q] = req[q]
        BY <3>2, ArriveSlot
      <3>4. QED
        BY <2>1, <3>1, <3>3, ReadStep
    <2>3. CASE row[u] # "admin"
      <3>1. Arrive(r, u, [NoRequest EXCEPT !.pc = "leave", !.user = u])
        BY <1>3, <2>3 DEF LeaveRead
      <3>2. req'[r].pc = "leave" /\ req'[r].user = u
            /\ \A q \in Requests \ {r} : req'[q] = req[q]
        BY <3>1, ArriveSlot
      <3>3. NeverAdmin(u)
        BY <2>1, <2>3 DEF NeverAdmin, Refused
      <3>4. NeverAdmin(req'[r].user)
        BY <3>2, <3>3
      <3>5. QED
        BY <2>1, <3>2, <3>4, ReadStep
    <2>4. QED
      BY <2>2, <2>3
  <1>4. ASSUME NEW u \in Users, NEW a \in Users, KickGate(r, a, u) PROVE SoleAdmin'
    <2>1. group # "none" /\ row[a] = "admin" /\ Settled /\ row[u] # "admin" /\ UNCHANGED rows
      BY <1>4 DEF KickGate, ActiveAdmins, SoleAdmin
    <2>2. req'[r].pc = "readTarget" /\ req'[r].user = u
          /\ \A q \in Requests \ {r} : req'[q] = req[q]
      BY <1>4, ArriveSlot DEF KickGate
    <2>3. QED
      BY <2>1, <2>2, ReadStep
  <1>5. QED
    BY <1>1, <1>2, <1>3, <1>4 DEF Arrival

\* Whatever runs at once, a group has one admin at most: its creator, from the
\* second insert of the creation on.
THEOREM AdminIsSole == Spec => []SoleAdmin
  <1>1. Init => SoleAdmin
    BY DEF Init, SoleAdmin, NoRequest
  <1>2. TypeOK /\ TypeOK' /\ SoleAdmin /\ [Next]_vars => SoleAdmin'
    <2> SUFFICES ASSUME TypeOK, TypeOK', SoleAdmin, [Next]_vars PROVE SoleAdmin'
      OBVIOUS
    <2>1. ASSUME NEW u \in Users, DeleteAccount(u) PROVE SoleAdmin'
      <3>1. /\ \A v \in Users : row'[v] = "admin" => row[v] = "admin"
            /\ \A v \in Users : row[v] = "none" => row'[v] = "none"
            /\ \A v \in Users : Refused(v) => Refused(v)'
            /\ active = {} => active' = {}
            /\ UNCHANGED <<group, req>>
        BY <2>1 DEF DeleteAccount, Refused, TypeOK
      <3>2. \A r \in Requests : req[r].pc # "idle" => req[r].user \in Users
        BY DEF TypeOK
      <3>3. \A r \in Requests : req'[r].pc = "leave" => NeverAdmin(req[r].user)'
        BY <3>1, <3>2 DEF SoleAdmin, NeverAdmin, Refused, Settled
      <3>4. QED
        BY <3>1, <3>2, <3>3 DEF SoleAdmin, Settled
    <2>2. CASE OwnerTierChanges
      BY <2>2 DEF OwnerTierChanges, SoleAdmin, Settled, NeverAdmin, Refused
    <2>3. CASE Crash
      <3>1. /\ \A r \in Requests : req'[r].pc = "idle"
            /\ UNCHANGED rows
        BY <2>3 DEF Crash, NoRequest
      <3>2. QED
        BY <3>1 DEF rows, SoleAdmin, Settled
    <2>4. CASE UNCHANGED vars
      BY <2>4 DEF vars, SoleAdmin, Settled, NeverAdmin, Refused
    <2>5. QED
      BY <2>1, <2>2, <2>3, <2>4, HandlerSole, ArrivalSole DEF Next
  <1>3. QED
    BY <1>1, <1>2, TypeCorrect, PTL DEF Spec

\* No race between joins, leaves and kicks leaves an open group without an
\* admin: the step that takes the last one away archives it or deletes an account.
THEOREM LastAdminArchives == Spec => AdminLossArchives
  <1>1. TypeOK /\ SoleAdmin /\ [Next]_vars =>
          (ActiveAdmins # {} /\ ActiveAdmins' = {} => group' = "archived" \/ accounts' # accounts)
    <2> SUFFICES ASSUME TypeOK, SoleAdmin, [Next]_vars, NEW a \in ActiveAdmins,
                        group' # "archived", accounts' = accounts
                 PROVE  a \in ActiveAdmins'
      OBVIOUS
    <2>a. a \in active /\ a \in Users /\ row[a] = "admin"
      BY DEF ActiveAdmins, TypeOK
    <2>1. CASE row' = row /\ active \subseteq active'
      BY <2>a, <2>1 DEF ActiveAdmins
    <2>2. ASSUME NEW r \in Requests, InsertAdminRow(r) \/ InsertMember(r)
          PROVE  a \in ActiveAdmins'
      BY <2>a, <2>2 DEF InsertAdminRow, InsertMember, ActiveAdmins, TypeOK
    <2>3. ASSUME NEW r \in Requests, LeaveTx(r)
          PROVE  a \in ActiveAdmins'
      <3>1. req[r].pc = "leave" /\ row[req[r].user] # "admin"
        BY <2>3 DEF LeaveTx, SoleAdmin, NeverAdmin
      <3>2. QED
        BY <2>a, <2>3, <3>1 DEF LeaveTx, ActiveAdmins
    <2>4. ASSUME NEW r \in Requests, Kick(r)
          PROVE  a \in ActiveAdmins'
      <3>1. row[req[r].user] # "admin" /\ req[r].user \in Users
        BY <2>4 DEF Kick, SoleAdmin, TypeOK
      <3>2. QED
        BY <2>a, <2>4, <3>1 DEF Kick, ActiveAdmins, TypeOK
    <2>5. ASSUME NEW u \in Users, DeleteAccount(u)
          PROVE  FALSE
      BY <2>5 DEF DeleteAccount
    <2>6. QED
      BY <2>1, <2>2, <2>3, <2>4, <2>5
      DEF Next, HandlerStep, Arrival, InsertConversation, JoinReadGroup, LeaveRead, KickGate,
          JoinReadRow, JoinCount, JoinReadTier, Rejoin, LeaveCountAdmins, KickReadTarget,
          OwnerTierChanges, Crash, rows, vars
  <1>2. QED
    BY <1>1, TypeCorrect, AdminIsSole, PTL DEF Spec, AdminLossArchives

-----------------------------------------------------------------------------
(* Archived groups and kicked users *)

\* Once the joins that had passed the check are over, an archived group takes
\* nobody in: not the creator whose creation is still under way, not a rejoin.
THEOREM ArchivedShrinks == Spec => ArchivedGroupOnlyShrinks
  <1>1. TypeOK /\ SoleAdmin /\ [Next]_vars =>
          (group = "archived" /\ JoinsInFlight = {}
             => group' = "archived" /\ JoinsInFlight' = {} /\ active' \subseteq active)
    <2> SUFFICES ASSUME TypeOK, SoleAdmin, [Next]_vars, group = "archived", JoinsInFlight = {}
                 PROVE  group' = "archived" /\ JoinsInFlight' = {} /\ active' \subseteq active
      OBVIOUS
    <2>a. \A r \in Requests : req[r].pc \notin JoinStep /\ req[r].pc # "insertAdmin"
      BY DEF JoinsInFlight, SoleAdmin, Settled
    <2>1. ASSUME NEW r \in Requests, HandlerStep(r)
          PROVE  group' = "archived" /\ JoinsInFlight' = {} /\ active' \subseteq active
      <3>1. LeaveCountAdmins(r) \/ LeaveTx(r) \/ KickReadTarget(r) \/ Kick(r)
        BY <2>a, <2>1 DEF HandlerStep, InsertAdminRow, JoinReadRow, JoinCount, JoinReadTier,
                          Rejoin, InsertMember, JoinStep
      <3>2. \E step \in {"leave", "leaveAndArchive", "kick"} : Respond(r) \/ Goto(r, step)
        BY <3>1 DEF LeaveCountAdmins, LeaveTx, KickReadTarget, Kick
      <3>3. req'[r].pc \notin JoinStep /\ \A q \in Requests \ {r} : req'[q] = req[q]
        BY <3>2, RespondSlot, GotoSlot DEF JoinStep
      <3>4. group' = "archived" /\ active' \subseteq active
        BY <3>1 DEF LeaveCountAdmins, LeaveTx, KickReadTarget, Kick, rows
      <3>5. QED
        BY <2>a, <3>3, <3>4 DEF JoinsInFlight
    <2>2. ASSUME NEW r \in Requests, Arrival(r)
          PROVE  group' = "archived" /\ JoinsInFlight' = {} /\ active' \subseteq active
      <3>1. PICK u \in Users : LeaveRead(r, u) \/ \E a \in Users : KickGate(r, a, u)
        BY <2>2 DEF Arrival, InsertConversation, JoinReadGroup
      <3>2. UNCHANGED rows
        BY <3>1 DEF LeaveRead, KickGate
      <3>3. \E a, step : /\ Arrive(r, a, [NoRequest EXCEPT !.pc = step, !.user = u])
                        /\ step \in {"leave", "countAdmins", "readTarget"}
        BY <3>1 DEF LeaveRead, KickGate
      <3>4. req'[r].pc \notin JoinStep /\ \A q \in Requests \ {r} : req'[q] = req[q]
        BY <3>3, ArriveSlot DEF JoinStep
      <3>5. QED
        BY <2>a, <3>2, <3>4 DEF JoinsInFlight, rows
    <2>3. ASSUME NEW u \in Users, DeleteAccount(u)
          PROVE  group' = "archived" /\ JoinsInFlight' = {} /\ active' \subseteq active
      BY <2>3 DEF DeleteAccount, JoinsInFlight
    <2>4. CASE OwnerTierChanges \/ UNCHANGED vars
      BY <2>4 DEF OwnerTierChanges, vars, JoinsInFlight
    <2>5. CASE Crash
      BY <2>5 DEF Crash, rows, JoinsInFlight, NoRequest, JoinStep
    <2>6. QED
      BY <2>1, <2>2, <2>3, <2>4, <2>5 DEF Next
  <1>2. QED
    BY <1>1, TypeCorrect, AdminIsSole, PTL DEF Spec, ArchivedGroupOnlyShrinks

\* A kick holds: nothing short of a join that had already read the row before it
\* brings the kicked user back.
THEOREM KicksStick == Spec => KickSticks
  <1>1. TypeOK /\ [Next]_vars =>
          \A u \in Users :
            row[u] = "kicked" /\ u \notin active /\ JoinsDecided(u) = {}
              => u \notin active' /\ JoinsDecided(u)' = {}
    <2> SUFFICES ASSUME TypeOK, [Next]_vars, NEW u \in Users,
                        row[u] = "kicked", u \notin active, JoinsDecided(u) = {}
                 PROVE  u \notin active' /\ JoinsDecided(u)' = {}
      OBVIOUS
    <2> DEFINE Decided(q) == q.pc \in JoinStep \ {"readRow"} /\ q.user = u
    <2>a. \A q \in Requests : ~Decided(req[q])
      BY DEF JoinsDecided
    <2>b. ASSUME NEW r \in Requests, ~Decided(req'[r]),
                 \A q \in Requests \ {r} : req'[q] = req[q]
          PROVE  JoinsDecided(u)' = {}
      BY <2>a, <2>b DEF JoinsDecided
    <2>c. JoinStep \ {"readRow"} = {"count", "tier", "rejoin", "insert"}
      BY DEF JoinStep
    <2>1. ASSUME NEW r \in Requests, HandlerStep(r)
          PROVE  u \notin active' /\ JoinsDecided(u)' = {}
      <3>1. CASE Respond(r)
        <4>1. u \notin active'
          BY <2>1, <2>a, <2>c
          DEF HandlerStep, InsertAdminRow, JoinReadRow, JoinCount, JoinReadTier, Rejoin, rows,
              InsertMember, LeaveCountAdmins, LeaveTx, KickReadTarget, Kick
        <4>2. ~Decided(req'[r]) /\ \A q \in Requests \ {r} : req'[q] = req[q]
          BY <2>c, <3>1, RespondSlot
        <4>3. QED
          BY <2>b, <4>1, <4>2
      <3>2. CASE JoinReadRow(r) /\ ~Respond(r)
        <4>1. req[r].user # u /\ UNCHANGED rows
          BY <3>2 DEF JoinReadRow
        <4>2. req'[r].user = req[r].user /\ \A q \in Requests \ {r} : req'[q] = req[q]
          BY <3>2 DEF JoinReadRow, TypeOK, Request
        <4>3. QED
          BY <2>b, <4>1, <4>2 DEF rows
      <3>3. CASE (JoinCount(r) \/ JoinReadTier(r)) /\ ~Respond(r)
        <4>1. req[r].user # u /\ UNCHANGED rows
          BY <2>a, <2>c, <3>3 DEF JoinCount, JoinReadTier
        <4>2. req'[r].user = req[r].user /\ \A q \in Requests \ {r} : req'[q] = req[q]
          BY <3>3 DEF JoinCount, JoinReadTier, Admitted, TypeOK, Request
        <4>3. QED
          BY <2>b, <4>1, <4>2 DEF rows
      <3>4. CASE \E step \in {"leave", "leaveAndArchive", "kick"} : Goto(r, step)
        <4>1. req'[r].pc \notin JoinStep /\ \A q \in Requests \ {r} : req'[q] = req[q]
          BY <3>4, GotoSlot DEF JoinStep
        <4>2. u \notin active'
          BY <2>1, <2>a, <2>c
          DEF HandlerStep, InsertAdminRow, JoinReadRow, JoinCount, JoinReadTier, Rejoin, rows,
              InsertMember, LeaveCountAdmins, LeaveTx, KickReadTarget, Kick
        <4>3. QED
          BY <2>b, <4>1, <4>2
      <3>5. QED
        BY <2>1, <3>1, <3>2, <3>3, <3>4
        DEF HandlerStep, InsertAdminRow, Rejoin, InsertMember, LeaveCountAdmins, LeaveTx,
            KickReadTarget, Kick
    <2>2. ASSUME NEW r \in Requests, Arrival(r)
          PROVE  u \notin active' /\ JoinsDecided(u)' = {}
      <3>1. active' = active
        BY <2>2 DEF Arrival, InsertConversation, JoinReadGroup, LeaveRead, KickGate, rows
      <3>2. \E a, v, step : /\ Arrive(r, a, [NoRequest EXCEPT !.pc = step, !.user = v])
                           /\ step \in {"insertAdmin", "readRow", "leave", "countAdmins", "readTarget"}
        BY <2>2 DEF Arrival, InsertConversation, JoinReadGroup, LeaveRead, KickGate
      <3>3. ~Decided(req'[r]) /\ \A q \in Requests \ {r} : req'[q] = req[q]
        BY <2>c, <3>2, ArriveSlot
      <3>4. QED
        BY <2>b, <3>1, <3>3
    <2>3. ASSUME NEW v \in Users, DeleteAccount(v)
          PROVE  u \notin active' /\ JoinsDecided(u)' = {}
      BY <2>3 DEF DeleteAccount, JoinsDecided
    <2>4. CASE OwnerTierChanges \/ UNCHANGED vars
      BY <2>4 DEF OwnerTierChanges, vars, JoinsDecided
    <2>5. CASE Crash
      BY <2>5 DEF Crash, rows, JoinsDecided, NoRequest, JoinStep
    <2>6. QED
      BY <2>1, <2>2, <2>3, <2>4, <2>5 DEF Next
  <1>2. QED
    BY <1>1, TypeCorrect, PTL DEF Spec, KickSticks

\* Both doors stay closed: archiving and kicking are final once the joins that had
\* passed their checks are over.
THEOREM DoorsStayClosed == Spec => ClosedDoorsStayClosed
  BY ArchivedShrinks, KicksStick DEF ClosedDoorsStayClosed

-----------------------------------------------------------------------------
(* Capacity *)

\* Handlers that will add a participant: the creation, and joins admitted or
\* about to be admitted on the count they have read.
Entering ==
    {r \in Requests : \/ req[r].pc \in {"insertAdmin", "rejoin", "insert"}
                      \/ req[r].pc = "tier" /\ req[r].seen < PremiumCap}

\* CapacityBounded is not inductive: the members to come count as well.
RoomLeft == Cardinality(active) + Cardinality(Entering) < PremiumCap + Cardinality(Requests)

LEMMA Finite ==
    ASSUME TypeOK
    PROVE  /\ IsFiniteSet(active) /\ Cardinality(active) \in Nat
           /\ IsFiniteSet(Entering) /\ Cardinality(Entering) \in Nat
           /\ Cardinality(Entering) <= Cardinality(Requests) /\ Cardinality(Requests) \in Nat
  <1>1. active \subseteq Users /\ Entering \subseteq Requests
    BY DEF TypeOK, Entering
  <1>2. QED
    BY <1>1, UsersAssumption, RequestsAssumption, FS_Subset, FS_CardinalityType

\* A step that adds no member and no handler on its way to add one.
LEMMA ShrinkStep ==
    ASSUME TypeOK, TypeOK', RoomLeft, active' \subseteq active, Entering' \subseteq Entering
    PROVE  RoomLeft'
  <1>1. /\ Cardinality(active') <= Cardinality(active)
        /\ Cardinality(Entering') <= Cardinality(Entering)
    BY Finite, FS_Subset
  <1>2. Cardinality(active') \in Nat /\ Cardinality(Entering') \in Nat
    BY Finite, FS_Subset, FS_CardinalityType
  <1>3. QED
    BY <1>1, <1>2, Finite, CapAssumption DEF RoomLeft

\* A handler that adds one member is one handler less on its way.
LEMMA EnterStep ==
    ASSUME TypeOK, TypeOK', RoomLeft, NEW r \in Entering, NEW u,
           active' \subseteq active \cup {u}, Entering' \subseteq Entering \ {r}
    PROVE  RoomLeft'
  <1>1. /\ IsFiniteSet(active \cup {u}) /\ Cardinality(active \cup {u}) \in Nat
        /\ Cardinality(active \cup {u}) <= Cardinality(active) + 1
    <2>1. IsFiniteSet(active) /\ Cardinality(active) \in Nat
      BY Finite
    <2>2. /\ IsFiniteSet(active \cup {u})
          /\ Cardinality(active \cup {u}) =
               IF u \in active THEN Cardinality(active) ELSE Cardinality(active) + 1
      BY <2>1, FS_AddElement
    <2>3. QED
      BY <2>1, <2>2
  <1>2. /\ IsFiniteSet(Entering \ {r}) /\ Cardinality(Entering \ {r}) \in Nat
        /\ Cardinality(Entering \ {r}) = Cardinality(Entering) - 1
    BY Finite, FS_RemoveElement, FS_CardinalityType
  <1>3. /\ Cardinality(active') <= Cardinality(active \cup {u})
        /\ Cardinality(Entering') <= Cardinality(Entering \ {r})
    BY <1>1, <1>2, FS_Subset
  <1>4. Cardinality(active') \in Nat /\ Cardinality(Entering') \in Nat
    BY <1>1, <1>2, FS_Subset, FS_CardinalityType
  <1>5. QED
    BY <1>1, <1>2, <1>3, <1>4, Finite, CapAssumption DEF RoomLeft

\* A step after which the group is below its limit: every handler may enter.
LEMMA BelowLimitStep ==
    ASSUME TypeOK, NEW a, NEW e, IsFiniteSet(a), Cardinality(a) < PremiumCap,
           e \subseteq Requests
    PROVE  Cardinality(a) + Cardinality(e) < PremiumCap + Cardinality(Requests)
  <1>1. /\ Cardinality(e) <= Cardinality(Requests) /\ Cardinality(e) \in Nat
        /\ Cardinality(Requests) \in Nat /\ Cardinality(a) \in Nat
    BY RequestsAssumption, FS_Subset, FS_CardinalityType
  <1>2. QED
    BY <1>1, CapAssumption

LEMMA HandlerRoom ==
    ASSUME TypeOK, TypeOK', RoomLeft, NEW r \in Requests, HandlerStep(r)
    PROVE  RoomLeft'
  <1>1. CASE InsertAdminRow(r) \/ Rejoin(r) \/ InsertMember(r)
    <2>1. Respond(r) /\ r \in Entering /\ active' \subseteq active \cup {req[r].user}
      BY <1>1 DEF InsertAdminRow, Rejoin, InsertMember, Entering
    <2>2. Entering' \subseteq Entering \ {r}
      BY <2>1, RespondSlot DEF Entering
    <2>3. QED
      BY <2>1, <2>2, EnterStep
  <1>2. CASE JoinCount(r)
    <2>1. active' = active /\ \A q \in Requests \ {r} : req'[q] = req[q]
      BY <1>2 DEF JoinCount, TypeOK, rows
    <2>2. req'[r].pc = "tier" /\ req'[r].seen = Cardinality(active)
      BY <1>2 DEF JoinCount, TypeOK, Request
    <2>3. CASE Cardinality(active) < PremiumCap
      <3>1. Entering' \subseteq Requests
        BY DEF Entering
      <3>2. QED
        BY <2>1, <2>3, <3>1, Finite, BelowLimitStep DEF RoomLeft
    <2>4. CASE ~(Cardinality(active) < PremiumCap)
      <3>1. Entering' \subseteq Entering
        BY <2>1, <2>2, <2>4 DEF Entering
      <3>2. QED
        BY <2>1, <3>1, ShrinkStep
    <2>5. QED
      BY <2>3, <2>4
  <1>3. CASE JoinReadTier(r) /\ ~Respond(r)
    <2>1. req[r].seen < PremiumCap /\ req[r].pc = "tier"
      BY <1>3, CapAssumption DEF JoinReadTier, Cap, TypeOK, Request
    <2>2. active' = active /\ \A q \in Requests \ {r} : req'[q] = req[q]
      BY <1>3 DEF JoinReadTier, TypeOK, rows
    <2>3. Entering' \subseteq Entering
      BY <2>1, <2>2 DEF Entering
    <2>4. QED
      BY <2>2, <2>3, ShrinkStep
  <1>4. CASE /\ Respond(r) /\ active' \subseteq active
    <2>1. Entering' \subseteq Entering
      BY <1>4, RespondSlot DEF Entering
    <2>2. QED
      BY <1>4, <2>1, ShrinkStep
  <1>5. CASE JoinReadRow(r) /\ ~Respond(r)
    <2>1. active' = active /\ \A q \in Requests \ {r} : req'[q] = req[q]
      BY <1>5 DEF JoinReadRow, TypeOK, rows
    <2>2. req'[r].pc = "count"
      BY <1>5 DEF JoinReadRow, TypeOK, Request
    <2>3. Entering' \subseteq Entering
      BY <2>1, <2>2 DEF Entering
    <2>4. QED
      BY <2>1, <2>3, ShrinkStep
  <1>6. CASE LeaveCountAdmins(r) \/ (KickReadTarget(r) /\ ~Respond(r))
    <2>1. PICK step \in {"leave", "leaveAndArchive", "kick"} : Goto(r, step)
      BY <1>6 DEF LeaveCountAdmins, KickReadTarget
    <2>2. Entering' \subseteq Entering
      BY <2>1, GotoSlot DEF Entering
    <2>3. active' = active
      BY <1>6 DEF LeaveCountAdmins, KickReadTarget, rows
    <2>4. QED
      BY <2>2, <2>3, ShrinkStep
  <1>7. QED
    BY <1>1, <1>2, <1>3, <1>4, <1>5, <1>6
    DEF HandlerStep, JoinReadRow, JoinReadTier, LeaveTx, KickReadTarget, Kick, rows

\* However many joins pass the check together, the group exceeds the premium
\* limit by fewer members than there are handler slots.
THEOREM CapacityHolds == Spec => []CapacityBounded
  <1>1. Init => RoomLeft
    <2> SUFFICES ASSUME Init PROVE RoomLeft
      OBVIOUS
    <2>1. active = {} /\ Entering = {}
      BY DEF Init, Entering, NoRequest
    <2>2. Cardinality({}) = 0 /\ Cardinality(Requests) \in Nat
      BY FS_EmptySet, RequestsAssumption, FS_CardinalityType
    <2>3. QED
      BY <2>1, <2>2, CapAssumption DEF RoomLeft
  <1>2. TypeOK /\ TypeOK' /\ SoleAdmin /\ RoomLeft /\ [Next]_vars => RoomLeft'
    <2> SUFFICES ASSUME TypeOK, TypeOK', SoleAdmin, RoomLeft, [Next]_vars PROVE RoomLeft'
      OBVIOUS
    <2>1. ASSUME NEW r \in Requests, Arrival(r) PROVE RoomLeft'
      <3>1. ASSUME NEW u \in Users, InsertConversation(r, u) PROVE RoomLeft'
        <4>1. active' = {}
          BY <3>1 DEF InsertConversation, SoleAdmin
        <4>2. IsFiniteSet({}) /\ Cardinality({}) < PremiumCap
          BY FS_EmptySet, CapAssumption
        <4>3. Entering' \subseteq Requests
          BY DEF Entering
        <4>4. QED
          BY <4>1, <4>2, <4>3, BelowLimitStep DEF RoomLeft
      <3>2. ASSUME NEW u \in Users, NEW a \in Users,
                   JoinReadGroup(r, u) \/ LeaveRead(r, u) \/ KickGate(r, a, u)
            PROVE  RoomLeft'
        <4>1. active' = active
          BY <3>2 DEF JoinReadGroup, LeaveRead, KickGate, rows
        <4>2. \E b, step : /\ Arrive(r, b, [NoRequest EXCEPT !.pc = step, !.user = u])
                          /\ step \in {"readRow", "leave", "countAdmins", "readTarget"}
          BY <3>2 DEF JoinReadGroup, LeaveRead, KickGate
        <4>3. Entering' \subseteq Entering
          BY <4>2, ArriveSlot DEF Entering
        <4>4. QED
          BY <4>1, <4>3, ShrinkStep
      <3>3. QED
        BY <2>1, <3>1, <3>2 DEF Arrival
    <2>2. CASE \E u \in Users : DeleteAccount(u)
      BY <2>2, ShrinkStep DEF DeleteAccount, Entering
    <2>3. CASE OwnerTierChanges \/ UNCHANGED vars
      BY <2>3, ShrinkStep DEF OwnerTierChanges, vars, Entering
    <2>4. CASE Crash
      <3>1. active' = active /\ Entering' \subseteq Entering
        BY <2>4 DEF Crash, rows, Entering, NoRequest
      <3>2. QED
        BY <3>1, ShrinkStep
    <2>5. QED
      BY <2>1, <2>2, <2>3, <2>4, HandlerRoom DEF Next
  <1>3. TypeOK /\ RoomLeft => CapacityBounded
    BY Finite, CapAssumption DEF RoomLeft, CapacityBounded
  <1>4. QED
    BY <1>1, <1>2, <1>3, TypeCorrect, AdminIsSole, PTL DEF Spec
=============================================================================
