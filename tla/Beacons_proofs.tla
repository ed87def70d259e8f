--------------------------- MODULE Beacons_proofs ---------------------------
(***************************************************************************)
(* What TLAPS proves of Beacons, for any users, beacons, requests and      *)
(* matcher runs: the slots of a user, the stamps of a match and the pairs  *)
(* a run keeps off.                                                        *)
(***************************************************************************)
EXTENDS Beacons, FiniteSetTheorems, TLAPS

-----------------------------------------------------------------------------
(* Type correctness *)

\* TypeOK in parts: the tables, and the runs.
TablesOK ==
    /\ owner \in [BeaconIds -> Users \cup {NoUser}]
    /\ active \subseteq Rows /\ lastMatched \subseteq Rows
    /\ expired \subseteq {b \in BeaconIds : owner[b] # NoUser}
    /\ gone \subseteq Users
    /\ blocks \subseteq Users \X Users
    /\ match \subseteq Pairs
    /\ \A p \in match : p \subseteq Rows
    /\ recent \subseteq match /\ dismissed \subseteq match
    /\ creating \in [Requests -> Users \cup {NoUser}]
    /\ cut \in BOOLEAN

\* What TypeOK says of one run.
RunOK(x) ==
    /\ x \in Run
    /\ \A b \in x.snap : owner[b] # NoUser
    /\ \A p \in x.todo : p \subseteq x.snap
    /\ x.cur \subseteq x.snap
    /\ x.pc \in {"compare", "insert", "notify", "stamp"} => x.cur \in Pairs

RunsOK == run \in [Runs -> Run] /\ \A k \in Runs : RunOK(run[k])

LEMMA Parts == TypeOK <=> TablesOK /\ RunsOK
BY DEF TypeOK, TablesOK, RunsOK, RunOK

\* Beacons keep their owners.
LEMMA OwnersStay ==
    TypeOK /\ [Next]_vars => \A b \in BeaconIds : owner[b] # NoUser => owner'[b] = owner[b]
<1>. SUFFICES ASSUME TypeOK, Next
              PROVE  \A b \in BeaconIds : owner[b] # NoUser => owner'[b] = owner[b]
  BY DEF vars
<1>1. ASSUME NEW r \in Requests, CreateInsert(r)
      PROVE  \A b \in BeaconIds : owner[b] # NoUser => owner'[b] = owner[b]
  BY <1>1 DEF CreateInsert, TypeOK
<1>2. CASE UNCHANGED owner
  BY <1>2
<1>3. (\E r \in Requests : CreateInsert(r)) \/ UNCHANGED owner
  BY DEF Next, RequestStep, CreateGate, Refused, RunStep, Start, LoadBlocks, Visit, Compared,
         InsertMatch, Notify, Stamp, Finish, Crash, Others, Delete, Expire, Dismiss, Age,
         DeleteAccount, ToggleBlock, beacons
<1>. QED  BY <1>1, <1>2, <1>3

\* A step of one run keeps the runs typed.
LEMMA RunTyped ==
    ASSUME RunsOK, NEW k \in Runs, NEW x, RunOK(x), run' = [run EXCEPT ![k] = x],
           UNCHANGED owner
    PROVE  RunsOK'
BY DEF RunsOK, RunOK

LEMMA NoRunOK == RunOK(NoRun)
BY DEF RunOK, NoRun, Run

LEMMA AbortTyped ==
    ASSUME RunsOK, NEW k \in Runs, Abort(k), UNCHANGED owner
    PROVE  RunsOK' /\ cut'
BY NoRunOK, RunTyped DEF Abort

LEMMA PairsAreSets == \A p \in Pairs : p \subseteq BeaconIds /\ p # {}
<1>. SUFFICES ASSUME NEW p \in Pairs PROVE p \subseteq BeaconIds /\ p # {}
  OBVIOUS
<1>1. p \subseteq BeaconIds /\ Cardinality(p) = 2
  BY DEF Pairs
<1>. QED  BY <1>1, FS_EmptySet

LEMMA RunsTyped == TypeOK /\ [Next]_vars => RunsOK'
<1>. SUFFICES ASSUME TypeOK, [Next]_vars PROVE RunsOK'
  OBVIOUS
<1>0. RunsOK /\ TablesOK
  BY Parts
<1>1. ASSUME UNCHANGED run PROVE RunsOK'
  BY <1>0, <1>1, OwnersStay DEF RunsOK, RunOK, Run
<1>2. ASSUME NEW k \in Runs, Start(k) PROVE RunsOK'
  <2>. DEFINE x == [NoRun EXCEPT !.pc = "blocks", !.snap = active \ expired]
  <2>1. active \subseteq BeaconIds /\ \A b \in active : owner[b] # NoUser
    BY <1>0 DEF TablesOK, Rows
  <2>2. RunOK(x)
    BY <2>1, NoRunOK DEF RunOK, Run, NoRun
  <2>. QED  BY <1>0, <1>2, <2>2, RunTyped DEF Start, beacons
<1>3. ASSUME NEW k \in Runs, LoadBlocks(k) PROVE RunsOK'
  <2>. DEFINE todo == {p \in Pairs : /\ p \subseteq run[k].snap
                                     /\ \A a, b \in p : a # b => owner[a] # owner[b]
                                     /\ ~Blocked(p)}
              x == [run[k] EXCEPT !.pc = "pairs", !.todo = todo]
  <2>1. todo \subseteq Pairs /\ \A p \in todo : p \subseteq run[k].snap
    OBVIOUS
  <2>. HIDE DEF todo
  <2>2. RunOK(x)
    BY <1>0, <2>1 DEF RunsOK, RunOK, Run
  <2>3. run' = [run EXCEPT ![k] = x]
    BY <1>0, <1>3 DEF LoadBlocks, RunsOK, Run, todo
  <2>. QED  BY <1>0, <1>3, <2>2, <2>3, RunTyped DEF LoadBlocks, beacons
<1>4. ASSUME NEW k \in Runs, NEW p \in Pairs, Visit(k, p) PROVE RunsOK'
  <2>. DEFINE x == [run[k] EXCEPT !.todo = @ \ {p},
                                  !.pc = IF Resting(p) THEN "pairs" ELSE "compare",
                                  !.cur = IF Resting(p) THEN {} ELSE p]
  <2>1. p \subseteq run[k].snap /\ p \subseteq BeaconIds
    BY <1>0, <1>4, PairsAreSets DEF Visit, RunsOK, RunOK
  <2>2. RunOK(x)
    BY <1>0, <1>4, <2>1 DEF RunsOK, RunOK, Run
  <2>3. run' = [run EXCEPT ![k] = x]
    BY <1>0, <1>4 DEF Visit, RunsOK, Run
  <2>. QED  BY <1>0, <1>4, <2>2, <2>3, RunTyped DEF Visit, beacons
<1>5. ASSUME NEW k \in Runs, NEW pc \in {"insert", "notify", "stamp"},
             run[k].pc \in {"compare", "insert", "notify"},
             run' = [run EXCEPT ![k].pc = pc], UNCHANGED owner
      PROVE  RunsOK'
  <2>. DEFINE x == [run[k] EXCEPT !.pc = pc]
  <2>1. RunOK(x)
    BY <1>0, <1>5 DEF RunsOK, RunOK, Run
  <2>. QED  BY <1>0, <1>5, <2>1, RunTyped
<1>6. ASSUME NEW k \in Runs, run' = [run EXCEPT ![k].pc = "pairs", ![k].cur = {}], UNCHANGED owner
      PROVE  RunsOK'
  <2>. DEFINE x == [run[k] EXCEPT !.pc = "pairs", !.cur = {}]
  <2>1. RunOK(x)
    BY <1>0 DEF RunsOK, RunOK, Run
  <2>2. run' = [run EXCEPT ![k] = x]
    BY <1>0, <1>6 DEF RunsOK, Run
  <2>. QED  BY <1>0, <1>6, <2>1, <2>2, RunTyped
<1>7. ASSUME NEW k \in Runs, Compared(k) \/ Stamp(k) PROVE RunsOK'
  BY <1>5, <1>6, <1>7 DEF Compared, Stamp, beacons
<1>8. ASSUME NEW k \in Runs, InsertMatch(k) \/ Notify(k) \/ Crash(k) PROVE RunsOK'
  BY <1>0, <1>5, <1>8, AbortTyped DEF InsertMatch, Notify, Crash, beacons
<1>9. ASSUME NEW k \in Runs, Finish(k) PROVE RunsOK'
  BY <1>0, <1>9, NoRunOK, RunTyped DEF Finish, beacons
<1>10. (\E r \in Requests : RequestStep(r)) \/ Others => UNCHANGED run
  BY DEF RequestStep, CreateGate, CreateInsert, Refused, Others, Delete, Expire, Dismiss, Age,
         DeleteAccount, ToggleBlock
<1>. QED
  BY <1>1, <1>2, <1>3, <1>4, <1>7, <1>8, <1>9, <1>10 DEF Next, RunStep, vars

LEMMA TablesTyped == TypeOK /\ [Next]_vars => TablesOK'
<1>. SUFFICES ASSUME TypeOK, [Next]_vars PROVE TablesOK'
  OBVIOUS
<1>0. TablesOK /\ RunsOK
  BY Parts
<1>1. ASSUME UNCHANGED <<beacons, users, matches>>, cut' \in BOOLEAN,
             creating' \in [Requests -> Users \cup {NoUser}]
      PROVE  TablesOK'
  BY <1>0, <1>1 DEF TablesOK, beacons, users, matches, Rows
<1>2. ASSUME NEW r \in Requests, NEW u \in Users, CreateGate(r, u) PROVE TablesOK'
  BY <1>0, <1>1, <1>2 DEF CreateGate, TablesOK
<1>3. ASSUME NEW r \in Requests, CreateInsert(r) PROVE TablesOK'
  <2>1. PICK b \in BeaconIds : /\ owner[b] = NoUser
                               /\ owner' = [owner EXCEPT ![b] = creating[r]]
                               /\ active' = active \cup {b}
    BY <1>3 DEF CreateInsert
  <2>2. creating[r] \in Users /\ creating[r] \notin gone \cup {NoUser}
    BY <1>0, <1>3 DEF CreateInsert, TablesOK
  <2>3. Rows' = Rows \cup {b}
    BY <1>0, <1>3, <2>1, <2>2 DEF CreateInsert, TablesOK, Rows, users
  <2>4. owner' \in [BeaconIds -> Users \cup {NoUser}]
    BY <1>0, <2>1, <2>2 DEF TablesOK
  <2>5. expired \subseteq {c \in BeaconIds : owner'[c] # NoUser}
    BY <1>0, <2>1, <2>2 DEF TablesOK
  <2>6. creating' \in [Requests -> Users \cup {NoUser}]
    BY <1>0, <1>3 DEF CreateInsert, Respond, TablesOK
  <2>7. UNCHANGED <<expired, lastMatched, gone, blocks, match, recent, dismissed, cut>>
    BY <1>3 DEF CreateInsert, users, matches
  <2>8. /\ active' \subseteq Rows' /\ lastMatched \subseteq Rows'
        /\ \A p \in match : p \subseteq Rows'
    BY <1>0, <2>1, <2>3 DEF TablesOK
  <2>. QED  BY <1>0, <2>4, <2>5, <2>6, <2>7, <2>8 DEF TablesOK
<1>4. ASSUME NEW r \in Requests, Refused(r) PROVE TablesOK'
  BY <1>0, <1>1, <1>4 DEF Refused, Respond, TablesOK
<1>5. ASSUME NEW k \in Runs,
             \/ Start(k) \/ LoadBlocks(k) \/ Compared(k) \/ Finish(k)
             \/ \E p \in Pairs : Visit(k, p)
      PROVE  TablesOK'
  BY <1>0, <1>1, <1>5 DEF Start, LoadBlocks, Compared, Finish, Visit, TablesOK
<1>6. ASSUME NEW k \in Runs, Notify(k) \/ Crash(k) PROVE TablesOK'
  BY <1>0, <1>1, <1>6 DEF Notify, Crash, Abort, TablesOK
<1>7. ASSUME NEW k \in Runs, InsertMatch(k) PROVE TablesOK'
  <2>. DEFINE p == run[k].cur
  <2>1. UNCHANGED <<beacons, users, dismissed, creating>>
    BY <1>7 DEF InsertMatch
  <2>2. CASE p \subseteq Rows
    <3>1. p \in Pairs
      BY <1>0, <1>7 DEF InsertMatch, RunsOK, RunOK
    <3>2. match' = match \cup {p} /\ recent' \subseteq recent \cup {p} /\ cut' = cut
      BY <1>7, <2>2 DEF InsertMatch
    <3>. QED  BY <1>0, <2>1, <2>2, <3>1, <3>2 DEF TablesOK, beacons, users, Rows
  <2>3. CASE ~(p \subseteq Rows)
    BY <1>0, <1>1, <1>7, <2>3 DEF InsertMatch, Abort, TablesOK, matches
  <2>. QED  BY <2>2, <2>3
<1>8. ASSUME NEW k \in Runs, Stamp(k) PROVE TablesOK'
  BY <1>0, <1>8 DEF Stamp, TablesOK, users, matches, Rows
<1>9. ASSUME NEW b \in BeaconIds, Delete(b) \/ Expire(b) PROVE TablesOK'
  BY <1>0, <1>9 DEF Delete, Expire, TablesOK, users, matches, Rows
<1>10. ASSUME NEW p \in Pairs, Dismiss(p) \/ Age(p) PROVE TablesOK'
  BY <1>0, <1>10 DEF Dismiss, Age, TablesOK, beacons, users, Rows
<1>11. ASSUME NEW u \in Users, NEW v \in Users, ToggleBlock(u, v) PROVE TablesOK'
  BY <1>0, <1>11 DEF ToggleBlock, TablesOK, beacons, matches, Rows
<1>12. ASSUME NEW u \in Users, DeleteAccount(u) PROVE TablesOK'
  <2>. DEFINE mine == {b \in BeaconIds : owner[b] = u}
  <2>1. Rows' = Rows \ mine
    BY <1>12 DEF DeleteAccount, Rows
  <2>2. /\ active' = active \ mine /\ lastMatched' = lastMatched \ mine
        /\ match' = {p \in match : p \cap mine = {}}
        /\ recent' = recent \cap match' /\ dismissed' = dismissed \cap match'
        /\ gone' = gone \cup {u} /\ blocks' \subseteq blocks
        /\ UNCHANGED <<owner, expired, creating, cut>>
    BY <1>12 DEF DeleteAccount
  <2>. HIDE DEF mine
  <2>3. \A p \in match' : p \subseteq Rows'
    BY <1>0, <2>1, <2>2 DEF TablesOK
  <2>. QED  BY <1>0, <2>1, <2>2, <2>3 DEF TablesOK
<1>13. CASE UNCHANGED vars
  BY <1>0, <1>1, <1>13 DEF vars, beacons, users, matches, TablesOK
<1>. QED
  BY <1>2, <1>3, <1>4, <1>5, <1>6, <1>7, <1>8, <1>9, <1>10, <1>11, <1>12, <1>13
     DEF Next, RequestStep, RunStep, Others

LEMMA TypeStep == TypeOK /\ [Next]_vars => TypeOK'
<1>. SUFFICES ASSUME TypeOK, [Next]_vars PROVE TypeOK'
  OBVIOUS
<1>1. TablesOK' /\ RunsOK'
  BY TablesTyped, RunsTyped
<1>. QED  BY <1>1 DEF TypeOK, TablesOK, RunsOK, RunOK

\* The state is well typed: beacons and matches are never those of a deleted
\* account, and a run compares and matches only pairs of its snapshot.
THEOREM TypeCorrect == Spec => []TypeOK
<1>1. Init => TypeOK
  <2>. SUFFICES ASSUME Init PROVE TypeOK
    OBVIOUS
  <2>1. run \in [Runs -> Run] /\ \A k \in Runs : RunOK(run[k])
    BY NoRunOK DEF Init, RunOK
  <2>2. TablesOK
    BY DEF Init, TablesOK
  <2>. QED  BY <2>1, <2>2, Parts DEF RunsOK
<1>. QED  BY <1>1, TypeStep, PTL DEF Spec

-----------------------------------------------------------------------------
(* The slots of a user *)

Creating(u) == {r \in Requests : creating[r] = u}

\* What a user has and what is on its way stays below the limit and the requests.
RoomLeft ==
    \A u \in Users :
        Cardinality(Slots(u)) + Cardinality(Creating(u)) < MaxBeacons + Cardinality(Requests)

LEMMA Sizes ==
    ASSUME NEW u
    PROVE  /\ IsFiniteSet(Slots(u)) /\ Cardinality(Slots(u)) \in Nat
           /\ IsFiniteSet(Creating(u)) /\ Cardinality(Creating(u)) \in Nat
           /\ Cardinality(Requests) \in Nat
           /\ Cardinality(Creating(u)) <= Cardinality(Requests)
<1>1. Slots(u) \subseteq BeaconIds /\ Creating(u) \subseteq Requests
  BY DEF Slots, Rows, Creating
<1>. QED  BY <1>1, FiniteAssumption, FS_Subset, FS_CardinalityType

\* Slots are given up, creates end.
LEMMA Fewer ==
    ASSUME RoomLeft, \A u \in Users : Slots(u)' \subseteq Slots(u) /\ Creating(u)' \subseteq Creating(u)
    PROVE  RoomLeft'
<1>. SUFFICES ASSUME NEW u \in Users
              PROVE  Cardinality(Slots(u)') + Cardinality(Creating(u)')
                        < MaxBeacons + Cardinality(Requests)
  BY DEF RoomLeft
<1>1. /\ Cardinality(Slots(u)') <= Cardinality(Slots(u)) /\ Cardinality(Slots(u)') \in Nat
      /\ Cardinality(Creating(u)') <= Cardinality(Creating(u)) /\ Cardinality(Creating(u)') \in Nat
  BY Sizes, FS_Subset, FS_CardinalityType
<1>. QED  BY <1>1, Sizes, LimitAssumption DEF RoomLeft

LEMMA RoomStep == TypeOK /\ RoomLeft /\ [Next]_vars => RoomLeft'
<1>. SUFFICES ASSUME TypeOK, RoomLeft, [Next]_vars PROVE RoomLeft'
  OBVIOUS
<1>1. ASSUME NEW r \in Requests, NEW u \in Users, CreateGate(r, u) PROVE RoomLeft'
  <2>1. ASSUME NEW v \in Users
        PROVE  Cardinality(Slots(v)') + Cardinality(Creating(v)')
                  < MaxBeacons + Cardinality(Requests)
    <3>1. Slots(v)' = Slots(v)
      BY <1>1 DEF CreateGate, Slots, Rows, beacons, users
    <3>2. CASE v = u
      <4>1. Creating(v)' \subseteq Requests
        BY DEF Creating
      <4>2. Cardinality(Creating(v)') <= Cardinality(Requests) /\ Cardinality(Creating(v)') \in Nat
        BY <4>1, FiniteAssumption, FS_Subset, FS_CardinalityType
      <4>. QED  BY <1>1, <3>1, <3>2, <4>2, Sizes, LimitAssumption DEF CreateGate
    <3>3. CASE v # u
      <4>1. Creating(v)' = Creating(v)
        BY <1>1, <3>3, NoneAssumption DEF CreateGate, Creating, TypeOK
      <4>. QED  BY <3>1, <4>1 DEF RoomLeft
    <3>. QED  BY <3>2, <3>3
  <2>. QED  BY <2>1 DEF RoomLeft
<1>2. ASSUME NEW r \in Requests, CreateInsert(r) PROVE RoomLeft'
  <2>1. PICK b \in BeaconIds : owner[b] = NoUser /\ owner' = [owner EXCEPT ![b] = creating[r]]
    BY <1>2 DEF CreateInsert
  <2>2. creating[r] \in Users /\ creating[r] # NoUser
    BY <1>2 DEF CreateInsert, TypeOK
  <2>3. ASSUME NEW u \in Users
        PROVE  Cardinality(Slots(u)') + Cardinality(Creating(u)')
                  < MaxBeacons + Cardinality(Requests)
    <3>1. CASE u = creating[r]
      <4>1. Slots(u)' \subseteq Slots(u) \cup {b}
        BY <1>2, <2>1, <2>2, <3>1 DEF CreateInsert, Slots, Rows, users, TypeOK
      <4>2. Creating(u)' = Creating(u) \ {r} /\ r \in Creating(u)
        BY <1>2, <2>2, <3>1 DEF CreateInsert, Respond, Creating, TypeOK
      <4>3. /\ IsFiniteSet(Slots(u) \cup {b}) /\ Cardinality(Slots(u) \cup {b}) \in Nat
            /\ Cardinality(Slots(u) \cup {b}) <= Cardinality(Slots(u)) + 1
        <5>1. IsFiniteSet(Slots(u)) /\ Cardinality(Slots(u)) \in Nat
          BY Sizes
        <5>2. /\ IsFiniteSet(Slots(u) \cup {b})
              /\ Cardinality(Slots(u) \cup {b}) =
                   IF b \in Slots(u) THEN Cardinality(Slots(u)) ELSE Cardinality(Slots(u)) + 1
          BY <5>1, FS_AddElement
        <5>. QED  BY <5>1, <5>2
      <4>4. Cardinality(Slots(u)') <= Cardinality(Slots(u)) + 1 /\ Cardinality(Slots(u)') \in Nat
        BY <4>1, <4>3, Sizes, FS_Subset, FS_CardinalityType
      <4>5. Cardinality(Creating(u)') = Cardinality(Creating(u)) - 1
        BY <4>2, Sizes, FS_RemoveElement
      <4>. QED  BY <4>4, <4>5, Sizes, LimitAssumption DEF RoomLeft
    <3>2. CASE u # creating[r]
      <4>1. Slots(u)' = Slots(u) /\ Creating(u)' = Creating(u)
        BY <1>2, <2>1, <2>2, <3>2, NoneAssumption
           DEF CreateInsert, Respond, Slots, Rows, Creating, users, TypeOK
      <4>. QED  BY <4>1 DEF RoomLeft
    <3>. QED  BY <3>1, <3>2
  <2>. QED  BY <2>3 DEF RoomLeft
<1>3. ASSUME NEW r \in Requests, Refused(r) PROVE RoomLeft'
  <2>1. \A u \in Users : Slots(u)' = Slots(u)
    BY <1>3 DEF Refused, Slots, Rows, beacons, users
  <2>2. \A u \in Users : Creating(u)' \subseteq Creating(u)
    BY <1>3, NoneAssumption DEF Refused, Respond, Creating, TypeOK
  <2>. QED  BY <2>1, <2>2, Fewer
<1>4. ASSUME UNCHANGED <<owner, creating>>, gone \subseteq gone', expired \subseteq expired'
      PROVE  RoomLeft'
  <2>1. \A u \in Users : Slots(u)' \subseteq Slots(u) /\ Creating(u)' = Creating(u)
    BY <1>4 DEF Slots, Rows, Creating
  <2>. QED  BY <2>1, Fewer
<1>5. ASSUME NEW k \in Runs, RunStep(k) PROVE RoomLeft'
  BY <1>4, <1>5 DEF RunStep, Start, LoadBlocks, Visit, Compared, InsertMatch, Notify, Stamp,
                    Finish, Crash, beacons, users
<1>6. CASE Others
  BY <1>4, <1>6 DEF Others, Delete, Expire, Dismiss, Age, DeleteAccount, ToggleBlock,
                    beacons, users
<1>7. CASE UNCHANGED vars
  BY <1>4, <1>7 DEF vars
<1>. QED  BY <1>1, <1>2, <1>3, <1>5, <1>6, <1>7 DEF Next, RequestStep

\* Deleting and creating again mints no slots: for every limit, and every number of
\* creates that run at once, a user passes the limit by less than that number.
THEOREM SlotsAreBounded == Spec => []SlotsBounded
<1>1. Init => RoomLeft
  <2>. SUFFICES ASSUME Init, NEW u \in Users
                PROVE  Cardinality(Slots(u)) + Cardinality(Creating(u))
                          < MaxBeacons + Cardinality(Requests)
    BY DEF RoomLeft
  <2>1. Slots(u) = {} /\ Creating(u) = {}
    BY NoneAssumption DEF Init, Slots, Rows, Creating
  <2>. QED  BY <2>1, Sizes, FS_EmptySet, LimitAssumption
<1>2. RoomLeft => SlotsBounded
  <2>. SUFFICES ASSUME RoomLeft, NEW u \in Users
                PROVE  Cardinality(Slots(u)) < MaxBeacons + Cardinality(Requests)
    BY DEF SlotsBounded, Slots
  <2>. QED  BY Sizes, LimitAssumption DEF RoomLeft
<1>. QED  BY <1>1, <1>2, TypeCorrect, RoomStep, PTL DEF Spec

-----------------------------------------------------------------------------
(* The stamps of a match *)

\* A step of a run that is not about to stamp anything.
LEMMA OtherRunStamps ==
    ASSUME TypeOK, MatchesAreStamped, NEW k \in Runs, run[k].pc \notin {"notify", "stamp"},
           \A j \in Runs \ {k} : run'[j] = run[j],
           UNCHANGED <<lastMatched, match, cut>>
    PROVE  MatchesAreStamped'
BY DEF MatchesAreStamped

LEMMA StampedStep == TypeOK /\ MatchesAreStamped /\ [Next]_vars => MatchesAreStamped'
<1>. SUFFICES ASSUME TypeOK, MatchesAreStamped, [Next]_vars PROVE MatchesAreStamped'
  OBVIOUS
<1>1. ASSUME UNCHANGED <<lastMatched, match, run, cut>> PROVE MatchesAreStamped'
  BY <1>1 DEF MatchesAreStamped
<1>2. ASSUME NEW k \in Runs,
             \/ Start(k) \/ LoadBlocks(k) \/ Compared(k) \/ Finish(k)
             \/ \E p \in Pairs : Visit(k, p)
      PROVE  MatchesAreStamped'
  <2>1. /\ run[k].pc \in {"idle", "blocks", "pairs", "compare"}
        /\ UNCHANGED <<lastMatched, match, cut>>
    BY <1>2 DEF Start, LoadBlocks, Compared, Finish, Visit, beacons, matches
  <2>2. \A j \in Runs \ {k} : run'[j] = run[j]
    BY <1>2 DEF Start, LoadBlocks, Compared, Finish, Visit, TypeOK
  <2>. QED  BY <2>1, <2>2, OtherRunStamps
<1>3. ASSUME cut' PROVE MatchesAreStamped'
  BY <1>3 DEF MatchesAreStamped
<1>4. ASSUME NEW k \in Runs, InsertMatch(k) PROVE MatchesAreStamped'
  <2>1. CASE run[k].cur \subseteq Rows
    <3>1. /\ match' = match \cup {run[k].cur} /\ UNCHANGED <<lastMatched, cut>>
          /\ run[k].pc = "insert"
          /\ run' = [run EXCEPT ![k].pc = "notify"]
      BY <1>4, <2>1 DEF InsertMatch, beacons
    <3>2. /\ run'[k].pc = "notify" /\ run'[k].cur = run[k].cur
          /\ \A j \in Runs \ {k} : run'[j] = run[j]
      BY <3>1 DEF TypeOK, Run
    <3>. QED  BY <3>1, <3>2 DEF MatchesAreStamped
  <2>2. CASE ~(run[k].cur \subseteq Rows)
    BY <1>3, <1>4, <2>2 DEF InsertMatch, Abort
  <2>. QED  BY <2>1, <2>2
<1>5. ASSUME NEW k \in Runs, Notify(k) PROVE MatchesAreStamped'
  <2>1. CASE run[k].cur \subseteq Rows
    <3>1. run' = [run EXCEPT ![k].pc = "stamp"] /\ UNCHANGED <<lastMatched, match, cut>>
      BY <1>5, <2>1 DEF Notify, beacons, matches
    <3>2. /\ run'[k].pc = "stamp" /\ run'[k].cur = run[k].cur
          /\ \A j \in Runs \ {k} : run'[j] = run[j]
      BY <3>1 DEF TypeOK, Run
    <3>. QED  BY <3>1, <3>2 DEF MatchesAreStamped
  <2>2. CASE ~(run[k].cur \subseteq Rows)
    BY <1>3, <1>5, <2>2 DEF Notify, Abort
  <2>. QED  BY <2>1, <2>2
<1>6. ASSUME NEW k \in Runs, Stamp(k) PROVE MatchesAreStamped'
  <2>1. /\ lastMatched' = lastMatched \cup (run[k].cur \cap Rows)
        /\ UNCHANGED <<match, cut>>
        /\ \A j \in Runs \ {k} : run'[j] = run[j]
    BY <1>6 DEF Stamp, matches, TypeOK
  <2>2. \A p \in match : p \subseteq Rows
    BY DEF TypeOK
  <2>. QED  BY <2>1, <2>2 DEF MatchesAreStamped
<1>7. ASSUME NEW k \in Runs, Crash(k) PROVE MatchesAreStamped'
  BY <1>3, <1>7 DEF Crash, Abort
<1>8. ASSUME NEW u \in Users, DeleteAccount(u) PROVE MatchesAreStamped'
  <2>. DEFINE mine == {b \in BeaconIds : owner[b] = u}
  <2>1. /\ lastMatched' = lastMatched \ mine
        /\ match' = {p \in match : p \cap mine = {}}
        /\ UNCHANGED <<run, cut>>
    BY <1>8 DEF DeleteAccount
  <2>. HIDE DEF mine
  <2>. QED  BY <2>1 DEF MatchesAreStamped
<1>9. \/ \E r \in Requests : RequestStep(r)
      \/ \E b \in BeaconIds : Delete(b) \/ Expire(b)
      \/ \E p \in Pairs : Dismiss(p) \/ Age(p)
      \/ \E u, v \in Users : ToggleBlock(u, v)
      \/ UNCHANGED vars
      => UNCHANGED <<lastMatched, match, run, cut>>
  BY DEF RequestStep, CreateGate, CreateInsert, Refused, Delete, Expire, Dismiss, Age, ToggleBlock,
         vars, beacons, matches
<1>. QED
  BY <1>1, <1>2, <1>4, <1>5, <1>6, <1>7, <1>8, <1>9 DEF Next, RunStep, Others

\* For any number of processes: unless a run dies or fails half way, the beacons of a
\* match are closed to edits, or the run that made it is about to close them.
THEOREM MatchesGetStamps == Spec => []MatchesAreStamped
<1>1. Init => MatchesAreStamped
  BY DEF Init, MatchesAreStamped
<1>. QED  BY <1>1, TypeCorrect, StampedStep, PTL DEF Spec

-----------------------------------------------------------------------------
(* What the runs keep off *)

\* What a step changes of the runs, as far as pairs and snapshots go.
LEMMA RunsMove ==
    ASSUME TypeOK, Next, NEW k \in Runs
    PROVE  \/ run'[k].cur \in {run[k].cur, {}} /\ run'[k].todo \subseteq run[k].todo
              /\ run'[k].snap \subseteq run[k].snap
           \/ Start(k) /\ run'[k].cur = {} /\ run'[k].todo = {} /\ run'[k].snap = active \ expired
           \/ LoadBlocks(k) /\ run'[k].cur = run[k].cur /\ run'[k].snap = run[k].snap
              /\ \A p \in run'[k].todo : ~Blocked(p)
           \/ \E p \in Pairs : /\ Visit(k, p) /\ run'[k].cur = p /\ ~Resting(p)
                               /\ run'[k].todo \subseteq run[k].todo /\ run'[k].snap = run[k].snap
<1>. DEFINE Quiet(j) == /\ run'[j].cur \in {run[j].cur, {}} /\ run'[j].todo \subseteq run[j].todo
                        /\ run'[j].snap \subseteq run[j].snap
<1>1. CASE UNCHANGED run
  BY <1>1
<1>2. ASSUME NEW j \in Runs, RunStep(j), j # k PROVE Quiet(k)
  <2>1. run'[k] = run[k]
    BY <1>2 DEF RunStep, Start, LoadBlocks, Visit, Compared, InsertMatch, Notify, Stamp, Finish,
                Crash, Abort, TypeOK
  <2>. QED  BY <2>1
<1>3. ASSUME Compared(k) \/ InsertMatch(k) \/ Notify(k) \/ Stamp(k) \/ Finish(k) \/ Crash(k)
      PROVE  Quiet(k)
  BY <1>3 DEF Compared, InsertMatch, Notify, Stamp, Finish, Crash, Abort, TypeOK, Run, NoRun
<1>4. ASSUME Start(k)
      PROVE  run'[k].cur = {} /\ run'[k].todo = {} /\ run'[k].snap = active \ expired
  BY <1>4 DEF Start, TypeOK, NoRun
<1>5. ASSUME LoadBlocks(k)
      PROVE  /\ run'[k].cur = run[k].cur /\ run'[k].snap = run[k].snap
             /\ \A p \in run'[k].todo : ~Blocked(p)
  BY <1>5 DEF LoadBlocks, TypeOK, Run
<1>6. ASSUME NEW p \in Pairs, Visit(k, p)
      PROVE  /\ run'[k].todo \subseteq run[k].todo /\ run'[k].snap = run[k].snap
             /\ run'[k].cur = IF Resting(p) THEN {} ELSE p
  BY <1>6 DEF Visit, TypeOK, Run
<1>7. (\E r \in Requests : RequestStep(r)) \/ Others => UNCHANGED run
  BY DEF RequestStep, CreateGate, CreateInsert, Refused, Others, Delete, Expire, Dismiss, Age,
         DeleteAccount, ToggleBlock
<1>. HIDE DEF Quiet
<1>8. Quiet(k) \/ UNCHANGED run \/ Start(k) \/ LoadBlocks(k) \/ \E p \in Pairs : Visit(k, p)
  BY <1>2, <1>3, <1>7 DEF Next, RunStep
<1>. QED  BY <1>1, <1>4, <1>5, <1>6, <1>8 DEF Quiet

LEMMA RestingStep ==
    ASSUME TypeOK, Next, NEW p \in Pairs, p \in recent \cup dismissed, Matching(p) = {}
    PROVE  Matching(p)' = {}
<1>. SUFFICES ASSUME NEW k \in Runs, run'[k].cur = p PROVE FALSE
  BY DEF Matching
<1>1. p # {} /\ run[k].cur # p /\ Resting(p)
  BY PairsAreSets DEF Matching, Resting
<1>. QED  BY <1>1, RunsMove

LEMMA BlockedStep ==
    ASSUME TypeOK, Next, NEW p \in Pairs, BlockBetween(p), Heading(p) = {}
    PROVE  Heading(p)' = {}
<1>. SUFFICES ASSUME NEW k \in Runs, p \in run'[k].todo \/ run'[k].cur = p PROVE FALSE
  BY DEF Heading
<1>1. p # {} /\ run[k].cur # p /\ p \notin run[k].todo
  BY PairsAreSets DEF Heading
<1>2. Blocked(p)
  BY DEF BlockBetween, Blocked
<1>3. ASSUME NEW q \in Pairs, Visit(k, q) PROVE q # p
  BY <1>1, <1>3 DEF Visit
<1>. QED  BY <1>1, <1>2, <1>3, RunsMove

LEMMA WithdrawnStep ==
    ASSUME TypeOK, Next, NEW b \in BeaconIds, owner[b] # NoUser, b \notin active
    PROVE  b \notin active' /\ \A k \in Runs : b \in run'[k].snap => b \in run[k].snap
<1>1. b \notin active'
  <2>1. CASE \E r \in Requests : CreateInsert(r)
    BY <2>1 DEF CreateInsert
  <2>2. CASE ~\E r \in Requests : CreateInsert(r)
    <3>1. active' \subseteq active
      BY <2>2 DEF Next, RequestStep, CreateGate, Refused, RunStep, Start, LoadBlocks, Visit,
         Compared, InsertMatch, Notify, Stamp, Finish, Crash, Others, Delete, Expire, Dismiss, Age,
         DeleteAccount, ToggleBlock, beacons
    <3>. QED  BY <3>1
  <2>. QED  BY <2>1, <2>2
<1>2. \A k \in Runs : b \in run'[k].snap => b \in run[k].snap
  BY RunsMove
<1>. QED  BY <1>1, <1>2

\* For any number of processes: no run takes up a pair that rests, was dismissed or is
\* blocked, nor reads a beacon that was taken back, unless it was at it before.
THEOREM RunsAreKeptOff == Spec => RunsKeepOff
<1>1. TypeOK /\ [Next]_vars =>
        [\A p \in Pairs :
            /\ p \in recent' \cup dismissed' /\ p \in recent \cup dismissed /\ Matching(p) = {}
                 => Matching(p)' = {}
            /\ BlockBetween(p) /\ BlockBetween(p)' /\ Heading(p) = {} => Heading(p)' = {}]_vars
  BY RestingStep, BlockedStep
<1>2. TypeOK /\ [Next]_vars =>
        [\A b \in BeaconIds :
            owner[b] # NoUser /\ b \notin active
              => /\ b \notin active'
                 /\ \A k \in Runs : b \in run'[k].snap => b \in run[k].snap]_vars
  BY WithdrawnStep
<1>. QED
  BY <1>1, <1>2, TypeCorrect, PTL DEF Spec, RunsKeepOff, PairsAreLeftAlone, WithdrawnStaysOut

=============================================================================
