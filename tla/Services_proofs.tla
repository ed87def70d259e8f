--------------------------- MODULE Services_proofs ---------------------------
(***************************************************************************)
(* What TLAPS proves of the components that MCInbox and MCAccounts put     *)
(* side by side, for every value of their constants.                       *)
(* Of MCInbox:                                                             *)
(*   - the token bucket of socket/rateLimit.ts implements Spacing.  The    *)
(*     inductive invariant says what a bucket's tokens mean: the time that *)
(*     has passed, up to a second, since a message was last let through;   *)
(*   - a room tells whoever belongs to it, and keeps nobody's feed who no  *)
(*     longer pays for it;                                                 *)
(*   - a clearing request of the bell settles what it was about;           *)
(*   - pages, windows and unread counts leave out nothing that was there   *)
(*     throughout but what is hidden or cut away.                          *)
(* Of MCAccounts:                                                          *)
(*   - an identity at a provider leads to one account, and to none while   *)
(*     it is barred, unless two logins of its met;                         *)
(*   - events of the store, onboardings, votes and reactions that are told *)
(*     or asked more than once count once;                                 *)
(*   - news are pushed to a reader once, and runs that do not overlap keep *)
(*     to the cap of calls and to the quota of a day.                      *)
(* Of MCServer: it is an instance of MCAccounts and of MCPlatform.         *)
(***************************************************************************)
EXTENDS MCInbox, MCServer, Integers, Sequences, FiniteSetTheorems, WellFoundedInduction, TLAPS

-----------------------------------------------------------------------------
(* The rate limiter *)

Inv == TypeOK /\ Earned

\* The initial state has no buckets and no messages.
LEMMA InitInv == Init => Inv
<1>. SUFFICES ASSUME Init PROVE Inv
  OBVIOUS
<1>1. TypeOK
  <2>1. 0 \in 0..MaxTime
    BY ClockAssumption
  <2>. QED  BY <2>1, Zenon DEF Init, TypeOK
<1>2. Earned
  BY DEF Init, Earned
<1>. QED  BY <1>1, <1>2 DEF Inv

\* The clock moves past every refill.
LEMMA TickInv == Inv /\ Tick => Inv'
BY ClockAssumption DEF Inv, TypeOK, Earned, Tick, Bucket, Capped

\* What a bucket has after the refill is what was earned since the last message.
LEMMA RefilledIsEarned ==
    ASSUME Inv, NEW k \in Keys, bucket[k] # Never
    PROVE  /\ bucket[k] \in Bucket
           /\ passed[k] \in 0..MaxTime
           /\ passed[k] <= now
           /\ Refilled(k) = Capped(now - passed[k])
<1>1. bucket[k] \in Bucket /\ passed[k] \in 0..MaxTime
  BY ClockAssumption DEF Inv, TypeOK, Earned
<1>2. /\ passed[k] <= bucket[k].lastRefill /\ bucket[k].lastRefill <= now
      /\ bucket[k].tokens = Capped(bucket[k].lastRefill - passed[k])
  BY DEF Inv, Earned
<1>3. now \in 0..MaxTime
  BY DEF Inv, TypeOK
<1>. QED  BY <1>1, <1>2, <1>3, ClockAssumption DEF Refilled, Capped, Bucket

\* A bucket that is stamped with what was earned keeps the invariant.
LEMMA Restamp ==
    ASSUME Inv, NEW k \in Keys, NEW t \in 0..Second, NEW p \in 0..MaxTime,
           p <= now, t = Capped(now - p),
           bucket' = [bucket EXCEPT ![k] = [tokens |-> t, lastRefill |-> now]],
           passed' = [passed EXCEPT ![k] = p],
           now' = now, answer' \in BOOLEAN
    PROVE  Inv'
<1>. DEFINE b == [tokens |-> t, lastRefill |-> now]
<1>1. now \in 0..MaxTime /\ b \in Bucket /\ b \in [tokens : Int, lastRefill : Int]
  BY ClockAssumption DEF Inv, TypeOK, Bucket
<1>2. b # Never
  BY <1>1, ClockAssumption
<1>3. TypeOK'
  BY <1>1 DEF Inv, TypeOK
<1>4. ASSUME NEW j \in Keys
      PROVE  IF bucket'[j] = Never
             THEN passed'[j] = Never \/ now' - passed'[j] >= Second
             ELSE /\ passed'[j] # Never
                  /\ passed'[j] <= bucket'[j].lastRefill
                  /\ bucket'[j].lastRefill <= now'
                  /\ bucket'[j].tokens = Capped(bucket'[j].lastRefill - passed'[j])
  <2>1. CASE j = k
    <3>1. bucket'[k] = b /\ passed'[k] = p
      BY DEF Inv, TypeOK
    <3>2. p # Never
      BY ClockAssumption
    <3>. QED  BY <2>1, <3>1, <3>2, <1>1, <1>2
  <2>2. CASE j # k
    <3>1. bucket'[j] = bucket[j] /\ passed'[j] = passed[j]
      BY <2>2 DEF Inv, TypeOK
    <3>. QED  BY <3>1 DEF Inv, Earned
  <2>. QED  BY <2>1, <2>2
<1>5. Earned'
  BY <1>4 DEF Earned, Capped
<1>. QED  BY <1>3, <1>5 DEF Inv

\* The first message of a bucket.
LEMMA FirstInv == ASSUME Inv, NEW k \in Keys, First(k) PROVE Inv'
<1>1. /\ bucket' = [bucket EXCEPT ![k] = [tokens |-> 0, lastRefill |-> now]]
      /\ passed' = [passed EXCEPT ![k] = now] /\ now' = now /\ answer' = TRUE
      /\ now \in 0..MaxTime /\ now <= now
  BY DEF First, Inv, TypeOK
<1>2. 0 \in 0..Second /\ Capped(now - now) = 0
  BY <1>1, ClockAssumption DEF Capped
<1>. QED  BY <1>1, <1>2, Restamp

\* A message that passes leaves nothing in the bucket.
LEMMA AllowInv == ASSUME Inv, NEW k \in Keys, Allow(k) PROVE Inv'
<1>1. bucket[k] # Never /\ Refilled(k) = Second
  BY RefilledIsEarned, ClockAssumption DEF Allow, Capped, Inv, TypeOK
<1>2. Refilled(k) - Second = 0 /\ 0 \in 0..Second /\ Capped(now - now) = 0
  BY <1>1, ClockAssumption DEF Capped, Inv, TypeOK
<1>3. bucket' = [bucket EXCEPT ![k] = [tokens |-> 0, lastRefill |-> now]]
  BY <1>2 DEF Allow
<1>4. /\ passed' = [passed EXCEPT ![k] = now] /\ now' = now /\ answer' \in BOOLEAN
      /\ now \in 0..MaxTime /\ now <= now
  BY DEF Allow, Inv, TypeOK
<1>. QED  BY <1>2, <1>3, <1>4, Restamp

\* A refused message leaves what was earned.
LEMMA RefuseInv == ASSUME Inv, NEW k \in Keys, Refuse(k) PROVE Inv'
<1>1. /\ bucket[k] # Never /\ passed[k] \in 0..MaxTime /\ passed[k] <= now
      /\ Refilled(k) = Capped(now - passed[k]) /\ Refilled(k) < Second
  BY RefilledIsEarned DEF Refuse
<1>2. Refilled(k) = now - passed[k] /\ Refilled(k) \in 0..Second
  BY <1>1, ClockAssumption DEF Capped, Inv, TypeOK
<1>3. passed' = [passed EXCEPT ![k] = passed[k]]
  BY DEF Refuse, Inv, TypeOK
<1>4. /\ bucket' = [bucket EXCEPT ![k] = [tokens |-> Refilled(k), lastRefill |-> now]]
      /\ now' = now /\ answer' \in BOOLEAN
  BY DEF Refuse
<1>. QED  BY <1>1, <1>2, <1>3, <1>4, Restamp

\* A bucket that is swept was asked for last more than a second ago.
LEMMA SweepInv == Inv /\ Sweep => Inv'
BY ClockAssumption DEF Inv, TypeOK, Earned, Sweep, IsStale, Bucket, Capped

\* The inductive step.
LEMMA NextInv == Inv /\ [Next]_vars => Inv'
<1>. SUFFICES ASSUME Inv, [Next]_vars PROVE Inv'
  OBVIOUS
<1>1. CASE Tick  BY <1>1, TickInv
<1>2. CASE Sweep  BY <1>2, SweepInv
<1>3. CASE \E k \in Keys : First(k) \/ Allow(k) \/ Refuse(k)
  BY <1>3, FirstInv, AllowInv, RefuseInv
<1>4. CASE UNCHANGED vars
  BY <1>4 DEF Inv, TypeOK, Earned, vars
<1>. QED  BY <1>1, <1>2, <1>3, <1>4 DEF Next

\* Every reachable state is well typed and accounts for its tokens.
THEOREM InvHolds == Spec => []Inv
BY InitInv, NextInv, PTL DEF Spec

\* A question to the bucket is a question to Spacing.
LEMMA AskStep ==
    ASSUME Inv, NEW k \in Keys, First(k) \/ Allow(k) \/ Refuse(k)
    PROVE  Promise!Ask(k)
<1>1. CASE First(k)
  <2>1. Promise!Spaced(k)
    BY <1>1 DEF Inv, Earned, First, Promise!Spaced
  <2>. QED  BY <1>1, <2>1 DEF First, Promise!Ask
<1>2. CASE Allow(k)
  <2>1. Promise!Spaced(k)
    BY <1>2, RefilledIsEarned, ClockAssumption
    DEF Allow, Capped, Promise!Spaced, Inv, TypeOK
  <2>. QED  BY <1>2, <2>1 DEF Allow, Promise!Ask
<1>3. CASE Refuse(k)
  <2>1. ~Promise!Spaced(k)
    BY <1>3, RefilledIsEarned, ClockAssumption
    DEF Refuse, Capped, Promise!Spaced, Inv, TypeOK
  <2>2. Promise!Spaced(k) = FALSE
    BY <2>1 DEF Promise!Spaced
  <2>. QED  BY <1>3, <2>2, Zenon DEF Refuse, Promise!Ask
<1>. QED  BY <1>1, <1>2, <1>3

\* Every step of the bucket is a step of Spacing or changes nothing it sees.
LEMMA StepSimulation == Inv /\ [Next]_vars => [Promise!Next]_(Promise!vars)
<1>. SUFFICES ASSUME Inv, [Next]_vars PROVE [Promise!Next]_(Promise!vars)
  OBVIOUS
<1>1. CASE Tick
  BY <1>1 DEF Tick, Promise!Tick, Promise!Next
<1>2. CASE Sweep
  BY <1>2 DEF Sweep, Promise!vars
<1>3. CASE \E k \in Keys : First(k) \/ Allow(k) \/ Refuse(k)
  BY <1>3, AskStep DEF Promise!Next
<1>4. CASE UNCHANGED vars
  BY <1>4 DEF vars, Promise!vars
<1>. QED  BY <1>1, <1>2, <1>3, <1>4 DEF Next

\* The rate limiter lets a message through exactly when a second has passed since
\* the last one it let through, for every number of users and every sweep age.
THEOREM Refines == Spec => SpacesMessages
<1>1. Init => Promise!Init
  BY DEF Init, Promise!Init
<1>. QED  BY <1>1, StepSimulation, InvHolds, PTL DEF Spec, SpacesMessages, Promise!Spec

-----------------------------------------------------------------------------
(* Rooms: types *)

LEMMA RoomNames ==
    /\ R!NoSocket \in R!Socket /\ R!NoSocket.pc = "off" /\ ~R!NoSocket.nat
    /\ ~R!NoSocket.feed /\ ~R!NoSocket.here /\ ~R!NoSocket.local /\ ~R!NoSocket.view
    /\ R!NoSend \in R!Send /\ R!NoSend.pc = "idle" /\ R!NoSend.via = "globe"
    /\ "idle" \in R!Unsent
BY BoundsAssumption DEF R!NoSocket, R!Socket, R!NoSend, R!Send, R!Time, R!Vias, R!Kinds, R!Unsent

\* The reader's side of R!TypeOK.
ReaderTyped ==
    /\ zone \in BOOLEAN /\ entitled \in BOOLEAN /\ moving \in BOOLEAN /\ loose \in BOOLEAN
    /\ {native, member} \subseteq 0..sent \cup {Never}
    /\ evict \in [Passes -> R!Pass]
    /\ sock \in R!Socket
    /\ sock.pc # "on" => ~sock.feed /\ ~sock.here /\ ~sock.local /\ ~sock.view
    /\ zone \/ (native = Never /\ ~sock.nat)

\* The messages' side, without the rows.
SendsTyped ==
    /\ sent \in R!Time
    /\ send \in [Sends -> R!Send]
    /\ \A s \in Sends : send[s].pc \notin R!Unsent => send[s].msg \in 1..sent
    /\ zone \/ \A s \in Sends : send[s].via = "globe"
    /\ heard \subseteq 1..sent /\ seen \subseteq 1..sent /\ lost \subseteq 1..sent

RoomTyped == ReaderTyped /\ SendsTyped

LEMMA SocketTyped ==
    ASSUME RoomTyped, R!SocketStep
    PROVE  RoomTyped'
<1>1. UNCHANGED <<zone, sent, entitled, native, member, moving, send, rows, heard, seen, lost>>
  BY DEF R!SocketStep, R!Handshake, R!Connect, R!ListRooms, R!Subscribe, R!Disconnect,
         R!GlobeJoin, R!GlobeLeave, R!SetViewing, R!reader, R!fate
<1>0. /\ sock \in R!Socket /\ loose \in BOOLEAN /\ zone \in BOOLEAN /\ entitled \in BOOLEAN
      /\ zone \/ (native = Never /\ ~sock.nat)
      /\ sock.pc # "on" => ~sock.feed /\ ~sock.here /\ ~sock.local /\ ~sock.view
  BY DEF RoomTyped, ReaderTyped
<1>2. /\ sock' \in R!Socket /\ loose' \in BOOLEAN
      /\ sock'.pc # "on" => ~sock'.feed /\ ~sock'.here /\ ~sock'.local /\ ~sock'.view
      /\ zone \/ ~sock'.nat
  <2>1. CASE R!Handshake
    BY <1>0, <2>1 DEF R!Handshake, R!Socket, R!Native
  <2>2. CASE R!Connect
    BY <1>0, <2>2 DEF R!Connect, R!Socket
  <2>3. CASE R!ListRooms
    BY <1>0, <2>3 DEF R!ListRooms, R!Socket, R!Member
  <2>4. CASE R!Subscribe
    <3>. DEFINE feed == sock.row /\ (zone => ~sock.nat /\ sock.ent)
    <3>1. feed \in BOOLEAN
      OBVIOUS
    <3>2. /\ sock' = [sock EXCEPT !.pc = "on", !.feed = feed, !.local = sock.nat]
          /\ loose' = (feed /\ ~R!Backed)
      BY <2>4 DEF R!Subscribe
    <3>. HIDE DEF feed
    <3>. QED  BY <1>0, <3>1, <3>2 DEF R!Socket
  <2>5. CASE R!Disconnect
    BY <1>0, <2>5, RoomNames DEF R!Disconnect
  <2>6. CASE R!GlobeJoin
    BY <1>0, <2>6 DEF R!GlobeJoin, R!Socket
  <2>7. CASE R!GlobeLeave
    BY <1>0, <2>7 DEF R!GlobeLeave, R!Socket
  <2>8. CASE R!SetViewing
    BY <1>0, <2>8 DEF R!SetViewing, R!Socket
  <2>. QED
    BY <2>1, <2>2, <2>3, <2>4, <2>5, <2>6, <2>7, <2>8 DEF R!SocketStep
<1>3. evict' \in [Passes -> R!Pass]
  <2>1. CASE R!Disconnect
    BY <2>1 DEF R!Disconnect, R!Pass, RoomTyped, ReaderTyped
  <2>2. CASE ~R!Disconnect
    <3>1. UNCHANGED evict
      BY <2>2 DEF R!SocketStep, R!Handshake, R!Connect, R!ListRooms, R!Subscribe, R!GlobeJoin,
                  R!GlobeLeave, R!SetViewing, R!reader
    <3>. QED  BY <3>1 DEF RoomTyped, ReaderTyped
  <2>. QED  BY <2>1, <2>2
<1>. QED  BY <1>1, <1>2, <1>3 DEF RoomTyped, ReaderTyped, SendsTyped

LEMMA PassStepTyped ==
    ASSUME RoomTyped, NEW p \in Passes, R!PassStep(p)
    PROVE  RoomTyped'
<1>0. ReaderTyped /\ SendsTyped
  BY DEF RoomTyped
<1>1. UNCHANGED <<zone, sent, send, rows, heard, seen, lost, native, member, moving>>
  BY DEF R!PassStep, R!ChangeTier, R!EvictCall, R!EvictCheck, R!EvictRows, R!EvictFind,
         R!EvictLeave, R!PassFails, R!fate
<1>2. \E stage \in R!Pass : evict' = [evict EXCEPT ![p] = stage]
  BY DEF R!PassStep, R!ChangeTier, R!EvictCall, R!EvictCheck, R!EvictRows, R!EvictFind,
         R!EvictLeave, R!PassFails, R!Proceed, R!Pass
<1>3. entitled' \in BOOLEAN /\ loose' \in BOOLEAN
  BY <1>0 DEF R!PassStep, R!ChangeTier, R!EvictCall, R!EvictCheck, R!EvictRows, R!EvictFind,
              R!EvictLeave, R!PassFails, ReaderTyped
<1>4. UNCHANGED sock \/ sock' = [sock EXCEPT !.feed = FALSE]
  BY DEF R!PassStep, R!ChangeTier, R!EvictCall, R!EvictCheck, R!EvictRows, R!EvictFind,
         R!EvictLeave, R!PassFails
<1>5. /\ sock' \in R!Socket /\ sock'.nat = sock.nat
      /\ sock'.pc # "on" => ~sock'.feed /\ ~sock'.here /\ ~sock'.local /\ ~sock'.view
  BY <1>0, <1>4 DEF ReaderTyped, R!Socket
<1>6. evict' \in [Passes -> R!Pass]
  BY <1>0, <1>2 DEF ReaderTyped
<1>. QED  BY <1>0, <1>1, <1>3, <1>5, <1>6 DEF RoomTyped, ReaderTyped, SendsTyped

LEMMA ReaderStepTyped ==
    ASSUME RoomTyped, R!ReaderStep
    PROVE  RoomTyped'
<1>0. ReaderTyped /\ SendsTyped /\ sent \in Nat
  BY BoundsAssumption DEF RoomTyped, SendsTyped, R!Time
<1>2. CASE R!JoinRoom \/ R!LeaveRoom \/ R!MoveIn \/ R!MoveAway \/ R!KeepZone
  <2>1. UNCHANGED <<zone, sent, send, rows, heard, seen, lost, sock, evict, entitled>>
    BY <1>2 DEF R!JoinRoom, R!LeaveRoom, R!MoveIn, R!MoveAway, R!KeepZone, R!fate
  <2>2. /\ {native', member'} \subseteq 0..sent \cup {Never}
        /\ zone \/ native' = Never
        /\ moving' \in BOOLEAN
    <3>1. native' \in {native, sent, Never} /\ member' \in {member, sent, Never}
      BY <1>2 DEF R!JoinRoom, R!LeaveRoom, R!MoveIn, R!MoveAway, R!KeepZone
    <3>2. zone \/ native' = Never
      BY <1>0, <1>2 DEF R!JoinRoom, R!LeaveRoom, R!MoveIn, R!MoveAway, R!KeepZone, R!Native,
                        ReaderTyped
    <3>3. moving' \in BOOLEAN
      BY <1>0, <1>2 DEF R!JoinRoom, R!LeaveRoom, R!MoveIn, R!MoveAway, R!KeepZone, ReaderTyped
    <3>4. sent \in 0..sent
      BY <1>0
    <3>. QED  BY <1>0, <3>1, <3>2, <3>3, <3>4 DEF ReaderTyped
  <2>3. loose' \in BOOLEAN
    BY <1>0, <1>2 DEF R!JoinRoom, R!LeaveRoom, R!MoveIn, R!MoveAway, R!KeepZone, ReaderTyped
  <2>. QED  BY <1>0, <2>1, <2>2, <2>3 DEF RoomTyped, ReaderTyped, SendsTyped
<1>3. CASE R!Lapse
  <2>1. sock' \in R!Socket /\ sock' = [sock EXCEPT !.ent = FALSE]
    BY <1>0, <1>3 DEF R!Lapse, R!Socket, ReaderTyped
  <2>2. /\ entitled' \in BOOLEAN /\ loose' \in BOOLEAN
        /\ UNCHANGED <<zone, sent, send, rows, heard, seen, lost, native, member, moving, evict>>
    BY <1>0, <1>3 DEF R!Lapse, R!fate, ReaderTyped
  <2>. QED  BY <1>0, <2>1, <2>2 DEF RoomTyped, ReaderTyped, SendsTyped, R!Socket
<1>. QED  BY <1>2, <1>3, PassStepTyped DEF R!ReaderStep

\* What a step of the send in slot s makes of it: it ends, it goes on without a
\* message, or it goes on with the one it has or has just stored.
Continues(s, x) ==
    /\ x \in R!Send /\ send' = [send EXCEPT ![s] = x]
    /\ x.pc \notin R!Unsent => x.msg \in 1..sent'
    /\ zone \/ x.via = "globe"

LEMMA SlotIsTyped ==
    ASSUME RoomTyped, NEW s \in Sends, NEW x, Continues(s, x),
           UNCHANGED <<zone, entitled, native, member, moving, evict, sock, loose>>,
           sent' \in R!Time, sent' >= sent,
           heard' \subseteq 1..sent', seen' \subseteq 1..sent', lost' \subseteq 1..sent'
    PROVE  RoomTyped'
<1>0. ReaderTyped /\ SendsTyped /\ sent \in Nat /\ sent' \in Nat
  BY BoundsAssumption DEF RoomTyped, SendsTyped, R!Time
<1>1. \A i : i \in 1..sent => i \in 1..sent'
  BY <1>0
<1>2. \A i : i \in 0..sent => i \in 0..sent'
  BY <1>0
<1>3. ReaderTyped'
  BY <1>0, <1>2 DEF ReaderTyped
<1>4. SendsTyped'
  BY <1>0, <1>1 DEF SendsTyped, Continues
<1>. QED  BY <1>3, <1>4 DEF RoomTyped

LEMMA SendTyped ==
    ASSUME RoomTyped, NEW s \in Sends, R!SendStep(s)
    PROVE  RoomTyped'
<1>0. /\ SendsTyped /\ zone \in BOOLEAN /\ sent \in Nat /\ send[s] \in R!Send
      /\ zone \/ send[s].via = "globe"
  BY BoundsAssumption DEF RoomTyped, SendsTyped, ReaderTyped, R!Time
<1>1. UNCHANGED <<zone, entitled, native, member, moving, evict, sock, loose>>
  BY DEF R!SendStep, R!GlobeArrive, R!RoomArrive, R!Arrive, R!Gate, R!GlobeMention, R!RoomMention,
         R!Mention, R!GlobeInsert, R!RoomInsert, R!Store, R!GlobeEmit, R!RoomEmit, R!Emit,
         R!LookDirected, R!LookBatch, R!Look, R!RingDirected, R!RingBatch, R!Ring, R!GlobeFan,
         R!RoomFan, R!Fan, R!Fail, R!reader
<1>2. CASE R!GlobeArrive(s) \/ R!RoomArrive(s)
  <2>1. PICK via \in R!Vias, pc \in {"gate", "mention"}, k \in R!Kinds :
          /\ send' = [send EXCEPT ![s] = [R!NoSend EXCEPT !.pc = pc, !.via = via, !.kind = k]]
          /\ UNCHANGED <<sent, heard, seen, lost>>
          /\ zone \/ via = "globe"
    BY <1>2 DEF R!GlobeArrive, R!RoomArrive, R!Arrive, R!fate, R!Vias
  <2>. DEFINE x == [R!NoSend EXCEPT !.pc = pc, !.via = via, !.kind = k]
  <2>2. x \in R!Send /\ x.pc \in R!Unsent /\ x.via = via
    BY <1>0, RoomNames DEF R!Send, R!Unsent
  <2>3. Continues(s, x)
    BY <1>0, <2>1, <2>2 DEF Continues
  <2>. QED  BY <1>0, <1>1, <2>1, <2>3, SlotIsTyped DEF SendsTyped
<1>3. ASSUME R!Done(s), UNCHANGED sent,
             heard' \subseteq 1..sent, seen' \subseteq 1..sent, lost' \subseteq 1..sent
      PROVE  RoomTyped'
  <2>1. Continues(s, R!NoSend)
    BY <1>3, RoomNames DEF Continues, R!Done
  <2>. QED  BY <1>0, <1>1, <1>3, <2>1, SlotIsTyped DEF SendsTyped
<1>4. ASSUME NEW x \in R!Send, send' = [send EXCEPT ![s] = x], x.via = send[s].via,
             x.pc \notin R!Unsent => send[s].pc \notin R!Unsent /\ x.msg = send[s].msg,
             UNCHANGED sent, heard' \subseteq 1..sent, seen' \subseteq 1..sent,
             lost' \subseteq 1..sent
      PROVE  RoomTyped'
  <2>1. Continues(s, x)
    BY <1>0, <1>4 DEF Continues, SendsTyped
  <2>. QED  BY <1>0, <1>1, <1>4, <2>1, SlotIsTyped DEF SendsTyped
<1>5. CASE R!Gate(s)
  <2>1. UNCHANGED <<sent, heard, seen, lost>> /\ (R!Done(s) \/ R!Goto(s, "mention"))
    BY <1>5 DEF R!Gate, R!fate
  <2>2. CASE R!Goto(s, "mention")
    <3>1. [send[s] EXCEPT !.pc = "mention"] \in R!Send
      BY <1>0 DEF R!Send
    <3>. QED  BY <1>0, <1>4, <2>1, <2>2, <3>1 DEF R!Goto, R!Send, R!Unsent, SendsTyped
  <2>. QED  BY <1>0, <1>3, <2>1, <2>2 DEF SendsTyped
<1>6. ASSUME NEW via, NEW belongs, R!Mention(s, via, belongs) PROVE RoomTyped'
  <2>. DEFINE d == send[s].kind = "mention" /\ belongs
              x == [send[s] EXCEPT !.pc = "insert", !.directed = d]
  <2>1. x \in R!Send
    BY <1>0 DEF R!Send
  <2>2. send' = [send EXCEPT ![s] = x] /\ UNCHANGED <<sent, heard, seen, lost>>
    BY <1>0, <1>6 DEF R!Mention, SendsTyped, R!fate
  <2>3. x.pc = "insert" /\ x.via = send[s].via
    BY <1>0 DEF R!Send
  <2>. HIDE DEF x
  <2>. QED  BY <1>0, <1>4, <2>1, <2>2, <2>3 DEF R!Unsent, SendsTyped
<1>7. ASSUME NEW via, R!Store(s, via) PROVE RoomTyped'
  <2>. DEFINE x == [send[s] EXCEPT !.pc = "emit", !.msg = sent + 1]
  <2>1. sent' = sent + 1 /\ sent + 1 \in R!Time /\ UNCHANGED <<heard, seen, lost>>
    BY <1>0, <1>7, BoundsAssumption DEF R!Store, R!Time, R!fate
  <2>2. x \in R!Send /\ x.msg = sent + 1 /\ x.via = send[s].via
    BY <1>0, <2>1 DEF R!Send
  <2>3. send' = [send EXCEPT ![s] = x]
    BY <1>0, <1>7 DEF R!Store, SendsTyped
  <2>. HIDE DEF x
  <2>4. Continues(s, x)
    BY <1>0, <2>1, <2>2, <2>3 DEF Continues
  <2>5. \A i : i \in 1..sent => i \in 1..sent'
    BY <1>0, <2>1
  <2>. QED  BY <1>0, <1>1, <2>1, <2>4, <2>5, SlotIsTyped DEF SendsTyped
<1>8. ASSUME NEW via, NEW listening, R!Emit(s, via, listening) PROVE RoomTyped'
  <2>1. send[s].pc \notin R!Unsent /\ UNCHANGED <<sent, seen, lost>>
    BY <1>8 DEF R!Emit, R!Unsent
  <2>2. heard' \subseteq 1..sent
    BY <1>0, <1>8, <2>1 DEF R!Emit, SendsTyped
  <2>3. CASE R!Done(s)
    BY <1>0, <1>3, <2>1, <2>2, <2>3 DEF SendsTyped
  <2>4. CASE send[s].kind # "voice"
    <3>. DEFINE d == send[s].directed \/ send[s].kind = "reply"
                x == [send[s] EXCEPT !.directed = d, !.pc = IF d THEN "look" ELSE "fan"]
    <3>1. send' = [send EXCEPT ![s] = x]
      BY <1>0, <1>8, <2>4 DEF R!Emit, SendsTyped
    <3>2. x \in R!Send /\ x.via = send[s].via /\ x.msg = send[s].msg
      BY <1>0 DEF R!Send
    <3>. HIDE DEF x
    <3>. QED  BY <1>0, <1>4, <2>1, <2>2, <3>1, <3>2 DEF SendsTyped
  <2>. QED  BY <1>8, <2>3, <2>4 DEF R!Emit
<1>9. ASSUME NEW from \in {"look", "watch"}, NEW next \in {"ring", "batch"}, R!Look(s, from, next)
      PROVE  RoomTyped'
  <2>1. send[s].pc \notin R!Unsent /\ UNCHANGED <<sent, heard, lost>>
    BY <1>9 DEF R!Look, R!Unsent
  <2>2. seen' \subseteq 1..sent
    <3>1. seen' = seen \/ seen' = seen \cup {send[s].msg}
      BY <1>9 DEF R!Look
    <3>2. seen \subseteq 1..sent /\ send[s].msg \in 1..sent
      BY <1>0, <2>1 DEF SendsTyped
    <3>. QED  BY <3>1, <3>2
  <2>3. CASE R!Done(s)
    BY <1>0, <1>3, <2>1, <2>2, <2>3 DEF SendsTyped
  <2>4. CASE R!Goto(s, next)
    <3>. DEFINE x == [send[s] EXCEPT !.pc = next]
    <3>1. x \in R!Send /\ x.via = send[s].via /\ x.msg = send[s].msg
      BY <1>0 DEF R!Send
    <3>2. send' = [send EXCEPT ![s] = x]
      BY <1>0, <2>4 DEF R!Goto, SendsTyped
    <3>. HIDE DEF x
    <3>. QED  BY <1>0, <1>4, <2>1, <2>2, <3>1, <3>2 DEF SendsTyped
  <2>. QED  BY <1>9, <2>3, <2>4 DEF R!Look
<1>10. CASE R!RingDirected(s)
  <2>. DEFINE x == [send[s] EXCEPT !.pc = "fan"]
  <2>1. /\ send[s].pc \notin R!Unsent /\ UNCHANGED <<sent, heard, seen, lost>>
        /\ send' = [send EXCEPT ![s] = x]
    BY <1>10 DEF R!RingDirected, R!Ring, R!Unsent
  <2>2. x \in R!Send /\ x.via = send[s].via /\ x.msg = send[s].msg
    BY <1>0 DEF R!Send
  <2>. HIDE DEF x
  <2>. QED  BY <1>0, <1>4, <2>1, <2>2 DEF SendsTyped
<1>11. CASE R!RingBatch(s)
  BY <1>0, <1>3, <1>11 DEF R!RingBatch, R!Ring, R!Done, SendsTyped
<1>12. ASSUME NEW via, NEW belongs, R!Fan(s, via, belongs) PROVE RoomTyped'
  <2>1. send[s].pc \notin R!Unsent /\ UNCHANGED <<sent, heard, seen, lost>>
    BY <1>12 DEF R!Fan, R!Unsent, R!fate
  <2>2. CASE R!Done(s)
    BY <1>0, <1>3, <2>1, <2>2 DEF SendsTyped
  <2>3. CASE R!Goto(s, "watch")
    <3>. DEFINE x == [send[s] EXCEPT !.pc = "watch"]
    <3>1. x \in R!Send /\ x.via = send[s].via /\ x.msg = send[s].msg
      BY <1>0 DEF R!Send
    <3>2. send' = [send EXCEPT ![s] = x]
      BY <1>0, <2>3 DEF R!Goto, SendsTyped
    <3>. HIDE DEF x
    <3>. QED  BY <1>0, <1>4, <2>1, <3>1, <3>2 DEF SendsTyped
  <2>. QED  BY <1>12, <2>2, <2>3 DEF R!Fan
<1>13. CASE R!Fail(s)
  <2>1. R!Done(s) /\ UNCHANGED <<sent, heard, seen>>
    BY <1>13 DEF R!Fail
  <2>2. lost' \subseteq 1..sent
    BY <1>0, <1>13 DEF R!Fail, SendsTyped
  <2>. QED  BY <1>0, <1>3, <2>1, <2>2 DEF SendsTyped
<1>. QED
  BY <1>2, <1>5, <1>6, <1>7, <1>8, <1>9, <1>10, <1>11, <1>12, <1>13
  DEF R!SendStep, R!GlobeMention, R!RoomMention, R!GlobeInsert, R!RoomInsert, R!GlobeEmit,
      R!RoomEmit, R!LookDirected, R!LookBatch, R!GlobeFan, R!RoomFan

LEMMA RoomTypedStep == RoomTyped /\ [R!Next]_(R!vars) => RoomTyped'
<1>1. RoomTyped /\ UNCHANGED R!vars => RoomTyped'
  BY DEF RoomTyped, ReaderTyped, SendsTyped, R!vars
<1>. QED  BY <1>1, SocketTyped, ReaderStepTyped, SendTyped DEF R!Next

\* A room behaves as Rooms says whatever is in focus.
LEMMA RoomsMove == InboxSpec => R!Init /\ [][R!Next]_(R!vars)
<1>1. InboxInit => R!Init
  BY DEF InboxInit
<1>2. [InboxNext]_inboxVars => [R!Next]_(R!vars)
  BY DEF InboxNext, inboxVars, rvars, R!vars, R!Next
<1>. QED  BY <1>1, <1>2, PTL DEF InboxSpec

LEMMA RoomTypedInit == R!Init => RoomTyped
<1>. SUFFICES ASSUME R!Init PROVE RoomTyped
  OBVIOUS
<1>1. /\ zone \in BOOLEAN /\ entitled \in BOOLEAN /\ sent = 0 /\ moving = FALSE /\ loose = FALSE
      /\ member \in {0, Never} /\ sock = R!NoSocket
      /\ evict = [p \in Passes |-> "idle"]
      /\ heard = {} /\ seen = {} /\ lost = {}
      /\ send = [s \in Sends |-> R!NoSend]
  BY DEF R!Init
<1>2. native \in {0, Never} /\ (zone \/ native = Never)
  BY DEF R!Init
<1>3. ReaderTyped
  <2>1. moving \in BOOLEAN /\ loose \in BOOLEAN
    BY <1>1
  <2>2. {native, member} \subseteq 0..sent \cup {Never}
    <3>1. 0 \in 0..sent
      BY <1>1
    <3>. QED  BY <1>1, <1>2, <3>1
  <2>3. /\ sock \in R!Socket /\ ~sock.nat
        /\ sock.pc # "on" => ~sock.feed /\ ~sock.here /\ ~sock.local /\ ~sock.view
    BY <1>1, RoomNames
  <2>4. evict \in [Passes -> R!Pass]
    BY <1>1 DEF R!Pass
  <2>5. zone \/ (native = Never /\ ~sock.nat)
    BY <1>2, <2>3
  <2>6. zone \in BOOLEAN /\ entitled \in BOOLEAN
    BY <1>1
  <2>. QED  BY <2>1, <2>2, <2>3, <2>4, <2>5, <2>6, Zenon DEF ReaderTyped
<1>4. SendsTyped
  BY <1>1, RoomNames, BoundsAssumption DEF SendsTyped, R!Time
<1>. QED  BY <1>3, <1>4 DEF RoomTyped

-----------------------------------------------------------------------------
(* Rooms: the feed is paid for *)

Passing == \E p \in Passes : evict[p] # "idle"

\* Unless it lost its backing, the reader of a feed has a row, and the tier or a pass
\* that is still to come.
Paid ==
    sock.feed /\ ~loose =>
      /\ R!Member
      /\ zone /\ ~entitled => Passing

\* A pass ends without effect only where there is nothing for it to take.
LEMMA PassPays ==
    ASSUME RoomTyped, Paid, NEW p \in Passes, R!PassStep(p)
    PROVE  Paid'
<1>0. /\ sock \in R!Socket /\ entitled \in BOOLEAN /\ zone \in BOOLEAN /\ loose \in BOOLEAN
      /\ evict \in [Passes -> R!Pass] /\ (sock.pc # "on" => ~sock.feed)
  BY DEF RoomTyped, ReaderTyped
<1>1. \A stage : evict' = [evict EXCEPT ![p] = stage] /\ stage # "idle" => Passing'
  BY <1>0 DEF Passing
<1>2. CASE R!ChangeTier(p)
  <2>1. Passing'
    BY <1>1, <1>2 DEF R!ChangeTier
  <2>. QED  BY <1>2, <2>1 DEF R!ChangeTier, Paid, R!Member
<1>3. CASE R!EvictCall(p)
  <2>1. Passing'
    BY <1>1, <1>3 DEF R!EvictCall, R!Proceed
  <2>. QED  BY <1>3, <2>1 DEF R!EvictCall, Paid, R!Member
<1>4. CASE R!EvictCheck(p)
  <2>1. UNCHANGED <<sock, entitled, member, zone>> /\ loose' = (loose \/ (sock.feed /\ R!Native))
    BY <1>4 DEF R!EvictCheck
  <2>2. entitled \/ ~zone \/ R!Native \/ Passing'
    BY <1>1, <1>4 DEF R!EvictCheck, R!Proceed
  <2>. QED  BY <2>1, <2>2 DEF Paid, R!Member
<1>5. CASE R!EvictRows(p)
  <2>1. R!Member => Passing'
    BY <1>1, <1>5 DEF R!EvictRows, R!Proceed
  <2>. QED  BY <1>5, <2>1 DEF R!EvictRows, Paid, R!Member
<1>6. CASE R!EvictFind(p)
  <2>1. sock.feed => Passing'
    BY <1>0, <1>1, <1>6 DEF R!EvictFind, R!Proceed
  <2>. QED  BY <1>6, <2>1 DEF R!EvictFind, Paid, R!Member
<1>7. CASE R!EvictLeave(p)
  <2>1. ~sock'.feed
    BY <1>0, <1>7 DEF R!EvictLeave, R!Socket
  <2>. QED  BY <2>1 DEF Paid
<1>8. CASE R!PassFails(p)
  <2>1. /\ UNCHANGED <<sock, entitled, member, zone>>
        /\ evict' = [evict EXCEPT ![p] = "idle"]
        /\ loose' = (loose \/ (sock.feed /\ ~entitled
                                  /\ \A q \in Passes \ {p} : evict[q] = "idle"))
    BY <1>8 DEF R!PassFails, R!Proceed
  <2>2. (\A q \in Passes \ {p} : evict[q] = "idle") \/ Passing'
    BY <1>0, <2>1 DEF Passing
  <2>. QED  BY <2>1, <2>2 DEF Paid, R!Member
<1>. QED  BY <1>2, <1>3, <1>4, <1>5, <1>6, <1>7, <1>8 DEF R!PassStep

LEMMA PaidStep == RoomTyped /\ Paid /\ [R!Next]_(R!vars) => Paid'
<1>. SUFFICES ASSUME RoomTyped, Paid, [R!Next]_(R!vars) PROVE Paid'
  OBVIOUS
<1>0. sock \in R!Socket /\ entitled \in BOOLEAN /\ zone \in BOOLEAN /\ loose \in BOOLEAN
  BY DEF RoomTyped, ReaderTyped
<1>1. CASE R!Handshake \/ R!Connect \/ R!ListRooms \/ R!GlobeLeave \/ R!SetViewing
  <2>1. UNCHANGED <<member, entitled, evict, zone, loose>>
    BY <1>1 DEF R!Handshake, R!Connect, R!ListRooms, R!GlobeLeave, R!SetViewing, R!reader
  <2>2. sock'.feed = sock.feed
    BY <1>0, <1>1 DEF R!Handshake, R!Connect, R!ListRooms, R!GlobeLeave, R!SetViewing, R!Socket
  <2>. QED  BY <2>1, <2>2 DEF Paid, Passing, R!Member
<1>2. CASE R!Subscribe
  <2>. DEFINE feed == sock.row /\ (zone => ~sock.nat /\ sock.ent)
  <2>1. /\ sock' = [sock EXCEPT !.pc = "on", !.feed = feed, !.local = sock.nat]
        /\ loose' = (feed /\ ~R!Backed)
        /\ UNCHANGED <<member, entitled, evict, zone>>
    BY <1>2 DEF R!Subscribe, R!reader
  <2>2. sock'.feed = feed
    BY <1>0, <2>1 DEF R!Socket
  <2>. HIDE DEF feed
  <2>. QED  BY <2>1, <2>2 DEF Paid, Passing, R!Member, R!Backed
<1>3. CASE R!Disconnect
  BY <1>3, RoomNames DEF R!Disconnect, Paid
<1>4. CASE R!GlobeJoin
  BY <1>4 DEF R!GlobeJoin, R!reader, Paid, Passing, R!Member, R!Backed
<1>5. CASE R!JoinRoom \/ R!LeaveRoom \/ R!MoveIn \/ R!MoveAway \/ R!KeepZone
  <2>1. UNCHANGED <<sock, entitled, evict, zone>>
    BY <1>5 DEF R!JoinRoom, R!LeaveRoom, R!MoveIn, R!MoveAway, R!KeepZone
  <2>2. R!LeaveRoom => loose' = (loose \/ sock.feed)
    BY DEF R!LeaveRoom
  <2>3. ~R!LeaveRoom => loose' = loose /\ (R!Member => member' = member)
    BY <1>5 DEF R!JoinRoom, R!MoveIn, R!MoveAway, R!KeepZone
  <2>. QED  BY <2>1, <2>2, <2>3 DEF Paid, Passing, R!Member
<1>6. CASE \E p \in Passes : R!PassStep(p)
  BY <1>6, PassPays
<1>7. CASE R!Lapse
  <2>1. sock'.feed = sock.feed /\ loose' = (loose \/ sock.feed)
    BY <1>0, <1>7 DEF R!Lapse, R!Socket
  <2>. QED  BY <2>1 DEF Paid
<1>11. ASSUME NEW s \in Sends, R!SendStep(s) PROVE Paid'
  <2>1. UNCHANGED <<sock, entitled, member, evict, zone, loose>>
    BY <1>11 DEF R!SendStep, R!GlobeArrive, R!RoomArrive, R!Arrive, R!Gate, R!GlobeMention,
         R!RoomMention, R!Mention, R!GlobeInsert, R!RoomInsert, R!Store, R!GlobeEmit, R!RoomEmit,
         R!Emit, R!LookDirected, R!LookBatch, R!Look, R!RingDirected, R!RingBatch, R!Ring,
         R!GlobeFan, R!RoomFan, R!Fan, R!Fail, R!reader
  <2>. QED  BY <2>1 DEF Paid, Passing, R!Member
<1>12. CASE UNCHANGED R!vars
  BY <1>12 DEF R!vars, Paid, Passing, R!Member
<1>. QED
  BY <1>1, <1>2, <1>3, <1>4, <1>5, <1>6, <1>7, <1>11, <1>12
  DEF R!Next, R!SocketStep, R!ReaderStep

\* For any number of passes that overlap and fail: whoever joined a foreign zone with
\* row and tier keeps its feed without the tier only while a pass is still to come, or
\* if the feed lost its backing in one of the ways loose records.
THEOREM FeedsArePaidFor == InboxSpec => []FeedIsPaidFor
<1>1. R!Init => RoomTyped /\ Paid
  <2>1. R!Init => sock = R!NoSocket
    BY DEF R!Init
  <2>. QED  BY <2>1, RoomTypedInit, RoomNames DEF Paid
<1>2. Paid => FeedIsPaidFor
  BY DEF Paid, Passing, FeedIsPaidFor, R!FeedIsPaidFor
<1>. QED  BY <1>1, <1>2, RoomsMove, RoomTypedStep, PaidStep, PTL

-----------------------------------------------------------------------------
(* Rooms: members are told *)

Live(s) == send[s].pc \notin R!Unsent

\* Where the send of a message is, and whether it has rung.
Rung(x, given) ==
    /\ x.pc \in {"look", "ring"} => x.directed
    /\ x.pc \in {"watch", "batch"} => ~x.directed
    /\ given[x.msg] = IF x.pc = "fan" /\ x.directed THEN 1 ELSE 0

\* Every message is the message of one send and has rung at most once, and not yet
\* where its send still may.
RungOnce ==
    /\ rows \in [1..RoomMessages -> {0, 1}]
    /\ \A m \in 1..RoomMessages : m > sent => rows[m] = 0
    /\ \A s, t \in Sends : s # t /\ Live(s) /\ Live(t) => send[s].msg # send[t].msg
    /\ \A s \in Sends : Live(s) => Rung(send[s], rows)

\* A send goes on with its message, or ends, and nothing rings.
LEMMA QuietSend ==
    ASSUME RoomTyped, RungOnce, NEW s \in Sends, NEW x, send' = [send EXCEPT ![s] = x],
           UNCHANGED <<sent, rows>>,
           x.pc \notin R!Unsent => Live(s) /\ x.msg = send[s].msg /\ Rung(x, rows)
    PROVE  RungOnce'
<1>1. \A t \in Sends : send'[t] = IF t = s THEN x ELSE send[t]
  BY DEF RoomTyped, SendsTyped
<1>2. \A t \in Sends : Live(t)' => Live(t) /\ send'[t].msg = send[t].msg
  BY <1>1 DEF Live
<1>3. \A t \in Sends : Live(t)' => Rung(send'[t], rows)
  BY <1>1 DEF Live, RungOnce
<1>4. \A t, u \in Sends : t # u /\ Live(t)' /\ Live(u)' => send'[t].msg # send'[u].msg
  BY <1>2 DEF RungOnce
<1>. QED  BY <1>3, <1>4 DEF RungOnce

\* A send rings for the message it has.
LEMMA RingingSend ==
    ASSUME RoomTyped, RungOnce, NEW s \in Sends, NEW x, send' = [send EXCEPT ![s] = x],
           Live(s), send[s].pc # "fan", UNCHANGED sent,
           rows' = [rows EXCEPT ![send[s].msg] = @ + 1],
           x.pc \notin R!Unsent => x.pc = "fan" /\ x.directed /\ x.msg = send[s].msg
    PROVE  RungOnce' /\ rows'[send[s].msg] = 1
<1>0. /\ sent \in R!Time /\ send \in [Sends -> R!Send]
      /\ \A t \in Sends : Live(t) => send[t].msg \in 1..sent
  BY DEF RoomTyped, SendsTyped, Live
<1>1. send[s].msg \in 1..RoomMessages /\ send[s].msg \in 1..sent /\ rows[send[s].msg] = 0
  BY <1>0, BoundsAssumption DEF RungOnce, Rung, R!Time
<1>2. /\ rows' \in [1..RoomMessages -> {0, 1}] /\ rows'[send[s].msg] = 1
      /\ \A m \in 1..RoomMessages : m # send[s].msg => rows'[m] = rows[m]
  BY <1>1 DEF RungOnce
<1>3. \A t \in Sends : send'[t] = IF t = s THEN x ELSE send[t]
  BY <1>0
<1>4. \A t \in Sends : Live(t)' => Live(t) /\ send'[t].msg = send[t].msg
  BY <1>3 DEF Live
<1>5. \A t, u \in Sends : t # u /\ Live(t)' /\ Live(u)' => send'[t].msg # send'[u].msg
  BY <1>4 DEF RungOnce
<1>6. ASSUME NEW t \in Sends, Live(t)' PROVE Rung(send'[t], rows')
  <2>1. CASE t = s
    BY <1>2, <1>3, <1>6, <2>1 DEF Live, Rung
  <2>2. CASE t # s
    <3>1. send[t].msg \in 1..RoomMessages /\ send[t].msg # send[s].msg /\ Live(t)
      BY <1>0, <1>4, <1>6, <2>2, BoundsAssumption DEF RungOnce, R!Time
    <3>. QED  BY <1>2, <1>3, <2>2, <3>1 DEF RungOnce, Rung
  <2>. QED  BY <2>1, <2>2
<1>7. \A m \in 1..RoomMessages : m > sent' => rows'[m] = 0
  BY <1>0, <1>1, <1>2, BoundsAssumption DEF RungOnce, R!Time
<1>. QED  BY <1>2, <1>5, <1>6, <1>7 DEF RungOnce

\* The row of a fresh message.
LEMMA StoringSend ==
    ASSUME RoomTyped, RungOnce, NEW s \in Sends, NEW via, R!Store(s, via)
    PROVE  RungOnce'
<1>. DEFINE x == [send[s] EXCEPT !.pc = "emit", !.msg = sent + 1]
<1>0. /\ sent \in Nat /\ send \in [Sends -> R!Send]
      /\ \A t \in Sends : Live(t) => send[t].msg \in 1..sent
  BY BoundsAssumption DEF RoomTyped, SendsTyped, Live, R!Time
<1>1. sent' = sent + 1 /\ sent + 1 \in 1..RoomMessages /\ UNCHANGED rows
  BY <1>0, BoundsAssumption DEF R!Store, R!fate
<1>2. send' = [send EXCEPT ![s] = x] /\ x.pc = "emit" /\ x.msg = sent + 1
  BY <1>0 DEF R!Store, R!Send
<1>. HIDE DEF x
<1>3. \A t \in Sends : send'[t] = IF t = s THEN x ELSE send[t]
  BY <1>0, <1>2
<1>4. \A t \in Sends \ {s} : Live(t)' => Live(t) /\ send'[t] = send[t] /\ send[t].msg # sent + 1
  BY <1>0, <1>3 DEF Live
<1>5. ASSUME NEW t \in Sends, Live(t)' PROVE Rung(send'[t], rows)
  <2>1. CASE t = s
    BY <1>0, <1>1, <1>2, <1>3, <2>1 DEF Rung, RungOnce
  <2>2. CASE t # s
    BY <1>4, <1>5, <2>2 DEF RungOnce
  <2>. QED  BY <2>1, <2>2
<1>6. \A t, u \in Sends : t # u /\ Live(t)' /\ Live(u)' => send'[t].msg # send'[u].msg
  <2>1. \A t \in Sends : Live(t)' => send'[t].msg = IF t = s THEN sent + 1 ELSE send[t].msg
    BY <1>2, <1>3
  <2>. QED  BY <1>4, <2>1 DEF RungOnce
<1>7. \A m \in 1..RoomMessages : m > sent' => rows'[m] = 0
  BY <1>0, <1>1 DEF RungOnce
<1>. QED  BY <1>1, <1>5, <1>6, <1>7 DEF RungOnce

\* What a send that ends without being broken off has done.
Told(s) ==
    Live(s) /\ send'[s].pc = "idle" =>
      \/ rows'[send[s].msg] = 1
      \/ send[s].msg \in seen' \cup lost'
      \/ send[s].kind = "voice"
      \/ (IF send[s].via = "globe" THEN member ELSE native) = Never

LEMMA SendTells ==
    ASSUME RoomTyped, RungOnce, NEW s \in Sends, R!SendStep(s)
    PROVE  /\ RungOnce' /\ Told(s)
           /\ \A t \in Sends \ {s} : send'[t] = send[t]
<1>0. /\ send \in [Sends -> R!Send] /\ send[s] \in R!Send /\ R!NoSend.pc = "idle"
      /\ "idle" \in R!Unsent
  BY RoomNames DEF RoomTyped, SendsTyped
<1>1. \A x : send' = [send EXCEPT ![s] = x] =>
        send'[s] = x /\ \A t \in Sends \ {s} : send'[t] = send[t]
  BY <1>0
<1>2. ASSUME R!Done(s), UNCHANGED <<sent, rows>>, Told(s)
      PROVE  RungOnce' /\ Told(s) /\ \A t \in Sends \ {s} : send'[t] = send[t]
  BY <1>0, <1>1, <1>2, QuietSend DEF R!Done
<1>3. ASSUME NEW x \in R!Send, send' = [send EXCEPT ![s] = x], x.pc # "idle",
             UNCHANGED <<sent, rows>>,
             x.pc \notin R!Unsent => Live(s) /\ x.msg = send[s].msg /\ Rung(x, rows)
      PROVE  RungOnce' /\ Told(s) /\ \A t \in Sends \ {s} : send'[t] = send[t]
  BY <1>1, <1>3, QuietSend DEF Told
<1>4. CASE R!GlobeArrive(s) \/ R!RoomArrive(s)
  <2>1. PICK via \in R!Vias, pc \in {"gate", "mention"}, k \in R!Kinds :
          /\ send' = [send EXCEPT ![s] = [R!NoSend EXCEPT !.pc = pc, !.via = via, !.kind = k]]
          /\ UNCHANGED <<sent, rows>>
    BY <1>4 DEF R!GlobeArrive, R!RoomArrive, R!Arrive, R!fate, R!Vias
  <2>. DEFINE x == [R!NoSend EXCEPT !.pc = pc, !.via = via, !.kind = k]
  <2>2. x \in R!Send /\ x.pc \in R!Unsent /\ x.pc # "idle"
    BY <1>0, RoomNames DEF R!Send, R!Unsent
  <2>. HIDE DEF x
  <2>. QED  BY <1>3, <2>1, <2>2 DEF x
<1>5. CASE R!Gate(s)
  <2>1. /\ UNCHANGED <<sent, rows>> /\ (R!Done(s) \/ R!Goto(s, "mention")) /\ ~Live(s)
    BY <1>5 DEF R!Gate, R!fate, Live, R!Unsent
  <2>2. CASE R!Done(s)
    BY <1>2, <2>1, <2>2 DEF Told
  <2>3. CASE R!Goto(s, "mention")
    <3>. DEFINE x == [send[s] EXCEPT !.pc = "mention"]
    <3>1. x \in R!Send /\ x.pc = "mention"
      BY <1>0 DEF R!Send
    <3>2. send' = [send EXCEPT ![s] = x]
      BY <1>0, <2>3 DEF R!Goto
    <3>. HIDE DEF x
    <3>. QED  BY <1>3, <2>1, <3>1, <3>2 DEF R!Unsent
  <2>. QED  BY <2>1, <2>2, <2>3
<1>6. ASSUME NEW via, NEW belongs, R!Mention(s, via, belongs)
      PROVE  RungOnce' /\ Told(s) /\ \A t \in Sends \ {s} : send'[t] = send[t]
  <2>. DEFINE d == send[s].kind = "mention" /\ belongs
              x == [send[s] EXCEPT !.pc = "insert", !.directed = d]
  <2>1. x \in R!Send /\ x.pc = "insert"
    BY <1>0 DEF R!Send
  <2>2. send' = [send EXCEPT ![s] = x] /\ UNCHANGED <<sent, rows>>
    BY <1>0, <1>6 DEF R!Mention, R!fate
  <2>. HIDE DEF x
  <2>. QED  BY <1>3, <2>1, <2>2 DEF R!Unsent
<1>7. ASSUME NEW via, R!Store(s, via)
      PROVE  RungOnce' /\ Told(s) /\ \A t \in Sends \ {s} : send'[t] = send[t]
  <2>. DEFINE x == [send[s] EXCEPT !.pc = "emit", !.msg = sent + 1]
  <2>1. send' = [send EXCEPT ![s] = x] /\ ~Live(s)
    BY <1>0, <1>7 DEF R!Store, Live, R!Unsent
  <2>. HIDE DEF x
  <2>. QED  BY <1>1, <1>7, <2>1, StoringSend DEF Told
<1>8. ASSUME NEW via, NEW listening, R!Emit(s, via, listening)
      PROVE  RungOnce' /\ Told(s) /\ \A t \in Sends \ {s} : send'[t] = send[t]
  <2>1. Live(s) /\ send[s].pc = "emit" /\ UNCHANGED <<sent, rows>>
    BY <1>8 DEF R!Emit, R!Unsent, Live
  <2>2. CASE send[s].kind = "voice"
    BY <1>2, <1>8, <2>1, <2>2 DEF R!Emit, Told
  <2>3. CASE send[s].kind # "voice"
    <3>. DEFINE d == send[s].directed \/ send[s].kind = "reply"
                x == [send[s] EXCEPT !.directed = d, !.pc = IF d THEN "look" ELSE "fan"]
    <3>1. send' = [send EXCEPT ![s] = x]
      BY <1>0, <1>8, <2>3 DEF R!Emit
    <3>2. x \in R!Send /\ x.msg = send[s].msg /\ x.directed = d
          /\ x.pc = IF d THEN "look" ELSE "fan"
      BY <1>0 DEF R!Send
    <3>3. rows[send[s].msg] = 0
      BY <2>1 DEF RungOnce, Rung
    <3>. HIDE DEF x, d
    <3>4. Rung(x, rows) /\ x.pc # "idle"
      BY <3>2, <3>3 DEF Rung
    <3>. QED  BY <1>3, <2>1, <3>1, <3>2, <3>4
  <2>. QED  BY <2>2, <2>3
<1>9. ASSUME R!LookDirected(s) \/ R!LookBatch(s)
      PROVE  RungOnce' /\ Told(s) /\ \A t \in Sends \ {s} : send'[t] = send[t]
  <2>1. PICK from \in {"look", "watch"}, next \in {"ring", "batch"} :
          R!Look(s, from, next) /\ (from = "look" <=> next = "ring")
    BY <1>9 DEF R!LookDirected, R!LookBatch
  <2>2. Live(s) /\ send[s].pc = from /\ UNCHANGED <<sent, rows>>
    BY <2>1 DEF R!Look, R!Unsent, Live
  <2>3. CASE sock.view
    BY <1>2, <2>1, <2>2, <2>3 DEF R!Look, Told
  <2>4. CASE ~sock.view
    <3>. DEFINE x == [send[s] EXCEPT !.pc = next]
    <3>1. x \in R!Send /\ x.msg = send[s].msg /\ x.pc = next /\ x.directed = send[s].directed
      BY <1>0 DEF R!Send
    <3>2. send' = [send EXCEPT ![s] = x]
      BY <1>0, <2>1, <2>4 DEF R!Goto, R!Look
    <3>. HIDE DEF x
    <3>3. Rung(x, rows) /\ x.pc # "idle"
      BY <2>1, <2>2, <3>1 DEF RungOnce, Rung
    <3>. QED  BY <1>3, <2>2, <3>1, <3>2, <3>3
  <2>. QED  BY <2>3, <2>4
<1>10. CASE R!RingDirected(s)
  <2>. DEFINE x == [send[s] EXCEPT !.pc = "fan"]
  <2>1. /\ send[s].pc = "ring" /\ Live(s) /\ UNCHANGED sent
        /\ rows' = [rows EXCEPT ![send[s].msg] = @ + 1]
        /\ send' = [send EXCEPT ![s] = x]
    BY <1>10 DEF R!RingDirected, R!Ring, R!Unsent, Live
  <2>2. x.pc = "fan" /\ x.msg = send[s].msg /\ x.directed = send[s].directed
    BY <1>0 DEF R!Send
  <2>3. send[s].directed
    BY <2>1 DEF RungOnce, Rung
  <2>. HIDE DEF x
  <2>. QED  BY <1>1, <2>1, <2>2, <2>3, RingingSend DEF Told
<1>11. CASE R!RingBatch(s)
  <2>1. /\ send[s].pc = "batch" /\ Live(s) /\ UNCHANGED sent
        /\ rows' = [rows EXCEPT ![send[s].msg] = @ + 1]
        /\ send' = [send EXCEPT ![s] = R!NoSend]
    BY <1>11 DEF R!RingBatch, R!Ring, R!Unsent, Live
  <2>. QED  BY <1>0, <1>1, <2>1, RingingSend DEF Told
<1>12. ASSUME R!GlobeFan(s) \/ R!RoomFan(s)
       PROVE  RungOnce' /\ Told(s) /\ \A t \in Sends \ {s} : send'[t] = send[t]
  <2>. DEFINE since == IF send[s].via = "globe" THEN member ELSE native
              belongs == since # Never
  <2>1. R!Fan(s, send[s].via, belongs)
    BY <1>12 DEF R!GlobeFan, R!RoomFan, R!Fan, R!Member, R!Native
  <2>. HIDE DEF since
  <2>2. Live(s) /\ send[s].pc = "fan" /\ UNCHANGED <<sent, rows>>
    BY <2>1 DEF R!Fan, R!Unsent, Live, R!fate
  <2>3. CASE belongs /\ ~send[s].directed
    <3>. DEFINE x == [send[s] EXCEPT !.pc = "watch"]
    <3>1. x \in R!Send /\ x.msg = send[s].msg /\ x.pc = "watch" /\ x.directed = send[s].directed
      BY <1>0 DEF R!Send
    <3>2. send' = [send EXCEPT ![s] = x]
      BY <1>0, <2>1, <2>3 DEF R!Goto, R!Fan
    <3>. HIDE DEF x
    <3>3. Rung(x, rows) /\ x.pc # "idle"
      BY <2>2, <2>3, <3>1 DEF RungOnce, Rung
    <3>. QED  BY <1>3, <2>2, <3>1, <3>2, <3>3
  <2>4. CASE ~(belongs /\ ~send[s].directed)
    <3>1. R!Done(s)
      BY <2>1, <2>4 DEF R!Fan
    <3>2. Told(s)
      BY <2>2, <2>4 DEF Told, RungOnce, Rung, since
    <3>. QED  BY <1>2, <2>2, <3>1, <3>2
  <2>. QED  BY <2>3, <2>4
<1>13. CASE R!Fail(s)
  <2>1. R!Done(s) /\ UNCHANGED <<sent, rows>>
    BY <1>13 DEF R!Fail
  <2>2. Told(s)
    BY <1>13 DEF R!Fail, Told, Live
  <2>. QED  BY <1>2, <2>1, <2>2
<1>. QED
  BY <1>4, <1>5, <1>6, <1>7, <1>8, <1>9, <1>10, <1>11, <1>12, <1>13
  DEF R!SendStep, R!GlobeMention, R!RoomMention, R!GlobeInsert, R!RoomInsert, R!GlobeEmit,
      R!RoomEmit

\* The socket and the reader leave the sends alone.
LEMMA OthersLeaveSends ==
    ASSUME R!SocketStep \/ R!ReaderStep \/ UNCHANGED R!vars
    PROVE  UNCHANGED <<sent, send, rows>>
BY DEF R!SocketStep, R!Handshake, R!Connect, R!ListRooms, R!Subscribe, R!Disconnect,
       R!GlobeJoin, R!GlobeLeave, R!SetViewing, R!ReaderStep, R!JoinRoom, R!LeaveRoom, R!MoveIn,
       R!MoveAway, R!KeepZone, R!Lapse, R!PassStep, R!ChangeTier, R!EvictCall, R!EvictCheck,
       R!EvictRows, R!EvictFind, R!EvictLeave, R!PassFails, R!fate, R!vars

LEMMA RungOnceStep == RoomTyped /\ RungOnce /\ [R!Next]_(R!vars) => RungOnce'
<1>1. RungOnce /\ UNCHANGED <<sent, send, rows>> => RungOnce'
  BY DEF RungOnce, Live
<1>. QED  BY <1>1, OthersLeaveSends, SendTells DEF R!Next

LEMMA RungOnceInit == R!Init => RungOnce
<1>1. R!Init => /\ rows = [m \in 1..RoomMessages |-> 0]
                /\ send = [s \in Sends |-> R!NoSend]
  BY DEF R!Init
<1>. QED  BY <1>1, RoomNames DEF RungOnce, Live

\* For any number of sends and messages: whoever belongs to the room is told of a
\* message once, or was looking, unless its send was broken off or is a voice.
THEOREM MembersHear == InboxSpec => MembersAreTold
<1>1. R!Init => RoomTyped /\ RungOnce
  BY RoomTypedInit, RungOnceInit
<1>2. RoomTyped /\ RungOnce /\ [R!Next]_(R!vars) =>
        [\A s \in Sends :
           LET m == send[s].msg
               since == IF send[s].via = "globe" THEN member ELSE native
           IN (/\ send[s].pc \notin R!Unsent /\ send'[s].pc = "idle" /\ m \notin lost'
               /\ send[s].kind # "voice" /\ since # Never /\ since < m)
              => rows'[m] = 1 \/ m \in seen']_(R!vars)
  <2>. SUFFICES ASSUME RoomTyped, RungOnce, [R!Next]_(R!vars), NEW s \in Sends,
                       Live(s), send'[s].pc = "idle", send[s].msg \notin lost',
                       send[s].kind # "voice",
                       (IF send[s].via = "globe" THEN member ELSE native) # Never
                PROVE  rows'[send[s].msg] = 1 \/ send[s].msg \in seen'
    BY DEF Live
  <2>1. CASE R!SendStep(s)
    BY <2>1, SendTells DEF Told
  <2>2. ASSUME ~R!SendStep(s) PROVE FALSE
    <3>1. send'[s] = send[s]
      BY <2>2, OthersLeaveSends, SendTells DEF R!Next
    <3>. QED  BY <3>1, RoomNames DEF Live
  <2>. QED  BY <2>1, <2>2
<1>. QED
  BY <1>1, <1>2, RoomsMove, RoomTypedStep, RungOnceStep, PTL DEF MembersAreTold, R!MembersAreTold

-----------------------------------------------------------------------------
(* The bell: a request settles what it was about *)

\* What a clearing request x has come to, with the messages p and the unread rows u:
\* the rows it is about are of its tab or conversation, and once it has passed them
\* none of them is unread.
Kept(x, p, u) ==
    /\ x.pc = "group" => x.tab = "context"
    /\ x.pc = "cross" => x.tab \in B!Stored
    /\ x.pc = "rows" => x.tab \in B!Stored \cup {"groups"}
    /\ x.tab = "context" /\ x.pc \in {"group", "advance"} =>
         \A m \in x.was \cup x.took : p[m].chat = x.chat
    /\ x.pc = "group" => \A m \in x.was \cap u : p[m].type = "group"
    /\ x.tab \in B!Stored /\ x.pc \in {"rows", "cross", "advance"} =>
         \A m \in x.was : p[m].type \in B!Tab[x.tab] /\ p[m].chat \in x.found
    /\ x.tab = "groups" /\ x.pc \in {"rows", "advance"} =>
         \A m \in x.was : p[m].type = "group" /\ m <= x.now
    /\ x.pc \in {"cross", "advance"} => x.was \cap u = {}

RequestsKept == \A r \in Requests : Kept(req[r], posted, unread)

\* What B!TypeOK says of one request.
Fits(x) ==
    /\ x \in B!Request
    /\ x.now <= Len(posted)
    /\ x.was \cup x.took \subseteq rung
    /\ x.tab = "groups" => x.found \subseteq Groups
    /\ (x.tab = "context") = (x.chat # NoChat)

LEMMA TabTypes ==
    /\ B!Tab.dms = {"mention", "new_dm"} /\ B!Tab.groups = {"group"}
    /\ "context" \notin B!Stored /\ "groups" \notin B!Stored /\ "none" \notin B!Stored
BY DEF B!Tab, B!Stored

LEMMA EmptyRequest ==
    /\ posted \in Seq(B!Message) => Fits(B!NoRequest)
    /\ B!NoRequest.pc = "idle"
    /\ \A p, u : Kept(B!NoRequest, p, u)
<1>1. B!NoRequest \in B!Request
  BY BoundsAssumption DEF B!NoRequest, B!Request, B!Time
<1>2. posted \in Seq(B!Message) => Fits(B!NoRequest)
  BY <1>1 DEF Fits, B!NoRequest
<1>3. \A p, u : Kept(B!NoRequest, p, u)
  BY DEF Kept, B!NoRequest, B!Stored
<1>. QED  BY <1>2, <1>3 DEF B!NoRequest

\* A request does not notice messages that come, rows that come for others, and
\* rows that go.
LEMMA KeptOn ==
    ASSUME NEW x, NEW p, NEW u, NEW q, NEW v, NEW them,
           x.was \cup x.took \subseteq them,
           \A m \in them : q[m] = p[m] /\ (m \in v => m \in u),
           Kept(x, p, u)
    PROVE  Kept(x, q, v)
BY DEF Kept

\* The bell is typed when its requests fit.
BellRest ==
    /\ posted \in Seq(B!Message) /\ Len(posted) <= BellMessages
    /\ unread \subseteq rung /\ rung \subseteq 1..Len(posted)
    /\ lastRead \in [B!Chats -> 0..Len(posted)]

LEMMA BellParts ==
    B!TypeOK <=> BellRest /\ req \in [Requests -> B!Request] /\ \A r \in Requests : Fits(req[r])
BY DEF B!TypeOK, BellRest, Fits

\* The request in slot r comes to y, and rows are cleared or read positions set.
LEMMA OneRequest ==
    ASSUME B!TypeOK, RequestsKept, NEW r \in Requests, NEW y, Fits(y), Kept(y, posted, unread'),
           req' = [req EXCEPT ![r] = y],
           UNCHANGED <<posted, rung>>, unread' \subseteq unread,
           lastRead' \in [B!Chats -> 0..Len(posted)]
    PROVE  B!TypeOK' /\ RequestsKept'
<1>0. BellRest /\ req \in [Requests -> B!Request] /\ \A s \in Requests : Fits(req[s])
  BY BellParts
<1>1. \A s \in Requests : req'[s] = IF s = r THEN y ELSE req[s]
  BY <1>0
<1>2. BellRest'
  BY <1>0 DEF BellRest
<1>3. req' \in [Requests -> B!Request]
  BY <1>0 DEF Fits
<1>4. \A s \in Requests : Fits(req'[s])
  BY <1>0, <1>1
<1>5. \A s \in Requests : Fits(req[s])'
  BY <1>4 DEF Fits
<1>6. ASSUME NEW s \in Requests PROVE Kept(req'[s], posted', unread')
  <2>1. CASE s = r
    BY <1>1, <2>1
  <2>2. CASE s # r
    <3>1. Kept(req[s], posted, unread) /\ req[s].was \cup req[s].took \subseteq rung
      BY <1>0 DEF RequestsKept, Fits
    <3>2. Kept(req[s], posted', unread')
      BY <3>1, KeptOn
    <3>. QED  BY <1>1, <2>2, <3>2
  <2>. QED  BY <2>1, <2>2
<1>7. RequestsKept'
  BY <1>6 DEF RequestsKept
<1>8. B!TypeOK'
  BY <1>2, <1>3, <1>5 DEF B!TypeOK, BellRest, Fits
<1>. QED  BY <1>7, <1>8

\* A message or a row comes, a row is read, a read position is set.
LEMMA NoRequestMoves ==
    ASSUME B!TypeOK, RequestsKept, UNCHANGED req, BellRest',
           Len(posted') >= Len(posted), rung \subseteq rung', unread' \cap rung \subseteq unread,
           \A m \in 1..Len(posted) : posted'[m] = posted[m]
    PROVE  B!TypeOK' /\ RequestsKept'
<1>0. BellRest /\ req \in [Requests -> B!Request] /\ \A s \in Requests : Fits(req[s])
  BY BellParts
<1>1. \A s \in Requests : Fits(req[s])'
  <2>. SUFFICES ASSUME NEW s \in Requests PROVE Fits(req[s])'
    OBVIOUS
  <2>1. Fits(req[s]) /\ req[s] \in B!Request /\ Len(posted) \in Nat /\ Len(posted') \in Nat
    BY <1>0 DEF BellRest
  <2>2. req[s].now <= Len(posted')
    BY <2>1, BoundsAssumption DEF Fits, B!Request, B!Time
  <2>. QED  BY <2>1, <2>2 DEF Fits
<1>2. ASSUME NEW s \in Requests PROVE Kept(req'[s], posted', unread')
  <2>1. Kept(req[s], posted, unread) /\ req[s].was \cup req[s].took \subseteq rung
    BY <1>0 DEF RequestsKept, Fits
  <2>2. \A m \in rung : posted'[m] = posted[m] /\ (m \in unread' => m \in unread)
    BY <1>0 DEF BellRest
  <2>. QED  BY <2>1, <2>2, KeptOn
<1>3. RequestsKept'
  BY <1>2 DEF RequestsKept
<1>4. (req \in [Requests -> B!Request])'
  BY <1>0
<1>5. B!TypeOK'
  BY <1>1, <1>4 DEF B!TypeOK, BellRest, Fits
<1>. QED  BY <1>3, <1>5

\* The rows a tab or a conversation clears were unread.
LEMMA RowsWereUnread ==
    /\ \A types : B!OfTypes(types) = {m \in unread : posted[m].type \in types}
    /\ \A chats : B!OfChats(chats) = {m \in unread : posted[m].chat \in chats}
BY DEF B!OfTypes, B!OfChats

\* Rows are numbers of messages, and messages are counted.
LEMMA RowsAreNumbers ==
    ASSUME BellRest
    PROVE  /\ Len(posted) \in Nat /\ Len(posted) \in B!Time
           /\ rung \subseteq B!Time /\ \A m \in rung : m <= Len(posted)
<1>1. Len(posted) \in Nat /\ Len(posted) <= BellMessages
  BY DEF BellRest
<1>2. Len(posted) \in B!Time
  BY <1>1, BoundsAssumption DEF B!Time
<1>3. \A m \in 1..Len(posted) : m \in B!Time /\ m <= Len(posted)
  BY <1>1, BoundsAssumption DEF B!Time
<1>. QED  BY <1>1, <1>2, <1>3 DEF BellRest

\* Rows are taken by a request that stays of its kind.
LEMMA TakeMoves ==
    ASSUME B!TypeOK, RequestsKept, NEW r \in Requests, NEW them \in SUBSET unread,
           NEW pc \in {"advance", "cross"}, B!Take(r, them, pc), UNCHANGED <<posted, rung, lastRead>>,
           pc = "cross" => req[r].tab \in B!Stored,
           pc = "cross" => req[r].pc = "rows",
           req[r].pc \in {"rows", "group", "cross"},
           req[r].was \cap unread \subseteq them,
           req[r].pc = "group" => \A m \in them : posted[m].chat = req[r].chat
    PROVE  B!TypeOK' /\ RequestsKept'
<1>. DEFINE x == req[r]
            y == [x EXCEPT !.pc = pc, !.took = @ \cup them]
<1>0. /\ BellRest /\ Fits(x) /\ Kept(x, posted, unread)
      /\ req \in [Requests -> B!Request] /\ x \in B!Request
  BY BellParts DEF RequestsKept, Fits
<1>1. them \in SUBSET B!Time /\ them \subseteq rung
  BY <1>0, RowsAreNumbers DEF BellRest
<1>2. /\ y \in B!Request /\ y.pc = pc /\ y.took = x.took \cup them
      /\ y.was = x.was /\ y.tab = x.tab /\ y.chat = x.chat /\ y.now = x.now /\ y.found = x.found
  BY <1>0, <1>1 DEF B!Request
<1>3. req' = [req EXCEPT ![r] = y] /\ unread' = unread \ them
  BY <1>0 DEF B!Take
<1>. HIDE DEF y
<1>4. Fits(y)
  BY <1>0, <1>1, <1>2 DEF Fits
<1>5. Kept(y, posted, unread')
  <2>1. x.was \cap unread' = {}
    BY <1>3
  <2>2. x.tab = "context" => x.pc = "group"
    BY <1>0, TabTypes DEF Kept
  <2>3. x.tab = "context" => \A m \in y.was \cup y.took : posted[m].chat = y.chat
    BY <1>0, <1>2, <2>2 DEF Kept
  <2>4. x.pc \in {"rows", "cross"} => x.tab # "context"
    BY <1>0, TabTypes DEF Kept
  <2>5. x.tab \in B!Stored =>
          \A m \in y.was : posted[m].type \in B!Tab[y.tab] /\ posted[m].chat \in y.found
    BY <1>0, <1>2, TabTypes DEF Kept
  <2>6. x.tab = "groups" => \A m \in y.was : posted[m].type = "group" /\ m <= y.now
    BY <1>0, <1>2, TabTypes DEF Kept
  <2>. QED  BY <1>2, <2>1, <2>3, <2>5, <2>6 DEF Kept
<1>6. lastRead' \in [B!Chats -> 0..Len(posted)]
  BY <1>0 DEF BellRest
<1>. QED  BY <1>3, <1>4, <1>5, <1>6, OneRequest

\* The unread rows of some kind, as a request sees them that begins.
LEMMA RowsFit ==
    ASSUME B!TypeOK, NEW them \in SUBSET unread
    PROVE  them \in SUBSET B!Time /\ them \subseteq rung /\ Len(posted) \in B!Time
BY RowsAreNumbers, BellParts DEF BellRest

LEMMA RequestBegins ==
    ASSUME B!TypeOK, RequestsKept, NEW r \in Requests,
           \/ \E c \in B!Chats : B!ContextDirected(r, c)
           \/ \E t \in B!Stored : B!TabFind(r, t)
           \/ B!GroupsNow(r)
    PROVE  B!TypeOK' /\ RequestsKept' /\ req'[r].pc # "reply"
<1>0. BellRest /\ req \in [Requests -> B!Request] /\ B!NoRequest \in B!Request
  BY BellParts, EmptyRequest DEF BellRest, Fits
<1>6. lastRead \in [B!Chats -> 0..Len(posted)]
  BY <1>0 DEF BellRest
<1>1. ASSUME NEW c \in B!Chats, B!ContextDirected(r, c)
      PROVE  B!TypeOK' /\ RequestsKept' /\ req'[r].pc # "reply"
  <2>. DEFINE them == B!OfChats({c}) \cap B!OfTypes(B!Tab.dms)
              y == [B!NoRequest EXCEPT !.tab = "context", !.pc = "group", !.chat = c,
                                       !.was = B!OfChats({c}), !.took = them]
  <2>1. /\ B!OfChats({c}) \in SUBSET unread /\ them \in SUBSET unread
        /\ \A m \in B!OfChats({c}) : posted[m].chat = c
        /\ \A m \in B!OfChats({c}) \ them : posted[m].type \notin {"mention", "new_dm"}
    BY RowsWereUnread, TabTypes
  <2>2. /\ unread' = unread \ them /\ req' = [req EXCEPT ![r] = y]
        /\ UNCHANGED <<posted, rung, lastRead>>
    BY <1>1 DEF B!ContextDirected
  <2>3. /\ B!OfChats({c}) \in SUBSET B!Time /\ them \in SUBSET B!Time
        /\ B!OfChats({c}) \cup them \subseteq rung
    BY <2>1, RowsFit
  <2>. HIDE DEF them
  <2>4. y \in B!Request
    BY <1>0, <2>3 DEF B!Request
  <2>5. /\ y.tab = "context" /\ y.pc = "group" /\ y.chat = c /\ y.was = B!OfChats({c})
        /\ y.took = them /\ y.now = 0 /\ c # NoChat
    BY ChatsAssumption DEF B!NoRequest, B!Chats
  <2>. HIDE DEF y
  <2>6. Fits(y)
    <3>1. (y.tab = "context") = TRUE /\ (y.chat # NoChat) = TRUE /\ y.tab # "groups"
      BY <2>5
    <3>2. y.was \cup y.took \subseteq rung
      BY <2>3, <2>5
    <3>3. y.now <= Len(posted)
      <4>1. y.now = 0
        BY <2>5
      <4>2. Len(posted) \in Nat
        BY <1>0, RowsAreNumbers
      <4>. QED  BY <4>1, <4>2
    <3>. QED  BY <2>4, <3>1, <3>2, <3>3 DEF Fits
  <2>7. \A m \in y.was \cap unread' : posted[m].type = "group"
    <3>1. \A m \in unread : posted[m].type \in {"new_dm", "mention", "group"}
      BY <1>0 DEF BellRest, B!Message, B!Types
    <3>. QED  BY <2>1, <2>2, <2>5, <3>1
  <2>8. them \subseteq B!OfChats({c})
    BY DEF them
  <2>9. Kept(y, posted, unread')
    BY <2>1, <2>5, <2>7, <2>8, TabTypes DEF Kept
  <2>10. req'[r] = y
    BY <1>0, <2>2
  <2>. QED  BY <1>6, <2>2, <2>5, <2>6, <2>9, <2>10, OneRequest
<1>2. ASSUME NEW t \in B!Stored, B!TabFind(r, t)
      PROVE  B!TypeOK' /\ RequestsKept' /\ req'[r].pc # "reply"
  <2>. DEFINE them == B!OfTypes(B!Tab[t])
              found == {posted[m].chat : m \in them}
              y == [B!NoRequest EXCEPT !.tab = t, !.pc = "rows", !.found = found, !.was = them]
  <2>1. them \in SUBSET unread /\ \A m \in them : posted[m].type \in B!Tab[t]
    BY RowsWereUnread
  <2>2. req' = [req EXCEPT ![r] = y] /\ UNCHANGED <<posted, rung, unread, lastRead>>
    BY <1>2 DEF B!TabFind
  <2>3. them \in SUBSET B!Time /\ them \subseteq rung
    BY <2>1, RowsFit
  <2>4. \A m \in them : posted[m].chat \in found
    OBVIOUS
  <2>5. found \subseteq B!Chats
    <3>1. \A m \in unread : posted[m].chat \in B!Chats
      BY <1>0 DEF BellRest, B!Message
    <3>. QED  BY <2>1, <3>1
  <2>. HIDE DEF them, found
  <2>6. y \in B!Request
    BY <1>0, <2>3, <2>5 DEF B!Request, B!Stored
  <2>7. /\ y.tab = t /\ y.pc = "rows" /\ y.chat = NoChat /\ y.was = them
        /\ y.took = {} /\ y.now = 0 /\ y.found = found
    BY DEF B!NoRequest
  <2>. HIDE DEF y
  <2>8. Fits(y)
    BY <1>0, <2>3, <2>6, <2>7, RowsAreNumbers, TabTypes DEF Fits
  <2>9. Kept(y, posted, unread')
    BY <2>1, <2>4, <2>7, TabTypes DEF Kept
  <2>10. req'[r] = y
    BY <1>0, <2>2
  <2>. QED  BY <1>6, <2>2, <2>7, <2>8, <2>9, <2>10, OneRequest
<1>3. CASE B!GroupsNow(r)
  <2>. DEFINE them == B!OfTypes(B!Tab.groups)
              y == [B!NoRequest EXCEPT !.tab = "groups", !.pc = "rows", !.now = Len(posted),
                                       !.was = them]
  <2>1. them \in SUBSET unread /\ \A m \in them : posted[m].type = "group"
    BY RowsWereUnread, TabTypes
  <2>2. req' = [req EXCEPT ![r] = y] /\ UNCHANGED <<posted, rung, unread, lastRead>>
    BY <1>3 DEF B!GroupsNow, B!Now
  <2>3. them \in SUBSET B!Time /\ them \subseteq rung /\ Len(posted) \in B!Time
    BY <2>1, RowsFit
  <2>4. \A m \in them : m <= Len(posted)
    BY <1>0, <2>3, RowsAreNumbers
  <2>. HIDE DEF them
  <2>6. y \in B!Request
    BY <1>0, <2>3 DEF B!Request
  <2>7. /\ y.tab = "groups" /\ y.pc = "rows" /\ y.chat = NoChat /\ y.was = them
        /\ y.took = {} /\ y.now = Len(posted) /\ y.found = {}
    BY DEF B!NoRequest
  <2>. HIDE DEF y
  <2>8. Fits(y)
    BY <1>0, <2>3, <2>6, <2>7, RowsAreNumbers DEF Fits
  <2>9. Kept(y, posted, unread')
    BY <2>1, <2>4, <2>7, TabTypes DEF Kept
  <2>10. req'[r] = y
    BY <1>0, <2>2
  <2>. QED  BY <1>6, <2>2, <2>7, <2>8, <2>9, <2>10, OneRequest
<1>. QED  BY <1>1, <1>2, <1>3

\* What a request has done as its last statement but the answer is through.
Settled(r) ==
    /\ \A m \in req[r].was : m \notin unread' /\ B!Read(m)'
    /\ req[r].tab = "context" => \A m \in req[r].took : B!Read(m)'

\* A request that sets read positions, and is through.
LEMMA FinishMoves ==
    ASSUME B!TypeOK, RequestsKept, NEW r \in Requests, B!Finish(r),
           req[r].pc = "advance", UNCHANGED <<posted, rung, unread>>,
           lastRead' \in [B!Chats -> 0..Len(posted)]
    PROVE  /\ B!TypeOK' /\ RequestsKept'
           /\ \A m \in req[r].was : m \notin unread'
<1>. DEFINE y == [req[r] EXCEPT !.pc = "reply"]
<1>0. /\ Fits(req[r]) /\ Kept(req[r], posted, unread)
      /\ req \in [Requests -> B!Request] /\ req[r] \in B!Request
  BY BellParts DEF RequestsKept, Fits
<1>1. /\ y \in B!Request /\ y.pc = "reply" /\ y.took = req[r].took /\ y.was = req[r].was
      /\ y.tab = req[r].tab /\ y.chat = req[r].chat /\ y.now = req[r].now
      /\ y.found = req[r].found
  BY <1>0 DEF B!Request
<1>2. req' = [req EXCEPT ![r] = y]
  BY <1>0 DEF B!Finish
<1>. HIDE DEF y
<1>3. Fits(y) /\ Kept(y, posted, unread')
  BY <1>0, <1>1 DEF Fits, Kept
<1>4. \A m \in req[r].was : m \notin unread'
  BY <1>0 DEF Kept
<1>. QED  BY <1>2, <1>3, <1>4, OneRequest

LEMMA RequestMoves ==
    ASSUME B!TypeOK, RequestsKept, NEW r \in Requests, B!RequestStep(r)
    PROVE  /\ B!TypeOK' /\ RequestsKept'
           /\ req'[r].pc = "reply" => Settled(r)
           /\ \A s \in Requests \ {r} : req'[s] = req[s]
<1>0. /\ BellRest /\ Fits(req[r]) /\ Kept(req[r], posted, unread)
      /\ req \in [Requests -> B!Request] /\ req[r] \in B!Request
  BY BellParts DEF RequestsKept, Fits
<1>1. \A x : req' = [req EXCEPT ![r] = x] =>
        req'[r] = x /\ \A s \in Requests \ {r} : req'[s] = req[s]
  BY <1>0
<1>2. \A s \in Requests \ {r} : req'[s] = req[s]
  BY <1>1 DEF B!RequestStep, B!ContextDirected, B!ContextGroup, B!ContextAdvance, B!TabFind,
              B!TabRows, B!TabCross, B!TabAdvance, B!GroupsNow, B!GroupsRows, B!GroupsAdvance,
              B!End, B!Take, B!Finish
<1>3. \A m \in rung : posted[m] \in B!Message /\ m <= Len(posted) /\ Len(posted) \in Nat
  BY <1>0, RowsAreNumbers DEF BellRest
<1>4. CASE \/ \E c \in B!Chats : B!ContextDirected(r, c)
           \/ \E t \in B!Stored : B!TabFind(r, t)
           \/ B!GroupsNow(r)
  BY <1>2, <1>4, RequestBegins
<1>5. ASSUME NEW them \in SUBSET unread, NEW pc \in {"advance", "cross"}, B!Take(r, them, pc)
      PROVE  req'[r].pc # "reply"
  BY <1>0, <1>5 DEF B!Take, B!Request
<1>6. CASE B!ContextGroup(r)
  <2>. DEFINE them == B!OfChats({req[r].chat}) \cap B!OfTypes({"group"})
  <2>1. /\ req[r].pc = "group" /\ B!Take(r, them, "advance") /\ UNCHANGED <<posted, rung, lastRead>>
        /\ req[r].tab = "context"
    BY <1>0, <1>6 DEF B!ContextGroup, Kept
  <2>2. them \in SUBSET unread /\ \A m \in them : posted[m].chat = req[r].chat
    BY RowsWereUnread
  <2>3. req[r].was \cap unread \subseteq them
    <3>1. \A m \in req[r].was \cap unread : posted[m].chat = req[r].chat /\ posted[m].type = "group"
      BY <1>0, <2>1 DEF Kept
    <3>. QED  BY <3>1, RowsWereUnread
  <2>. HIDE DEF them
  <2>. QED  BY <1>2, <1>5, <2>1, <2>2, <2>3, TakeMoves
<1>7. CASE B!TabRows(r)
  <2>. DEFINE them == B!OfTypes(B!Tab[req[r].tab])
  <2>1. /\ req[r].tab \in B!Stored /\ req[r].pc = "rows" /\ B!Take(r, them, "cross")
        /\ UNCHANGED <<posted, rung, lastRead>>
    BY <1>7 DEF B!TabRows
  <2>2. them \in SUBSET unread
    BY RowsWereUnread
  <2>3. req[r].was \cap unread \subseteq them
    <3>1. \A m \in req[r].was : posted[m].type \in B!Tab[req[r].tab]
      BY <1>0, <2>1 DEF Kept
    <3>. QED  BY <3>1, RowsWereUnread
  <2>. HIDE DEF them
  <2>. QED  BY <1>2, <1>5, <2>1, <2>2, <2>3, TakeMoves
<1>8. CASE B!TabCross(r)
  <2>. DEFINE them == B!OfChats(req[r].found)
  <2>1. /\ req[r].pc = "cross" /\ B!Take(r, them, "advance") /\ UNCHANGED <<posted, rung, lastRead>>
    BY <1>8 DEF B!TabCross
  <2>2. them \in SUBSET unread
    BY RowsWereUnread
  <2>3. req[r].was \cap unread \subseteq them
    BY <1>0, <2>1 DEF Kept
  <2>. HIDE DEF them
  <2>. QED  BY <1>2, <1>5, <2>1, <2>2, <2>3, TakeMoves
<1>9. CASE B!GroupsRows(r)
  <2>. DEFINE them == B!OfTypes(B!Tab.groups)
  <2>1. /\ req[r].tab = "groups" /\ req[r].pc = "rows" /\ B!Take(r, them, "advance")
        /\ UNCHANGED <<posted, rung, lastRead>>
    BY <1>9 DEF B!GroupsRows
  <2>2. them \in SUBSET unread
    BY RowsWereUnread
  <2>3. req[r].was \cap unread \subseteq them
    <3>1. \A m \in req[r].was : posted[m].type = "group"
      BY <1>0, <2>1 DEF Kept
    <3>. QED  BY <3>1, RowsWereUnread, TabTypes
  <2>. HIDE DEF them
  <2>. QED  BY <1>2, <1>5, <2>1, <2>2, <2>3, TakeMoves
<1>10. CASE B!ContextAdvance(r)
  <2>1. /\ req[r].tab = "context" /\ req[r].pc = "advance" /\ B!Finish(r)
        /\ UNCHANGED <<posted, rung, unread>>
        /\ lastRead' = [lastRead EXCEPT ![req[r].chat] = Len(posted)]
    BY <1>10 DEF B!ContextAdvance, B!Now
  <2>2. req[r].chat \in B!Chats
    BY <1>0, <2>1 DEF Fits, B!Request
  <2>3. lastRead' \in [B!Chats -> 0..Len(posted)] /\ lastRead'[req[r].chat] = Len(posted)
    BY <1>0, <2>1, <2>2 DEF BellRest
  <2>4. \A m \in req[r].was \cup req[r].took : B!Read(m)'
    <3>1. \A m \in req[r].was \cup req[r].took : posted[m].chat = req[r].chat /\ m <= Len(posted)
      BY <1>0, <1>3, <2>1 DEF Kept, Fits
    <3>. QED  BY <2>1, <2>3, <3>1 DEF B!Read
  <2>. QED  BY <1>2, <2>1, <2>3, <2>4, FinishMoves DEF Settled
<1>11. CASE B!TabAdvance(r)
  <2>1. /\ req[r].tab \in B!Stored /\ req[r].pc = "advance" /\ B!Finish(r)
        /\ UNCHANGED <<posted, rung, unread>>
        /\ lastRead' = [c \in B!Chats |-> IF c \in req[r].found THEN Len(posted) ELSE lastRead[c]]
    BY <1>11 DEF B!TabAdvance, B!Now
  <2>2. lastRead' \in [B!Chats -> 0..Len(posted)]
    BY <1>0, <2>1 DEF BellRest
  <2>3. \A m \in req[r].was : B!Read(m)'
    <3>1. \A m \in req[r].was : posted[m].chat \in req[r].found /\ m <= Len(posted)
      BY <1>0, <1>3, <2>1 DEF Kept, Fits
    <3>2. req[r].found \subseteq B!Chats
      BY <1>0 DEF B!Request
    <3>. QED  BY <2>1, <3>1, <3>2 DEF B!Read
  <2>. QED  BY <1>2, <2>1, <2>2, <2>3, TabTypes, FinishMoves DEF Settled
<1>12. CASE B!GroupsAdvance(r)
  <2>1. /\ req[r].tab = "groups" /\ req[r].pc = "advance" /\ B!Finish(r)
        /\ UNCHANGED <<posted, rung, unread>>
        /\ lastRead' = [c \in B!Chats |-> IF c \in Groups THEN req[r].now ELSE lastRead[c]]
    BY <1>12 DEF B!GroupsAdvance
  <2>2. req[r].now \in 0..Len(posted)
    BY <1>0, BoundsAssumption DEF Fits, B!Request, B!Time, BellRest
  <2>3. lastRead' \in [B!Chats -> 0..Len(posted)]
    BY <1>0, <2>1, <2>2 DEF BellRest
  <2>4. \A m \in req[r].was : B!Read(m)'
    <3>1. \A m \in req[r].was : posted[m].type = "group" /\ m <= req[r].now
      BY <1>0, <2>1 DEF Kept
    <3>2. \A m \in req[r].was : posted[m].chat \in Groups
      <4>1. \A m \in req[r].was : posted[m] \in B!Message
        BY <1>0, <1>3 DEF Fits
      <4>2. \A x \in B!Message : x.type = "group" => x.chat \in Groups
        BY DEF B!Message, B!Chats
      <4>. QED  BY <3>1, <4>1, <4>2
    <3>. QED  BY <2>1, <3>1, <3>2 DEF B!Read, B!Chats
  <2>. QED  BY <1>2, <2>1, <2>3, <2>4, FinishMoves DEF Settled
<1>13. CASE B!End(r)
  <2>1. /\ req' = [req EXCEPT ![r] = B!NoRequest] /\ UNCHANGED <<posted, rung, unread, lastRead>>
    BY <1>13 DEF B!End
  <2>2. Fits(B!NoRequest) /\ Kept(B!NoRequest, posted, unread')
    BY <1>0, EmptyRequest DEF BellRest
  <2>3. lastRead' \in [B!Chats -> 0..Len(posted)]
    BY <1>0, <2>1 DEF BellRest
  <2>4. req'[r].pc # "reply"
    BY <1>1, <2>1, EmptyRequest
  <2>. QED  BY <1>2, <2>1, <2>2, <2>3, <2>4, OneRequest
<1>. QED
  BY <1>4, <1>6, <1>7, <1>8, <1>9, <1>10, <1>11, <1>12, <1>13 DEF B!RequestStep

\* Messages and rows come, and single statements set read positions.
LEMMA OthersMove ==
    ASSUME B!TypeOK, RequestsKept,
           \/ \E m \in B!Message : B!Post(m)
           \/ \E m \in B!Time : B!Ring(m)
           \/ \E c \in B!Chats : B!Open(c)
           \/ B!MarkAllRead
           \/ \E m \in unread : B!ReadRow(m)
           \/ UNCHANGED B!vars
    PROVE  B!TypeOK' /\ RequestsKept' /\ UNCHANGED req
<1>0. BellRest /\ Len(posted) \in Nat
  BY BellParts, RowsAreNumbers
<1>1. UNCHANGED req
  BY DEF B!Post, B!Ring, B!Open, B!MarkAllRead, B!ReadRow, B!vars
<1>2. ASSUME NEW m \in B!Message, B!Post(m) PROVE B!TypeOK' /\ RequestsKept'
  <2>1. /\ Len(posted) < BellMessages /\ posted' = Append(posted, m)
        /\ UNCHANGED <<rung, unread, lastRead>>
    BY <1>2 DEF B!Post
  <2>2. /\ posted' \in Seq(B!Message) /\ Len(posted') = Len(posted) + 1
        /\ \A i \in 1..Len(posted) : posted'[i] = posted[i]
    BY <1>0, <2>1 DEF BellRest
  <2>3. Len(posted') <= BellMessages
    BY <1>0, <2>1, <2>2, BoundsAssumption
  <2>4. 1..Len(posted) \subseteq 1..Len(posted') /\ 0..Len(posted) \subseteq 0..Len(posted')
    BY <1>0, <2>2
  <2>5. lastRead' \in [B!Chats -> 0..Len(posted')]
    BY <1>0, <2>1, <2>4 DEF BellRest
  <2>6. BellRest'
    BY <1>0, <2>1, <2>2, <2>3, <2>4, <2>5 DEF BellRest
  <2>. QED  BY <1>0, <1>1, <2>1, <2>2, <2>6, NoRequestMoves
<1>3. ASSUME NEW m \in B!Time, B!Ring(m) PROVE B!TypeOK' /\ RequestsKept'
  <2>1. /\ m \in 1..Len(posted) \ rung /\ rung' = rung \cup {m} /\ unread' = unread \cup {m}
        /\ UNCHANGED <<posted, lastRead>>
    BY <1>3 DEF B!Ring
  <2>2. BellRest'
    BY <1>0, <2>1 DEF BellRest
  <2>. QED  BY <1>0, <1>1, <2>1, <2>2, NoRequestMoves
<1>4. ASSUME UNCHANGED <<posted, rung>>, unread' \subseteq unread,
             lastRead' \in [B!Chats -> 0..Len(posted)]
      PROVE  B!TypeOK' /\ RequestsKept'
  <2>1. BellRest'
    BY <1>0, <1>4 DEF BellRest
  <2>. QED  BY <1>0, <1>1, <1>4, <2>1, NoRequestMoves
<1>5. CASE (\E c \in B!Chats : B!Open(c)) \/ B!MarkAllRead
  <2>1. UNCHANGED <<posted, rung, unread>>
    BY <1>5 DEF B!Open, B!MarkAllRead
  <2>2. lastRead' \in [B!Chats -> 0..Len(posted)]
    BY <1>0, <1>5 DEF B!Open, B!MarkAllRead, B!Now, BellRest
  <2>. QED  BY <1>1, <1>4, <2>1, <2>2
<1>6. CASE (\E m \in unread : B!ReadRow(m)) \/ UNCHANGED B!vars
  BY <1>0, <1>4, <1>6 DEF B!ReadRow, B!vars, BellRest
<1>. QED  BY <1>1, <1>2, <1>3, <1>5, <1>6

LEMMA BellInit == B!Init => B!TypeOK /\ RequestsKept
<1>. SUFFICES ASSUME B!Init PROVE B!TypeOK /\ RequestsKept
  OBVIOUS
<1>1. /\ posted = <<>> /\ rung = {} /\ unread = {} /\ lastRead = [c \in B!Chats |-> 0]
      /\ req = [r \in Requests |-> B!NoRequest]
  BY DEF B!Init
<1>2. posted \in Seq(B!Message) /\ Len(posted) = 0
  BY <1>1
<1>3. BellRest
  BY <1>1, <1>2, BoundsAssumption DEF BellRest
<1>4. \A r \in Requests : Fits(req[r]) /\ Kept(req[r], posted, unread)
  BY <1>1, <1>2, EmptyRequest
<1>5. req \in [Requests -> B!Request]
  BY <1>1, <1>2, EmptyRequest DEF Fits
<1>. QED  BY <1>3, <1>4, <1>5, BellParts DEF RequestsKept

LEMMA BellStep ==
    ASSUME B!TypeOK, RequestsKept, [B!Next]_(B!vars)
    PROVE  /\ B!TypeOK' /\ RequestsKept'
           /\ \A r \in Requests : B!Settles(r) => Settled(r)
<1>1. CASE \E s \in Requests : B!RequestStep(s)
  <2>. PICK s \in Requests : B!RequestStep(s)
    BY <1>1
  <2>1. \A r \in Requests : B!Settles(r) => Settled(r)
    BY RequestMoves DEF B!Settles
  <2>. QED  BY <2>1, RequestMoves
<1>2. CASE ~\E s \in Requests : B!RequestStep(s)
  <2>1. B!TypeOK' /\ RequestsKept' /\ UNCHANGED req
    BY <1>2, OthersMove DEF B!Next
  <2>2. \A r \in Requests : ~B!Settles(r)
    BY <2>1 DEF B!Settles
  <2>. QED  BY <2>1, <2>2
<1>. QED  BY <1>1, <1>2

\* The bell behaves as Bell says whatever is in focus.
LEMMA BellMoves == InboxSpec => B!Init /\ [][B!Next]_(B!vars)
<1>1. InboxInit => B!Init
  BY DEF InboxInit
<1>2. [InboxNext]_inboxVars => [B!Next]_(B!vars)
  BY DEF InboxNext, inboxVars, bvars, B!vars
<1>. QED  BY <1>1, <1>2, PTL DEF InboxSpec

\* For any number of conversations, messages and requests at once: when a clearing
\* request is through, every row it was about is marked read and its message counts
\* as read; and opening a conversation marks no row whose message does not.
THEOREM BellDoesSettle == InboxSpec => BellSettles
<1>1. B!TypeOK /\ RequestsKept /\ [B!Next]_(B!vars) => B!TypeOK' /\ RequestsKept'
  BY BellStep
<1>2. B!TypeOK /\ RequestsKept /\ [B!Next]_(B!vars) =>
        [\A r \in Requests : B!Settles(r) =>
           \A m \in req[r].was : m \notin unread' /\ B!Read(m)']_(B!vars)
  BY BellStep DEF Settled
<1>3. B!TypeOK /\ RequestsKept /\ [B!Next]_(B!vars) =>
        [\A r \in Requests : B!Settles(r) /\ req[r].tab = "context" =>
           \A m \in req[r].took : B!Read(m)']_(B!vars)
  BY BellStep DEF Settled
<1>. QED
  BY <1>1, <1>2, <1>3, BellInit, BellMoves, PTL
  DEF BellSettles, B!SettledTogether, B!OpeningNeverDrifts

-----------------------------------------------------------------------------
(* Histories: pages and windows of a set of messages *)

\* A nonempty set of numbers has a least one, and of those up to n a greatest.
LEMMA Least ==
    ASSUME NEW T \in SUBSET Nat, T # {}
    PROVE  \E x \in T : \A y \in T : x <= y
<1>. DEFINE Before == OpToRel(<, Nat)
<1>1. IsWellFoundedOn(Before, Nat)
  BY NatLessThanWellFounded
<1>2. ASSUME NEW x \in Nat, NEW y \in Nat PROVE <<x, y>> \in Before <=> x < y
  BY DEF OpToRel
<1>. HIDE DEF Before
<1>3. PICK x \in T : \A y \in T : ~(<<y, x>> \in Before)
  BY <1>1, WFMin
<1>4. ASSUME NEW y \in T PROVE x <= y
  <2>1. x \in Nat /\ y \in Nat /\ ~(<<y, x>> \in Before)
    BY <1>3
  <2>2. ~(y < x)
    BY <2>1, <1>2
  <2>. QED  BY <2>1, <2>2
<1>. QED  BY <1>4

LEMMA Largest ==
    ASSUME NEW n \in Nat, NEW T \in SUBSET (0..n), T # {}
    PROVE  \E x \in T : \A y \in T : y <= x
<1>. DEFINE Turned == {y \in Nat : \E x \in T : y = n - x}
<1>1. PICK u \in Turned : \A y \in Turned : u <= y
  <2>1. PICK x \in T : TRUE
    OBVIOUS
  <2>2. n - x \in Turned
    BY <2>1
  <2>3. Turned \in SUBSET Nat /\ Turned # {}
    BY <2>2
  <2>. HIDE DEF Turned
  <2>. QED  BY <2>3, Least
<1>2. PICK x \in T : u = n - x
  OBVIOUS
<1>3. ASSUME NEW y \in T PROVE y <= x
  <2>1. n - y \in Turned
    OBVIOUS
  <2>2. u <= n - y
    BY <2>1, <1>1
  <2>. QED  BY <1>2, <2>2
<1>. QED  BY <1>3

\* The messages are posted in the order of their numbers, in the past.
InOrder ==
    /\ clock \in 1..PlaceTime
    /\ msg \in [H!Ids -> H!Message]
    /\ \A m \in H!Ids : msg[m].at < clock
    /\ \A m, n \in H!Ids : m < n /\ msg[n].at # 0 => msg[m].at \in 1..msg[n].at - 1

\* Later means posted later.
LEMMA ThereInOrder ==
    ASSUME InOrder
    PROVE  /\ H!There \in SUBSET H!Ids /\ IsFiniteSet(H!There)
           /\ \A m \in H!There : msg[m].at \in 1..PlaceTime
           /\ \A m, n \in H!There : msg[m].at < msg[n].at <=> m < n
           /\ \A m \in H!There, n \in H!Ids \ H!There : m < n
<1>1. H!There \in SUBSET H!Ids
  BY DEF H!There
<1>2. IsFiniteSet(H!Ids)
  BY BoundsAssumption, FS_Interval DEF H!Ids
<1>3. IsFiniteSet(H!There)
  BY <1>1, <1>2, FS_Subset
<1>4. \A m \in H!Ids : m \in Int /\ msg[m].at \in Nat /\ msg[m].at < clock /\ msg[m].at <= PlaceTime
  BY BoundsAssumption DEF InOrder, H!Ids, H!Message, H!Times
<1>5. \A m \in H!There : msg[m].at \in 1..PlaceTime
  BY <1>4, BoundsAssumption DEF H!There
<1>6. \A m, n \in H!There : m < n => msg[m].at < msg[n].at
  BY <1>4, <1>5 DEF InOrder, H!There
<1>7. \A m, n \in H!There : msg[m].at < msg[n].at <=> m < n
  BY <1>1, <1>4, <1>6
<1>8. ASSUME NEW m \in H!There, NEW n \in H!Ids \ H!There PROVE m < n
  <2>1. msg[n].at = 0 /\ msg[m].at # 0 /\ m \in H!Ids
    BY DEF H!There
  <2>2. ~(n < m)
    BY <2>1 DEF InOrder
  <2>. QED  BY <1>4, <2>1, <2>2
<1>. QED  BY <1>1, <1>3, <1>5, <1>7, <1>8

\* The newest of a set are newer than the rest of it; they are no more than asked
\* for, and fewer only if they are all.
LEMMA NewestOf ==
    ASSUME InOrder, NEW T \in SUBSET H!There, NEW n \in Nat
    PROVE  LET page == H!Newest(T, n) IN
           /\ page \subseteq T /\ IsFiniteSet(page)
           /\ Cardinality(page) \in 0..n
           /\ \A m \in T \ page, r \in page : m < r
           /\ Cardinality(page) # n => page = T
<1>. DEFINE Newer(m) == {o \in T : msg[o].at > msg[m].at}
            page == {m \in T : Cardinality(Newer(m)) < n}
<1>0. H!Newest(T, n) = page
  BY DEF H!Newest, H!Cardinality, Cardinality, H!IsFiniteSet, IsFiniteSet
<1>1. IsFiniteSet(T) /\ T \in SUBSET (0..PlaceMessages) /\ \A m \in T : m \in Nat
  <2>1. T \in SUBSET (1..PlaceMessages)
    BY ThereInOrder DEF H!Ids
  <2>2. T \in SUBSET (0..PlaceMessages) /\ \A m \in T : m \in Nat
    BY <2>1, BoundsAssumption
  <2>3. IsFiniteSet(H!There)
    BY ThereInOrder
  <2>4. IsFiniteSet(T)
    BY <2>3, FS_Subset
  <2>. QED  BY <2>2, <2>4
<1>2. \A m \in T : \A o \in T : msg[o].at > msg[m].at <=> m < o
  BY ThereInOrder
<1>3. \A m \in T : Newer(m) = {o \in T : m < o}
  BY <1>2
<1>4. \A m \in T : IsFiniteSet(Newer(m)) /\ Cardinality(Newer(m)) \in Nat
  BY <1>1, FS_Subset, FS_CardinalityType
<1>b. \A m : m \in page <=> m \in T /\ Cardinality(Newer(m)) < n
  OBVIOUS
<1>. HIDE DEF Newer, page
<1>5. IsFiniteSet(page) /\ Cardinality(page) \in Nat /\ page \subseteq T
  <2>1. page \in SUBSET T
    BY <1>b
  <2>. QED  BY <1>1, <2>1, FS_Subset, FS_CardinalityType
<1>6. ASSUME NEW m \in T \ page, NEW r \in page PROVE m < r
  <2>1. m \in Nat /\ r \in Nat /\ m # r
    BY <1>1, <1>b
  <2>2. ASSUME r < m PROVE FALSE
    <3>0. m \in T /\ r \in T /\ ~(Cardinality(Newer(m)) < n) /\ Cardinality(Newer(r)) < n
      BY <1>b
    <3>1. Newer(m) \in SUBSET Newer(r)
      <4>1. ASSUME NEW o \in Newer(m) PROVE o \in Newer(r)
        <5>1. o \in T /\ o \in Nat /\ m < o
          BY <1>1, <1>3, <3>0
        <5>2. r < o
          BY <2>1, <2>2, <5>1
        <5>. QED  BY <1>3, <3>0, <5>1, <5>2
      <4>. QED  BY <4>1
    <3>2. Cardinality(Newer(m)) <= Cardinality(Newer(r))
      BY <3>0, <3>1, <1>4, FS_Subset
    <3>. QED  BY <3>0, <3>2, <1>4
  <2>. QED  BY <2>1, <2>2
<1>7. Cardinality(page) <= n
  <2>1. CASE page = {}
    BY <2>1, FS_EmptySet
  <2>2. CASE page # {}
    <3>1. PICK e \in page : \A r \in page : e <= r
      <4>1. page \in SUBSET Nat
        BY <1>1, <1>5
      <4>. QED  BY <2>2, <4>1, Least
    <3>2. e \in T /\ Cardinality(Newer(e)) < n
      BY <1>b, <3>1
    <3>5. ASSUME NEW r \in page \ {e} PROVE r \in Newer(e)
      <4>1. r \in T /\ e <= r /\ e # r /\ e \in Nat /\ r \in Nat
        BY <1>1, <1>b, <3>1
      <4>2. e < r
        BY <4>1
      <4>. QED  BY <1>3, <3>2, <4>1, <4>2
    <3>6. page \ {e} \in SUBSET Newer(e)
      BY <3>5
    <3>3. Cardinality(page \ {e}) <= Cardinality(Newer(e))
      BY <3>2, <3>6, <1>4, FS_Subset
    <3>4. Cardinality(page \ {e}) = Cardinality(page) - 1
      BY <1>5, FS_RemoveElement
    <3>. QED  BY <1>4, <1>5, <3>1, <3>2, <3>3, <3>4
  <2>. QED  BY <2>1, <2>2
<1>8. ASSUME Cardinality(page) # n, page # T PROVE FALSE
  <2>1. PICK m \in T \ page : \A y \in T \ page : y <= m
    <3>1. T \ page \in SUBSET (0..PlaceMessages) /\ T \ page # {}
      BY <1>1, <1>5, <1>8
    <3>. QED  BY <3>1, BoundsAssumption, Largest
  <2>2. ASSUME NEW o \in Newer(m) PROVE o \in page
    <3>1. o \in T /\ m < o /\ m \in Nat /\ o \in Nat
      BY <1>1, <1>3, <2>1
    <3>2. o \in T \ page => o <= m
      BY <2>1
    <3>. QED  BY <3>1, <3>2
  <2>3. Cardinality(Newer(m)) <= Cardinality(page)
    <3>1. Newer(m) \in SUBSET page
      BY <2>2
    <3>. QED  BY <3>1, <1>5, FS_Subset
  <2>4. m \in T /\ ~(Cardinality(Newer(m)) < n)
    BY <1>b, <2>1
  <2>. QED  BY <1>4, <1>5, <1>7, <1>8, <2>3, <2>4
<1>9. Cardinality(page) \in 0..n
  BY <1>5, <1>7
<1>. QED  BY <1>0, <1>5, <1>6, <1>8, <1>9

\* The oldest of a set are older than the rest of it.
LEMMA OldestOf ==
    ASSUME InOrder, NEW T \in SUBSET H!There, NEW n \in Nat
    PROVE  H!Oldest(T, n) \subseteq T /\ \A m \in T \ H!Oldest(T, n), r \in H!Oldest(T, n) : r < m
<1>. DEFINE Older(m) == {o \in T : msg[o].at < msg[m].at}
            page == {m \in T : Cardinality(Older(m)) < n}
<1>0. H!Oldest(T, n) = page
  BY DEF H!Oldest, H!Cardinality, Cardinality, H!IsFiniteSet, IsFiniteSet
<1>1. IsFiniteSet(T) /\ T \in SUBSET (0..PlaceMessages) /\ \A m \in T : m \in Nat
  <2>1. T \in SUBSET (1..PlaceMessages)
    BY ThereInOrder DEF H!Ids
  <2>2. T \in SUBSET (0..PlaceMessages) /\ \A m \in T : m \in Nat
    BY <2>1, BoundsAssumption
  <2>3. IsFiniteSet(H!There)
    BY ThereInOrder
  <2>4. IsFiniteSet(T)
    BY <2>3, FS_Subset
  <2>. QED  BY <2>2, <2>4
<1>2. \A m \in T : \A o \in T : msg[o].at < msg[m].at <=> o < m
  BY ThereInOrder
<1>3. \A m \in T : Older(m) = {o \in T : o < m}
  BY <1>2
<1>4. \A m \in T : IsFiniteSet(Older(m)) /\ Cardinality(Older(m)) \in Nat
  BY <1>1, FS_Subset, FS_CardinalityType
<1>b. \A m : m \in page <=> m \in T /\ Cardinality(Older(m)) < n
  OBVIOUS
<1>. HIDE DEF Older, page
<1>6. ASSUME NEW m \in T \ page, NEW r \in page PROVE r < m
  <2>1. m \in Nat /\ r \in Nat /\ m # r
    BY <1>1, <1>b
  <2>2. ASSUME m < r PROVE FALSE
    <3>0. m \in T /\ r \in T /\ ~(Cardinality(Older(m)) < n) /\ Cardinality(Older(r)) < n
      BY <1>b
    <3>1. Older(m) \in SUBSET Older(r)
      <4>1. ASSUME NEW o \in Older(m) PROVE o \in Older(r)
        <5>1. o \in T /\ o \in Nat /\ o < m
          BY <1>1, <1>3, <3>0
        <5>2. o < r
          BY <2>1, <2>2, <5>1
        <5>. QED  BY <1>3, <3>0, <5>1, <5>2
      <4>. QED  BY <4>1
    <3>2. Cardinality(Older(m)) <= Cardinality(Older(r))
      BY <3>0, <3>1, <1>4, FS_Subset
    <3>. QED  BY <3>0, <3>2, <1>4
  <2>. QED  BY <2>1, <2>2
<1>7. page \subseteq T
  BY <1>b
<1>. QED  BY <1>0, <1>6, <1>7

\* A time is cut to the grain it lies in: what is between the two lies there too.
LEMMA CutsDown ==
    ASSUME NEW t \in Nat, NEW g \in Nat \ {0}
    PROVE  /\ H!CutTo(t, g) \in 0..t
           /\ \A u \in H!CutTo(t, g)..t : H!CutTo(u, g) = H!CutTo(t, g)
           /\ g = 1 => H!CutTo(t, g) = t
<1>1. PICK q \in Nat, r \in 0..g-1 : t = (q * g) + r /\ q = t \div g
  <2>1. t \div g \in Nat /\ t % g \in 0..g-1 /\ t = ((t \div g) * g) + (t % g)
    OBVIOUS
  <2>. QED  BY <2>1
<1>2. H!CutTo(t, g) = q * g /\ q * g \in Nat
  BY <1>1 DEF H!CutTo
<1>3. ASSUME NEW u \in (q * g)..t PROVE u \div g = q
  <2>1. u \in Int /\ q * g <= u /\ u < (q * g) + g
    BY <1>1, <1>2
  <2>. QED  BY <2>1
<1>4. g = 1 => q = t
  BY <1>1
<1>. QED  BY <1>1, <1>2, <1>3, <1>4 DEF H!CutTo

-----------------------------------------------------------------------------
(* Histories: the invariant *)

\* What a client has yet to get is older than its cursor.
ScrollKept ==
    /\ scroll \in H!Scroll
    /\ scroll.since \subseteq H!There
    /\ \A m \in scroll.since \ scroll.kept :
         m \in scroll.got \/ H!Twins(m) # {} \/ (scroll.more /\ msg[m].at < scroll.cursor)

AroundKept ==
    /\ around \in H!Window
    /\ around.rows \subseteq H!There
    /\ around.pc # "off" => around.target \in H!There
    /\ around.pc = "done" => around.target \in around.rows
    /\ H!WindowHasNoHole

\* What has been unread all the time lies after every position there was.
ListKept ==
    /\ list \in H!Row /\ position \in H!Times
    /\ list.still \subseteq H!Unread(msg, position)
    /\ list.pc = "position" => list.floor <= position
    /\ list.pc = "count" => list.floor <= list.pos /\ \A m \in list.still : list.pos < msg[m].at
    /\ list.pc = "done" => list.unread \subseteq H!There
    /\ H!CountsAreCurrent

AskTyped ==
    /\ asks \in {"pages", "window", "row"} /\ place \in {"conversation", "globe", "room"}
    /\ blocked \in BOOLEAN /\ mark \in [Marks -> H!Times]

PlaceKept == InOrder /\ AskTyped /\ ScrollKept /\ AroundKept /\ ListKept

\* No message is lost or moves.
Grows ==
    /\ H!There \subseteq H!There'
    /\ \A m \in H!There : msg'[m].at = msg[m].at /\ msg'[m].by = msg[m].by

LEMMA PostIsLast ==
    ASSUME InOrder, NEW m \in H!Ids \ H!There, m = Cardinality(H!There) + 1
    PROVE  H!There = 1..m-1
<1>1. /\ H!There \in SUBSET (1..PlaceMessages) /\ IsFiniteSet(H!There) /\ m \in Nat
      /\ \A x \in H!There, n \in H!Ids \ H!There : x < n
  BY ThereInOrder DEF H!Ids
<1>2. CASE H!There = {}
  BY <1>2, FS_EmptySet
<1>3. CASE H!There # {}
  <2>1. PICK x \in H!There : \A y \in H!There : y <= x
    <3>1. H!There \in SUBSET (0..PlaceMessages)
      BY <1>1, BoundsAssumption
    <3>. QED  BY <1>3, <3>1, Largest, BoundsAssumption
  <2>2. ASSUME NEW y \in 1..x PROVE y \in H!There
    <3>1. y \in H!Ids /\ y \in Nat /\ x \in Nat /\ y <= x
      BY <1>1, <2>1, BoundsAssumption DEF H!Ids
    <3>2. y \notin H!There => x < y
      BY <1>1, <2>1, <3>1
    <3>. QED  BY <3>1, <3>2
  <2>5. ASSUME NEW y \in H!There PROVE y \in 1..x
    BY <1>1, <2>1, BoundsAssumption
  <2>6. x \in Nat
    BY <1>1, <2>1, BoundsAssumption
  <2>3. H!There = 1..x /\ x \in Nat
    BY <2>2, <2>5, <2>6
  <2>4. Cardinality(1..x) = x
    BY <2>3, FS_Interval
  <2>. QED  BY <1>1, <2>3, <2>4
<1>. QED  BY <1>2, <1>3

LEMMA PostGrows == ASSUME InOrder, H!Post PROVE InOrder' /\ Grows
<1>1. PICK m \in H!Ids \ H!There, by \in {"me", "friend", "foe"} :
        /\ m = Cardinality(H!There) + 1
        /\ msg' = [msg EXCEPT ![m] = [at |-> clock, by |-> by, gone |-> FALSE]]
        /\ clock' = clock + 1 /\ clock < PlaceTime
  BY DEF H!Post, H!Cardinality, Cardinality, H!IsFiniteSet, IsFiniteSet
<1>2. H!There = 1..m-1
  BY <1>1, PostIsLast
<1>3. /\ clock \in 1..PlaceTime /\ msg \in [H!Ids -> H!Message] /\ m \in Nat
      /\ \A x \in H!Ids : msg[x].at \in Nat /\ msg[x].at < clock /\ x \in Nat
      /\ H!Ids' = H!Ids /\ clock \in H!Times
  BY BoundsAssumption DEF InOrder, H!Ids, H!Message, H!Times
<1>4. \A x \in H!Ids : msg'[x] = IF x = m THEN [at |-> clock, by |-> by, gone |-> FALSE] ELSE msg[x]
  BY <1>1, <1>3
<1>5. msg' \in [H!Ids -> H!Message]
  BY <1>1, <1>3 DEF H!Message
<1>6. clock' \in 1..PlaceTime /\ \A x \in H!Ids : msg'[x].at < clock'
  BY <1>1, <1>3, <1>4, BoundsAssumption
<1>7. \A x \in H!Ids : x \in H!There <=> msg[x].at # 0
  BY DEF H!There
<1>8. ASSUME NEW x \in H!Ids, NEW y \in H!Ids, x < y, msg'[y].at # 0
      PROVE  msg'[x].at \in 1..msg'[y].at - 1
  <2>1. CASE y = m
    <3>1. x \in H!There /\ x # m
      BY <1>2, <1>3, <1>8, <2>1 DEF H!Ids
    <3>2. msg'[x].at = msg[x].at /\ msg[x].at # 0 /\ msg'[y].at = clock
      BY <1>4, <1>7, <2>1, <3>1
    <3>. QED  BY <1>3, <3>2, BoundsAssumption
  <2>2. CASE y # m
    <3>1. msg'[y] = msg[y] /\ y \in H!There
      BY <1>4, <1>7, <1>8, <2>2
    <3>2. x # m
      BY <1>2, <1>3, <1>8, <3>1
    <3>. QED  BY <1>4, <1>8, <3>1, <3>2 DEF InOrder
  <2>. QED  BY <2>1, <2>2
<1>9. \A x \in H!There : msg'[x] = msg[x] /\ msg[x].at # 0 /\ x \in H!Ids
  <2>1. \A x \in H!There : x # m /\ x \in H!Ids
    BY <1>1 DEF H!There
  <2>. QED  BY <2>1, <1>4, <1>7
<1>10. Grows
  BY <1>3, <1>9 DEF Grows, H!There
<1>. QED  BY <1>3, <1>5, <1>6, <1>8, <1>10 DEF InOrder

LEMMA DeleteGrows == ASSUME InOrder, H!Delete PROVE InOrder' /\ Grows
<1>1. PICK m \in H!There : msg' = [msg EXCEPT ![m].gone = TRUE] /\ clock' = clock
  BY DEF H!Delete
<1>2. msg \in [H!Ids -> H!Message] /\ m \in H!Ids /\ H!Ids' = H!Ids
  BY DEF InOrder, H!There, H!Ids
<1>3. msg' = [msg EXCEPT ![m] = [msg[m] EXCEPT !.gone = TRUE]]
  BY <1>1, <1>2
<1>4. [msg[m] EXCEPT !.gone = TRUE] \in H!Message
  BY <1>2 DEF H!Message
<1>5. msg' \in [H!Ids -> H!Message]
  BY <1>2, <1>3, <1>4
<1>6. \A x \in H!Ids : msg'[x].at = msg[x].at /\ msg'[x].by = msg[x].by
  BY <1>2, <1>3 DEF H!Message
<1>7. InOrder'
  BY <1>1, <1>2, <1>5, <1>6 DEF InOrder
<1>8. H!There' = H!There /\ H!There \subseteq H!Ids
  BY <1>2, <1>6 DEF H!There
<1>. QED  BY <1>6, <1>7, <1>8 DEF Grows

LEMMA RestGrows ==
    ASSUME InOrder, UNCHANGED msg, clock' = clock \/ (clock < PlaceTime /\ clock' = clock + 1)
    PROVE  InOrder' /\ Grows
<1>1. /\ clock \in 1..PlaceTime /\ clock' \in 1..PlaceTime /\ clock <= clock'
      /\ msg \in [H!Ids -> H!Message]
  BY BoundsAssumption DEF InOrder
<1>2. \A m \in H!Ids : msg[m].at \in Nat
  BY <1>1, BoundsAssumption DEF H!Message, H!Times
<1>3. \A m \in H!Ids : msg[m].at < clock'
  BY <1>1, <1>2, BoundsAssumption DEF InOrder
<1>4. InOrder'
  BY <1>1, <1>3 DEF InOrder, H!Ids
<1>. QED  BY <1>4 DEF Grows, H!There, H!Ids

-----------------------------------------------------------------------------
(* Histories: pages *)

LEMMA ScrollRests ==
    ASSUME InOrder, ScrollKept, Grows, UNCHANGED scroll
    PROVE  ScrollKept'
<1>1. \A m \in H!There : H!Twins(m) \subseteq H!Twins(m)'
  BY DEF Grows, H!Twins
<1>2. scroll.since \subseteq H!There /\ scroll.since \subseteq H!There'
  BY DEF ScrollKept, Grows
<1>3. \A m \in scroll.since \ scroll.kept :
        m \in scroll.got \/ H!Twins(m)' # {} \/ (scroll.more /\ msg'[m].at < scroll.cursor)
  BY <1>1, <1>2 DEF ScrollKept, Grows
<1>. QED  BY <1>2, <1>3 DEF ScrollKept

LEMMA IdleScroll ==
    /\ H!Idle \in H!Scroll /\ H!Idle.since = {} /\ H!Idle.got = {} /\ H!Idle.kept = {}
BY BoundsAssumption DEF H!Idle, H!Scroll

LEMMA ScrollBegins ==
    ASSUME InOrder, NEW of \in {"history", "search"}, H!Begin(of)
    PROVE  ScrollKept'
<1>1. /\ scroll' = [H!Idle EXCEPT !.of = of, !.cursor = PlaceTime + 1, !.more = TRUE,
                                  !.since = H!There]
      /\ msg' = msg
  BY DEF H!Begin
<1>2. H!There' = H!There /\ H!There \in SUBSET H!Ids /\ \A m \in H!There : msg[m].at \in 1..PlaceTime
  BY <1>1, ThereInOrder DEF H!There, H!Ids
<1>3. scroll'.since = H!There /\ scroll'.cursor = PlaceTime + 1 /\ scroll'.more
  BY <1>1 DEF H!Idle
<1>4. scroll' \in H!Scroll
  <2>1. PlaceTime + 1 \in 0..PlaceTime + 1 /\ H!There \in SUBSET H!Ids /\ {} \in SUBSET H!Ids
    BY <1>2, BoundsAssumption
  <2>2. scroll' = [of |-> of, cursor |-> PlaceTime + 1, got |-> {}, more |-> TRUE,
                   since |-> H!There, kept |-> {}]
    BY <1>1 DEF H!Idle
  <2>. QED  BY <2>1, <2>2 DEF H!Scroll
<1>5. \A m \in H!There : msg'[m].at < scroll'.cursor
  BY <1>1, <1>2, <1>3, BoundsAssumption
<1>. QED  BY <1>2, <1>3, <1>4, <1>5 DEF ScrollKept, H!Scroll

LEMMA ScrollEnds == ASSUME H!Leave PROVE ScrollKept'
<1>1. scroll' = H!Idle
  BY DEF H!Leave
<1>. QED  BY <1>1, IdleScroll DEF ScrollKept, H!Scroll

LEMMA ScrollPages ==
    ASSUME InOrder, ScrollKept, NEW kept \in SUBSET H!There, NEW grain \in {Milli, 1},
           H!Page(kept, grain), UNCHANGED msg
    PROVE  ScrollKept'
<1>. DEFINE T == {m \in H!There \ kept : msg[m].at < scroll.cursor}
            page == H!Newest(T, PageRows)
            end == CHOOSE m \in page : \A n \in page : m <= n
            next == IF page = {} THEN scroll.cursor ELSE H!CutTo(msg[end].at, grain)
            more == Cardinality(page) = PageRows
            got == scroll.got \cup page
            out == scroll.kept \cup kept
<1>1. scroll' = [scroll EXCEPT !.got = got, !.kept = out, !.more = more, !.cursor = next]
  BY DEF H!Page, H!Cardinality, Cardinality, H!IsFiniteSet, IsFiniteSet
<1>2. /\ scroll \in H!Scroll /\ scroll.since \subseteq H!There /\ scroll.more
      /\ scroll.cursor \in 0..PlaceTime + 1
  BY DEF ScrollKept, H!Page, H!Scroll
<1>3. /\ H!There \in SUBSET H!Ids
      /\ \A m \in H!There : msg[m].at \in 1..PlaceTime
      /\ \A m, n \in H!There : msg[m].at < msg[n].at <=> m < n
      /\ \A m \in H!There : m \in Nat
  BY ThereInOrder DEF H!Ids
<1>4. T \in SUBSET H!There /\ \A m : m \in T <=> m \in H!There \ kept /\ msg[m].at < scroll.cursor
  OBVIOUS
<1>. HIDE DEF T
<1>5. /\ page \subseteq T
      /\ \A m \in T \ page, r \in page : m < r
      /\ Cardinality(page) # PageRows => page = T
  BY <1>4, NewestOf, PagesAssumption
<1>. HIDE DEF page
<1>6. page # {} => end \in page
  <2>1. page \in SUBSET Nat
    BY <1>3, <1>4, <1>5
  <2>2. page # {} => \E m \in page : \A n \in page : m <= n
    BY <2>1, Least
  <2>. QED  BY <2>2
<1>. HIDE DEF end
<1>7. page # {} => msg[end].at \in 1..PlaceTime /\ H!CutTo(msg[end].at, grain) \in 0..msg[end].at
  BY <1>3, <1>4, <1>5, <1>6, CutsDown, PagesAssumption, BoundsAssumption
<1>8. next \in 0..PlaceTime + 1
  BY <1>2, <1>7, BoundsAssumption
<1>9. more \in BOOLEAN /\ (~more => page = T)
  BY <1>5
<1>10. got \in SUBSET H!Ids /\ out \in SUBSET H!Ids
  BY <1>2, <1>3, <1>4, <1>5 DEF H!Scroll
<1>11. ASSUME NEW m \in scroll.since \ out
       PROVE  m \in got \/ H!Twins(m) # {} \/ (more /\ msg[m].at < next)
  <2>1. SUFFICES ASSUME m \notin got, H!Twins(m) = {} PROVE more /\ msg[m].at < next
    OBVIOUS
  <2>2. m \in H!There /\ m \in T /\ m \notin page
    BY <1>2, <1>4, <1>11, <2>1 DEF ScrollKept
  <2>3. more
    BY <1>9, <2>2
  <2>4. CASE page = {}
    BY <1>4, <2>2, <2>3, <2>4
  <2>5. CASE page # {}
    <3>1. end \in H!There /\ m < end /\ m # end /\ msg[m].at < msg[end].at
      BY <1>3, <1>4, <1>5, <1>6, <2>2, <2>5
    <3>2. msg[m].at \in Nat /\ msg[end].at \in Nat /\ grain \in Nat \ {0}
      BY <1>3, <2>2, <3>1, PagesAssumption, BoundsAssumption
    <3>3. H!CutTo(msg[end].at, grain) \in Nat
      BY <1>7, <2>5
    <3>4. ASSUME ~(msg[m].at < next) PROVE FALSE
      <4>1. msg[m].at \in H!CutTo(msg[end].at, grain)..msg[end].at
        BY <2>5, <3>1, <3>2, <3>3, <3>4
      <4>2. grain # 1
        BY <3>1, <3>2, <4>1, CutsDown
      <4>3. H!Cut(msg[end].at) = H!Cut(msg[m].at)
        BY <3>2, <4>1, <4>2, CutsDown DEF H!Cut
      <4>. QED  BY <2>1, <3>1, <4>3 DEF H!Twins
    <3>. QED  BY <2>3, <3>4
  <2>. QED  BY <2>4, <2>5
<1>. HIDE DEF next, more, got, out
<1>12. /\ scroll'.got = got /\ scroll'.kept = out /\ scroll'.more = more /\ scroll'.cursor = next
       /\ scroll'.since = scroll.since
  BY <1>1, <1>2 DEF H!Scroll
<1>13. scroll' \in H!Scroll
  BY <1>1, <1>2, <1>8, <1>9, <1>10 DEF H!Scroll
<1>14. H!There' = H!There /\ \A m \in H!There : H!Twins(m)' = H!Twins(m)
  BY DEF H!There, H!Twins, H!Ids
<1>15. \A m \in scroll'.since \ scroll'.kept :
         m \in scroll'.got \/ H!Twins(m)' # {} \/ (scroll'.more /\ msg'[m].at < scroll'.cursor)
  BY <1>2, <1>11, <1>12, <1>14
<1>. QED  BY <1>2, <1>12, <1>13, <1>14, <1>15 DEF ScrollKept

-----------------------------------------------------------------------------
(* Histories: windows *)

LEMMA AroundRests ==
    ASSUME InOrder, AroundKept, Grows, UNCHANGED around
    PROVE  AroundKept'
<1>1. \A m \in H!There : H!Twins(m) \subseteq H!Twins(m)'
  BY DEF Grows, H!Twins
<1>2. around.rows \subseteq H!There' /\ (around.pc # "off" => around.target \in H!There')
  BY DEF AroundKept, Grows
<1>3. H!WindowHasNoHole'
  <2>1. SUFFICES ASSUME around.pc = "done",
                        NEW m \in H!Ids \ (around.rows \cup around.kept \cup H!Twins(around.target)')
                 PROVE  (\A n \in around.rows : m < n) \/ (\A n \in around.rows : m > n)
    BY DEF H!WindowHasNoHole, H!Ids
  <2>2. m \notin H!Twins(around.target)
    BY <1>1, <2>1 DEF AroundKept
  <2>. QED  BY <2>1, <2>2 DEF AroundKept, H!WindowHasNoHole
<1>. QED  BY <1>2, <1>3 DEF AroundKept, H!Window, H!Ids

LEMMA AroundBegins ==
    ASSUME InOrder, AroundKept, H!Target
    PROVE  AroundKept'
<1>1. PICK t \in H!There : around' = [around EXCEPT !.pc = "target", !.target = t]
  BY DEF H!Target
<1>2. around \in H!Window /\ t \in H!Ids /\ UNCHANGED msg
  BY DEF AroundKept, H!There, H!Target
<1>3. around' \in H!Window /\ around'.pc = "target" /\ around'.target = t /\ around'.rows = around.rows
  BY <1>1, <1>2 DEF H!Window
<1>. QED  BY <1>2, <1>3 DEF AroundKept, H!There, H!Ids, H!WindowHasNoHole, H!Window

LEMMA AroundEnds == ASSUME H!AroundAnswered PROVE AroundKept'
<1>1. around' = H!NoWindow
  BY DEF H!AroundAnswered
<1>2. H!NoWindow \in H!Window /\ H!NoWindow.pc = "off" /\ H!NoWindow.rows = {}
  BY DEF H!NoWindow, H!Window
<1>. QED  BY <1>1, <1>2 DEF AroundKept, H!WindowHasNoHole, H!Window, H!Ids

LEMMA AroundReads ==
    ASSUME InOrder, AroundKept, NEW kept \in SUBSET H!There, H!Surround(kept)
    PROVE  AroundKept'
<1>. DEFINE t == around.target
            edge == H!Cut(msg[t].at)
            Before(m) == msg[m].at < edge \/ (msg[m].at = edge /\ m < t)
            O == {m \in H!There \ (kept \cup {t}) : Before(m)}
            Y == {m \in H!There \ (kept \cup {t}) : ~Before(m)}
            older == H!Newest(O, HalfRows)
            newer == H!Oldest(Y, HalfRows)
            both == older \cup {t} \cup newer
<1>1. /\ around' = [around EXCEPT !.pc = "done", !.kept = kept, !.rows = both]
      /\ UNCHANGED msg /\ around.pc = "target"
  BY DEF H!Surround
<1>2. around \in H!Window /\ t \in H!There
  BY <1>1 DEF AroundKept
<1>3. /\ H!There \in SUBSET H!Ids
      /\ \A m \in H!There : m \in Nat /\ msg[m].at \in Nat
      /\ \A m, n \in H!There : msg[m].at < msg[n].at <=> m < n
      /\ \A m \in H!There, n \in H!Ids \ H!There : m < n
  BY ThereInOrder, BoundsAssumption DEF H!Ids
<1>4. /\ edge \in 0..msg[t].at
      /\ \A u \in edge..msg[t].at : H!Cut(u) = edge
  BY <1>2, <1>3, CutsDown, PagesAssumption DEF H!Cut
<1>. HIDE DEF t, edge
<1>5. \A m \in H!There \ (kept \cup {t}) : m \in O \/ m \in Y
  OBVIOUS
<1>6. ASSUME NEW m \in H!There, ~(m = t), m \notin H!Twins(t)
      PROVE  /\ Before(m) => m < t /\ msg[m].at < edge
             /\ ~Before(m) => t < m /\ edge < msg[m].at
  <2>1. /\ m \in Nat /\ t \in Nat /\ msg[m].at \in Nat /\ msg[t].at \in Nat /\ edge \in Nat
        /\ edge <= msg[t].at
        /\ msg[m].at < msg[t].at <=> m < t
    BY <1>2, <1>3, <1>4
  <2>2. ~(msg[m].at \in edge..msg[t].at)
    <3>1. H!Cut(msg[m].at) # edge
      BY <1>6 DEF H!Twins, edge
    <3>. QED  BY <1>4, <3>1
  <2>. QED  BY <1>6, <2>1, <2>2
<1>7. O \in SUBSET H!There /\ Y \in SUBSET H!There
  OBVIOUS
<1>8. /\ \A m \in O : m \in H!There /\ Before(m)
      /\ \A m \in Y : m \in H!There /\ ~Before(m)
  OBVIOUS
<1>. HIDE DEF O, Y
<1>9. older \subseteq O /\ \A m \in O \ older, r \in older : m < r
  BY <1>7, NewestOf, PagesAssumption
<1>10. newer \subseteq Y /\ \A m \in Y \ newer, r \in newer : r < m
  BY <1>7, OldestOf, PagesAssumption
<1>. HIDE DEF older, newer
<1>11. both \subseteq H!There /\ t \in both
  BY <1>2, <1>7, <1>9, <1>10
<1>12. ASSUME NEW m \in H!Ids \ (both \cup kept \cup H!Twins(t))
       PROVE  (\A n \in both : m < n) \/ (\A n \in both : m > n)
  <2>1. CASE m \notin H!There
    BY <1>3, <1>11, <2>1
  <2>2. CASE m \in O
    <3>1. m \in H!There /\ m # t /\ m < t /\ msg[m].at < edge /\ m \notin older
      BY <1>6, <1>8, <1>11, <1>12, <2>2
    <3>2. ASSUME NEW n \in newer PROVE m < n
      <4>1. n \in H!There /\ ~Before(n)
        BY <1>8, <1>10
      <4>2. msg[m].at < msg[n].at
        BY <1>2, <1>3, <1>4, <3>1, <4>1
      <4>. QED  BY <1>3, <3>1, <4>1, <4>2
    <3>. QED  BY <1>9, <2>2, <3>1, <3>2
  <2>3. CASE m \in Y
    <3>1. m \in H!There /\ m # t /\ t < m /\ edge < msg[m].at /\ m \notin newer
      BY <1>6, <1>8, <1>11, <1>12, <2>3
    <3>2. ASSUME NEW n \in older PROVE n < m
      <4>1. n \in H!There /\ Before(n)
        BY <1>8, <1>9
      <4>2. msg[n].at < msg[m].at
        BY <1>2, <1>3, <1>4, <3>1, <4>1
      <4>. QED  BY <1>3, <3>1, <4>1, <4>2
    <3>3. \A n \in both : n < m
      BY <1>10, <2>3, <3>1, <3>2
    <3>4. \A n \in both : n \in Nat
      BY <1>3, <1>11
    <3>5. m \in Nat
      BY <1>3, <3>1
    <3>. QED  BY <3>3, <3>4, <3>5
  <2>. QED  BY <1>5, <1>11, <1>12, <2>1, <2>2, <2>3
<1>. HIDE DEF both
<1>13. /\ around'.pc = "done" /\ around'.kept = kept /\ around'.rows = both /\ around'.target = t
       /\ around' \in H!Window
  BY <1>1, <1>2, <1>3, <1>11 DEF H!Window, t
<1>14. H!There' = H!There /\ H!Ids' = H!Ids /\ H!Twins(around.target)' = H!Twins(t)
  <2>1. UNCHANGED msg /\ around'.target = t
    BY <1>1, <1>13
  <2>. QED  BY <2>1 DEF H!There, H!Twins, H!Ids
<1>15. H!WindowHasNoHole'
  BY <1>12, <1>13, <1>14 DEF H!WindowHasNoHole
<1>. QED  BY <1>2, <1>11, <1>13, <1>14, <1>15 DEF AroundKept

-----------------------------------------------------------------------------
(* Histories: the rows of lists *)

\* What is unread stays so while messages come, and clocks pass.
LEMMA ListRests ==
    ASSUME InOrder, ListKept, Grows, UNCHANGED <<list, position>>,
           \A m \in H!There : msg'[m].gone = msg[m].gone
    PROVE  ListKept'
<1>1. list.still \subseteq H!There /\ list.still \subseteq H!Unread(msg, position)
  <2>1. H!Unread(msg, position) \subseteq H!There
    <3>1. position \in Nat
      BY BoundsAssumption DEF ListKept, H!Times
    <3>. QED  BY <3>1 DEF H!Unread, H!There
  <2>. QED  BY <2>1 DEF ListKept
<1>2. list.still \subseteq H!Unread(msg', position)
  BY <1>1 DEF H!Unread, Grows
<1>3. \A m \in list.still : msg'[m].at = msg[m].at
  BY <1>1 DEF Grows
<1>4. list.pc = "done" => \A m \in list.unread : msg'[m].at = msg[m].at /\ msg'[m].by = msg[m].by
  BY DEF ListKept, Grows
<1>5. H!CountsAreCurrent'
  BY <1>4 DEF H!CountsAreCurrent, ListKept
<1>6. list.pc = "done" => list.unread \subseteq H!There'
  BY DEF ListKept, Grows
<1>. QED  BY <1>2, <1>3, <1>5, <1>6 DEF ListKept, H!Row, H!Times, H!Ids

\* What is no longer unread is no longer held against the list.
LEMMA ListLoses ==
    ASSUME InOrder, ListKept, Grows, position' \in H!Times,
           NEW floor \in H!Times, floor <= list.floor,
           list.pc = "position" => floor <= position',
           list' = [list EXCEPT !.still = @ \cap H!Unread(msg', position'), !.floor = floor]
    PROVE  ListKept'
<1>. DEFINE still == list.still \cap H!Unread(msg', position')
<1>1. list \in H!Row
  BY DEF ListKept
<1>2. list' = [list EXCEPT !.still = still, !.floor = floor] /\ still \in SUBSET H!Ids
  BY <1>1 DEF H!Row
<1>3. still \subseteq list.still /\ still \subseteq H!Unread(msg', position')
  OBVIOUS
<1>. HIDE DEF still
<1>4. /\ list' \in H!Row /\ list'.pc = list.pc /\ list'.pos = list.pos
      /\ list'.unread = list.unread /\ list'.still = still /\ list'.floor = floor
  BY <1>1, <1>2 DEF H!Row
<1>5. list.still \subseteq H!There /\ list.floor \in Nat /\ list.pos \in Nat /\ floor \in Nat
  <2>1. position \in Nat /\ list.floor \in Nat /\ list.pos \in Nat /\ floor \in Nat
    BY <1>1, BoundsAssumption DEF ListKept, H!Times, H!Row
  <2>2. H!Unread(msg, position) \subseteq H!There
    BY <2>1 DEF H!Unread, H!There
  <2>. QED  BY <2>1, <2>2 DEF ListKept
<1>6. list.pc = "count" => floor <= list.pos /\ \A m \in still : list.pos < msg'[m].at
  BY <1>3, <1>5 DEF ListKept, Grows
<1>7. ASSUME list.pc = "done", NEW m \in list.unread
      PROVE  m \in H!There' /\ msg'[m].by # "me" /\ msg'[m].at > floor
  <2>1. m \in H!There /\ msg[m].by # "me" /\ msg[m].at > list.floor
    BY <1>7 DEF ListKept, H!CountsAreCurrent
  <2>2. msg[m].at \in Nat
    BY <2>1, BoundsAssumption, ThereInOrder
  <2>. QED  BY <1>5, <2>1, <2>2 DEF Grows
<1>8. list.pc = "done" => still \subseteq list.unread
  BY <1>3 DEF ListKept, H!CountsAreCurrent
<1>9. H!CountsAreCurrent'
  BY <1>4, <1>7, <1>8 DEF H!CountsAreCurrent
<1>10. list.pc = "done" => list.unread \subseteq H!There'
  BY <1>7
<1>. QED  BY <1>3, <1>4, <1>6, <1>9, <1>10 DEF ListKept, H!Row, H!Times, H!Ids

LEMMA ListDeletes == ASSUME InOrder, ListKept, H!Delete PROVE ListKept'
<1>1. /\ position' = position /\ position \in H!Times /\ list \in H!Row /\ list.floor \in H!Times
      /\ list' = [list EXCEPT !.still = @ \cap H!Unread(msg', position')]
  BY DEF H!Delete, ListKept, H!Row
<1>2. list' = [list EXCEPT !.still = @ \cap H!Unread(msg', position'), !.floor = list.floor]
  BY <1>1 DEF H!Row
<1>3. list.floor <= list.floor /\ (list.pc = "position" => list.floor <= position')
  BY <1>1, BoundsAssumption DEF ListKept, H!Times
<1>. QED  BY <1>1, <1>2, <1>3, DeleteGrows, ListLoses

LEMMA ListMoves ==
    ASSUME InOrder, ListKept, NEW pos \in H!Times, H!Moved(pos), UNCHANGED msg
    PROVE  ListKept'
<1>. DEFINE floor == IF pos < list.floor THEN pos ELSE list.floor
<1>1. /\ position' = pos /\ Grows
      /\ list' = [list EXCEPT !.still = @ \cap H!Unread(msg', position'), !.floor = floor]
  BY DEF H!Moved, Grows, H!There, H!Ids
<1>2. floor \in H!Times /\ floor <= list.floor /\ floor <= pos
  BY BoundsAssumption DEF ListKept, H!Times, H!Row
<1>. HIDE DEF floor
<1>. QED  BY <1>1, <1>2, ListLoses

LEMMA ListSteps ==
    ASSUME InOrder, ListKept,
           \/ H!ListBegin \/ H!ListPosition \/ H!ListRooms \/ H!ListUnread
           \/ H!ListConversations \/ H!ListArchived \/ H!ChatConversations \/ H!ListAnswered
    PROVE  ListKept'
<1>1. UNCHANGED <<msg, position>>
  BY DEF H!ListBegin, H!ListPosition, H!ListRooms, H!ListUnread, H!ListConversations,
         H!ListArchived, H!ChatConversations, H!ListAnswered, H!Count
<1>2. /\ H!NoRow \in H!Row /\ H!NoRow.pc = "off" /\ H!NoRow.still = {} /\ H!NoRow.unread = {}
      /\ H!NoRow = [pc |-> "off", pos |-> 0, unread |-> {}, still |-> {}, floor |-> 0]
  BY BoundsAssumption DEF H!NoRow, H!Row, H!Times
<1>3. list \in H!Row /\ position \in H!Times /\ position \in Nat /\ list.still \subseteq H!Unread(msg, position)
  BY BoundsAssumption DEF ListKept, H!Times
<1>4. H!Ids' = H!Ids /\ H!Times' = H!Times /\ H!There' = H!There
      /\ H!There \in SUBSET H!Ids /\ H!Unread(msg, position)' = H!Unread(msg, position)
      /\ H!Unread(msg, position) \in SUBSET H!There
  BY <1>1, <1>3 DEF H!Ids, H!Times, H!There, H!Unread
<1>5. CASE H!ListAnswered
  <2>1. list' = H!NoRow
    BY <1>5 DEF H!ListAnswered
  <2>. QED  BY <1>1, <1>2, <1>3, <1>4, <2>1 DEF ListKept, H!CountsAreCurrent, H!Row
<1>6. CASE H!ListBegin
  <2>. DEFINE still == H!Unread(msg, position)
  <2>1. list' = [pc |-> "position", pos |-> 0, unread |-> {}, still |-> still, floor |-> position]
    BY <1>2, <1>6 DEF H!ListBegin
  <2>2. still \in SUBSET H!Ids /\ 0 \in H!Times
    BY <1>4, BoundsAssumption DEF H!Times
  <2>. HIDE DEF still
  <2>3. list' \in H!Row /\ list'.pc = "position" /\ list'.still = still /\ list'.floor = position
    BY <1>3, <2>1, <2>2 DEF H!Row
  <2>. QED  BY <1>1, <1>3, <1>4, <2>3 DEF ListKept, H!CountsAreCurrent, H!Row, still
<1>7. CASE H!ListPosition
  <2>1. list.pc = "position" /\ list' = [list EXCEPT !.pc = "count", !.pos = position]
    BY <1>7 DEF H!ListPosition
  <2>2. /\ list' \in H!Row /\ list'.pc = "count" /\ list'.pos = position
        /\ list'.still = list.still /\ list'.floor = list.floor
    BY <1>3, <2>1 DEF H!Row
  <2>3. list.floor <= position /\ \A m \in list.still : position < msg[m].at
    <3>1. \A m \in list.still : m \in H!There /\ msg[m].at > position /\ msg[m].at \in Nat
      BY <1>3, <1>4, ThereInOrder, BoundsAssumption DEF H!Unread
    <3>. QED  BY <1>3, <2>1, <3>1 DEF ListKept
  <2>. QED  BY <1>1, <1>3, <1>4, <2>2, <2>3 DEF ListKept, H!CountsAreCurrent, H!Row
<1>8. ASSUME NEW pos \in H!Times, NEW without \in SUBSET H!There, H!Count(pos, without),
             list.floor <= pos, \A m \in list.still : pos < msg[m].at /\ m \notin without
      PROVE  ListKept'
  <2>. DEFINE Shown == {m \in H!There \ without : msg[m].at > pos /\ msg[m].by # "me"}
  <2>1. list' = [list EXCEPT !.pc = "done", !.unread = Shown] /\ Shown \in SUBSET H!There
    BY <1>8 DEF H!Count
  <2>2. \A m \in list.still : m \in H!There /\ msg[m].by # "me" /\ msg[m].at \in Nat
    BY <1>3, <1>4, ThereInOrder, BoundsAssumption DEF H!Unread
  <2>3. list.still \subseteq Shown
    BY <1>8, <2>2, BoundsAssumption DEF H!Times
  <2>4. \A m \in Shown : msg[m].by # "me" /\ msg[m].at > list.floor
    <3>1. list.floor \in Nat /\ pos \in Nat /\ \A m \in Shown : msg[m].at \in Nat
      BY <1>3, <2>1, ThereInOrder, BoundsAssumption DEF H!Times, H!Row
    <3>. QED  BY <1>8, <3>1
  <2>. HIDE DEF Shown
  <2>5. /\ list' \in H!Row /\ list'.pc = "done" /\ list'.unread = Shown
        /\ list'.still = list.still /\ list'.floor = list.floor
    BY <1>3, <1>4, <2>1 DEF H!Row
  <2>6. H!CountsAreCurrent'
    BY <1>1, <2>3, <2>4, <2>5 DEF H!CountsAreCurrent
  <2>. QED  BY <1>1, <1>3, <1>4, <2>1, <2>5, <2>6 DEF ListKept, H!Row
<1>9. CASE H!ListRooms \/ H!ListUnread
  <2>1. PICK without \in {{}, H!Deleted} : H!Count(list.pos, without) /\ list.pc = "count"
    BY <1>9 DEF H!ListRooms, H!ListUnread
  <2>2. H!Deleted \in SUBSET H!There /\ \A m \in list.still : m \notin H!Deleted
    BY <1>3, <1>4 DEF H!Deleted, H!Unread
  <2>3. list.pos \in H!Times /\ list.floor <= list.pos /\ \A m \in list.still : list.pos < msg[m].at
    BY <1>3, <2>1 DEF ListKept, H!Row
  <2>4. without \in SUBSET H!There /\ \A m \in list.still : m \notin without
    BY <2>1, <2>2
  <2>. QED  BY <1>8, <2>1, <2>3, <2>4
<1>10. CASE H!ListConversations \/ H!ListArchived \/ H!ChatConversations
  <2>1. H!Count(position, {}) /\ list.pc = "position"
    BY <1>10 DEF H!ListConversations, H!ListArchived, H!ChatConversations
  <2>2. list.floor <= position /\ \A m \in list.still : position < msg[m].at
    <3>1. \A m \in list.still : m \in H!There /\ msg[m].at > position /\ msg[m].at \in Nat
      BY <1>3, <1>4, ThereInOrder, BoundsAssumption DEF H!Unread
    <3>. QED  BY <1>3, <2>1, <3>1 DEF ListKept
  <2>. QED  BY <1>3, <1>8, <2>1, <2>2
<1>. QED  BY <1>5, <1>6, <1>7, <1>9, <1>10

-----------------------------------------------------------------------------
(* Histories: every step *)

LEMMA PlaceInit == H!Init => PlaceKept
<1>. SUFFICES ASSUME H!Init PROVE PlaceKept
  OBVIOUS
<1>1. \A m \in H!Ids : msg[m] = H!Absent
  BY DEF H!Init
<1>2. H!Absent.at = 0 /\ H!Absent \in H!Message /\ 0 \in H!Times /\ 1 \in 1..PlaceTime
  BY BoundsAssumption DEF H!Absent, H!Message, H!Times
<1>3. InOrder
  BY <1>1, <1>2 DEF InOrder, H!Init
<1>4. AskTyped
  BY <1>2 DEF AskTyped, H!Init
<1>5. ScrollKept
  BY IdleScroll DEF ScrollKept, H!Init
<1>6. AroundKept
  <2>1. around = H!NoWindow
    BY DEF H!Init
  <2>2. H!NoWindow \in H!Window /\ H!NoWindow.pc = "off" /\ H!NoWindow.rows = {}
    BY DEF H!NoWindow, H!Window
  <2>. QED  BY <2>1, <2>2 DEF AroundKept, H!WindowHasNoHole
<1>7. ListKept
  <2>1. list = H!NoRow /\ position = 0
    BY DEF H!Init
  <2>2. H!NoRow \in H!Row /\ H!NoRow.pc = "off" /\ H!NoRow.still = {}
    BY <1>2 DEF H!NoRow, H!Row
  <2>. QED  BY <1>2, <2>1, <2>2 DEF ListKept, H!CountsAreCurrent
<1>. QED  BY <1>3, <1>4, <1>5, <1>6, <1>7 DEF PlaceKept

\* The steps that page, and those that move the read position.
Scrolls ==
    \/ H!BeginHistory \/ H!BeginSearch \/ H!ConversationPage \/ H!GlobePage \/ H!RoomPage
    \/ H!SearchPage \/ H!Leave
Looks ==
    \/ H!Target \/ H!ConversationAround \/ H!GlobeAround \/ H!RoomAround \/ H!AroundAnswered
Reads(k) ==
    \/ H!RoomRead(k) \/ H!GlobeRead(k) \/ H!GlobeReadAll(k) \/ H!ConversationsRead(k)
Lists ==
    \/ H!ListBegin \/ H!ListPosition \/ H!ListRooms \/ H!ListUnread
    \/ H!ListConversations \/ H!ListArchived \/ H!ChatConversations \/ H!ListAnswered

LEMMA PlaceSteps ==
    H!Next <=> \/ H!Post \/ H!Tick \/ H!Delete \/ H!Block
               \/ \E k \in Marks : H!TakeTime(k) \/ Reads(k)
               \/ Scrolls \/ Looks \/ Lists
BY DEF H!Next, Scrolls, Looks, Reads, Lists

LEMMA InOrderStep ==
    ASSUME InOrder, [H!Next]_(H!vars)
    PROVE  InOrder' /\ Grows /\ (H!Delete \/ \A m \in H!There : msg'[m].gone = msg[m].gone)
<1>1. CASE H!Post
  <2>1. PICK m \in H!Ids \ H!There, by \in {"me", "friend", "foe"} :
          msg' = [msg EXCEPT ![m] = [at |-> clock, by |-> by, gone |-> FALSE]]
    BY <1>1 DEF H!Post
  <2>2. \A n \in H!There : msg'[n] = msg[n]
    BY <2>1 DEF InOrder, H!There
  <2>. QED  BY <1>1, <2>2, PostGrows
<1>2. CASE H!Delete
  BY <1>2, DeleteGrows
<1>3. CASE ~H!Post /\ ~H!Delete
  <2>1. CASE H!Tick
    BY <2>1, RestGrows DEF H!Tick
  <2>2. CASE UNCHANGED H!vars
    BY <2>2, RestGrows DEF H!vars
  <2>3. ASSUME NEW k \in Marks, H!TakeTime(k) \/ Reads(k)
        PROVE  UNCHANGED <<msg, clock>>
    BY <2>3 DEF H!TakeTime, Reads, H!RoomRead, H!GlobeRead, H!GlobeReadAll, H!ConversationsRead,
                H!Write
  <2>4. CASE H!Block \/ Scrolls \/ Looks \/ Lists
    <3>1. UNCHANGED <<msg, clock>>
      BY <2>4
      DEF H!Block, Scrolls, H!BeginHistory, H!BeginSearch, H!Begin, H!ConversationPage,
          H!GlobePage, H!RoomPage, H!SearchPage, H!Page, H!Leave, Looks, H!Target,
          H!ConversationAround, H!GlobeAround, H!RoomAround, H!Surround, H!AroundAnswered,
          Lists, H!ListBegin, H!ListPosition, H!ListRooms, H!ListUnread, H!ListConversations,
          H!ListArchived, H!ChatConversations, H!Count, H!ListAnswered
    <3>. QED  BY <3>1, RestGrows
  <2>. QED  BY <1>3, <2>1, <2>2, <2>3, <2>4, RestGrows, PlaceSteps
<1>. QED  BY <1>1, <1>2, <1>3

LEMMA AskTypedStep == ASSUME InOrder, AskTyped, [H!Next]_(H!vars) PROVE AskTyped'
<1>0. H!Times' = H!Times /\ 0 \in H!Times /\ clock \in H!Times
  BY BoundsAssumption DEF H!Times, InOrder
<1>1. ASSUME NEW k \in Marks, H!TakeTime(k) \/ Reads(k) PROVE AskTyped'
  BY <1>0, <1>1
  DEF AskTyped, H!TakeTime, Reads, H!RoomRead, H!GlobeRead, H!GlobeReadAll, H!ConversationsRead,
      H!Write
<1>2. CASE H!Block
  BY <1>0, <1>2 DEF AskTyped, H!Block
<1>3. CASE H!Post \/ H!Tick \/ H!Delete \/ Scrolls \/ Looks \/ Lists \/ UNCHANGED H!vars
  <2>1. UNCHANGED <<asks, place, blocked, mark>>
    BY <1>3
    DEF H!Post, H!Tick, H!Delete, Scrolls, H!BeginHistory, H!BeginSearch, H!Begin,
        H!ConversationPage, H!GlobePage, H!RoomPage, H!SearchPage, H!Page, H!Leave, Looks,
        H!Target, H!ConversationAround, H!GlobeAround, H!RoomAround, H!Surround,
        H!AroundAnswered, Lists, H!ListBegin, H!ListPosition, H!ListRooms, H!ListUnread,
        H!ListConversations, H!ListArchived, H!ChatConversations, H!Count, H!ListAnswered,
        H!vars
  <2>. QED  BY <1>0, <2>1 DEF AskTyped
<1>. QED  BY <1>1, <1>2, <1>3, PlaceSteps

LEMMA ScrollStep == ASSUME InOrder, ScrollKept, [H!Next]_(H!vars) PROVE ScrollKept'
<1>1. CASE Scrolls
  <2>1. CASE H!BeginHistory \/ H!BeginSearch
    BY <2>1, ScrollBegins DEF H!BeginHistory, H!BeginSearch
  <2>2. CASE H!Leave
    BY <2>2, ScrollEnds
  <2>3. CASE H!ConversationPage \/ H!GlobePage \/ H!RoomPage \/ H!SearchPage
    <3>1. PICK kept \in {{}, H!Foes, H!Foes \cup H!Deleted}, grain \in {Milli, 1} :
            H!Page(kept, grain)
      BY <2>3 DEF H!ConversationPage, H!GlobePage, H!RoomPage, H!SearchPage
    <3>2. kept \in SUBSET H!There
      BY <3>1 DEF H!Foes, H!Deleted
    <3>3. UNCHANGED msg
      BY <3>1 DEF H!Page
    <3>. QED  BY <3>1, <3>2, <3>3, ScrollPages
  <2>. QED  BY <1>1, <2>1, <2>2, <2>3 DEF Scrolls
<1>2. CASE ~Scrolls
  <2>1. UNCHANGED scroll
    <3>1. ASSUME NEW k \in Marks, H!TakeTime(k) \/ Reads(k) PROVE UNCHANGED scroll
      BY <3>1 DEF H!TakeTime, Reads, H!RoomRead, H!GlobeRead, H!GlobeReadAll,
                  H!ConversationsRead, H!Write
    <3>2. CASE H!Post \/ H!Tick \/ H!Delete \/ H!Block \/ Looks \/ Lists \/ UNCHANGED H!vars
      BY <3>2
      DEF H!Post, H!Tick, H!Delete, H!Block, Looks, H!Target, H!ConversationAround,
          H!GlobeAround, H!RoomAround, H!Surround, H!AroundAnswered, Lists, H!ListBegin,
          H!ListPosition, H!ListRooms, H!ListUnread, H!ListConversations, H!ListArchived,
          H!ChatConversations, H!Count, H!ListAnswered, H!vars
    <3>. QED  BY <1>2, <3>1, <3>2, PlaceSteps
  <2>. QED  BY <2>1, InOrderStep, ScrollRests
<1>. QED  BY <1>1, <1>2

LEMMA AroundStep == ASSUME InOrder, AroundKept, [H!Next]_(H!vars) PROVE AroundKept'
<1>1. CASE Looks
  <2>1. CASE H!ConversationAround \/ H!GlobeAround \/ H!RoomAround
    <3>1. PICK kept \in {H!Deleted, H!Deleted \cup H!Foes} : H!Surround(kept)
      BY <2>1 DEF H!ConversationAround, H!GlobeAround, H!RoomAround
    <3>2. kept \in SUBSET H!There
      BY <3>1 DEF H!Foes, H!Deleted
    <3>. QED  BY <3>1, <3>2, AroundReads
  <2>. QED  BY <1>1, <2>1, AroundBegins, AroundEnds DEF Looks
<1>2. CASE ~Looks
  <2>1. UNCHANGED around
    <3>1. ASSUME NEW k \in Marks, H!TakeTime(k) \/ Reads(k) PROVE UNCHANGED around
      BY <3>1 DEF H!TakeTime, Reads, H!RoomRead, H!GlobeRead, H!GlobeReadAll,
                  H!ConversationsRead, H!Write
    <3>2. CASE H!Post \/ H!Tick \/ H!Delete \/ H!Block \/ Scrolls \/ Lists \/ UNCHANGED H!vars
      BY <3>2
      DEF H!Post, H!Tick, H!Delete, H!Block, Scrolls, H!BeginHistory, H!BeginSearch, H!Begin,
          H!ConversationPage, H!GlobePage, H!RoomPage, H!SearchPage, H!Page, H!Leave, Lists,
          H!ListBegin, H!ListPosition, H!ListRooms, H!ListUnread, H!ListConversations,
          H!ListArchived, H!ChatConversations, H!Count, H!ListAnswered, H!vars
    <3>. QED  BY <1>2, <3>1, <3>2, PlaceSteps
  <2>. QED  BY <2>1, InOrderStep, AroundRests
<1>. QED  BY <1>1, <1>2

LEMMA ListStep == ASSUME InOrder, AskTyped, ListKept, [H!Next]_(H!vars) PROVE ListKept'
<1>0. clock \in H!Times
  BY BoundsAssumption DEF H!Times, InOrder
<1>1. CASE Lists
  BY <1>1, ListSteps DEF Lists
<1>2. CASE H!Delete
  BY <1>2, ListDeletes
<1>3. ASSUME NEW k \in Marks, Reads(k) PROVE ListKept'
  <2>1. H!Moved(mark[k]) /\ UNCHANGED msg /\ mark[k] \in H!Times
    BY <1>3 DEF Reads, H!RoomRead, H!GlobeRead, H!GlobeReadAll, H!ConversationsRead, H!Write,
                AskTyped
  <2>. QED  BY <2>1, ListMoves
<1>4. CASE H!ConversationPage \/ (H!Target /\ place = "conversation")
  <2>1. H!Moved(clock) /\ UNCHANGED msg
    BY <1>4 DEF H!ConversationPage, H!Page, H!Target
  <2>. QED  BY <1>0, <2>1, ListMoves
<1>5. CASE /\ ~Lists /\ ~H!Delete /\ ~(\E k \in Marks : Reads(k))
           /\ ~H!ConversationPage /\ ~(H!Target /\ place = "conversation")
  <2>1. UNCHANGED <<list, position>>
    <3>1. ASSUME NEW k \in Marks, H!TakeTime(k) PROVE UNCHANGED <<list, position>>
      BY <3>1 DEF H!TakeTime
    <3>2. CASE H!Post \/ H!Tick \/ H!Block \/ Scrolls \/ Looks \/ UNCHANGED H!vars
      BY <1>5, <3>2
      DEF H!Post, H!Tick, H!Block, Scrolls, H!BeginHistory, H!BeginSearch, H!Begin,
          H!GlobePage, H!RoomPage, H!SearchPage, H!Leave, Looks, H!Target,
          H!ConversationAround, H!GlobeAround, H!RoomAround, H!Surround, H!AroundAnswered,
          H!vars
    <3>. QED  BY <1>5, <3>1, <3>2, PlaceSteps
  <2>. QED  BY <1>5, <2>1, InOrderStep, ListRests
<1>. QED  BY <1>1, <1>2, <1>3, <1>4, <1>5

LEMMA PlaceStep == PlaceKept /\ [H!Next]_(H!vars) => PlaceKept'
BY InOrderStep, AskTypedStep, ScrollStep, AroundStep, ListStep DEF PlaceKept

LEMMA PlaceMoves == InboxSpec => H!Init /\ [][H!Next]_(H!vars)
<1>1. InboxInit => H!Init
  BY DEF InboxInit
<1>2. [InboxNext]_inboxVars => [H!Next]_(H!vars)
  BY DEF InboxNext, inboxVars, hvars, H!vars
<1>. QED  BY <1>1, <1>2, PTL DEF InboxSpec

LEMMA PlaceIsKept == InboxSpec => []PlaceKept
BY PlaceInit, PlaceStep, PlaceMoves, PTL

LEMMA PlaceIsWhole ==
    PlaceKept => H!TypeOK /\ H!PagesReachBack /\ H!WindowHasNoHole /\ H!CountsAreCurrent
<1>. SUFFICES ASSUME PlaceKept
              PROVE  H!TypeOK /\ H!PagesReachBack /\ H!WindowHasNoHole /\ H!CountsAreCurrent
  OBVIOUS
<1>1. H!TypeOK
  BY DEF PlaceKept, InOrder, AskTyped, ScrollKept, AroundKept, ListKept, H!TypeOK
<1>2. H!PagesReachBack
  BY DEF PlaceKept, ScrollKept, H!PagesReachBack
<1>. QED  BY <1>1, <1>2 DEF PlaceKept, AroundKept, ListKept

-----------------------------------------------------------------------------
(* The inbox *)

\* For any number of messages, marks and rows to a page or window: pages that were
\* followed to the end, windows and unread counts leave out nothing that was there
\* throughout, but what they hide on purpose or what shares a millisecond at a cut.
THEOREM AnswersStayWhole == InboxSpec => []AnswersAreWhole
BY PlaceIsKept, PlaceIsWhole, PTL DEF AnswersAreWhole

\* Rooms, buckets, histories and bells are well typed, whatever the sizes.
THEOREM InboxTypeCorrect == InboxSpec => []InboxTypeOK
<1>1. RoomTyped /\ RungOnce => R!TypeOK
  <2>1. [1..RoomMessages -> {0, 1}] \subseteq [1..RoomMessages -> 0..2]
    OBVIOUS
  <2>. QED  BY <2>1 DEF RoomTyped, ReaderTyped, SendsTyped, RungOnce, R!TypeOK
<1>2. R!Init => RoomTyped /\ RungOnce
  BY RoomTypedInit, RungOnceInit
<1>3. InboxSpec => Spec
  <2>1. InboxInit => Init
    BY DEF InboxInit
  <2>2. [InboxNext]_inboxVars => [Next]_vars
    BY DEF InboxNext, inboxVars
  <2>. QED  BY <2>1, <2>2, PTL DEF InboxSpec, Spec
<1>4. Inv => TypeOK
  BY DEF Inv
<1>6. B!TypeOK /\ RequestsKept /\ [B!Next]_(B!vars) => B!TypeOK' /\ RequestsKept'
  BY BellStep
<1>5. R!TypeOK /\ TypeOK /\ PlaceKept /\ B!TypeOK => InboxTypeOK
  BY PlaceIsWhole DEF InboxTypeOK
<1>. QED
  BY <1>1, <1>2, <1>3, <1>4, <1>5, RoomsMove, RoomTypedStep, RungOnceStep, InvHolds,
     PlaceIsKept, BellInit, <1>6, BellMoves, PTL

-----------------------------------------------------------------------------
(* Accounts: which part moves *)

\* Whatever moves, the parts that are proved about take a step of theirs or none.
LEMMA PartsMove ==
    ASSUME [AccountsNext]_accountsVars
    PROVE  /\ S!Next \/ UNCHANGED svars
           /\ W!Next \/ UNCHANGED wvars
           /\ J!Next \/ UNCHANGED jvars
           /\ V!Next \/ UNCHANGED vvars
           /\ K!Next \/ UNCHANGED kvars
BY Zenon DEF AccountsNext, accountsVars

-----------------------------------------------------------------------------
(* Accounts: an identity leads to one account *)

\* A login that has an account in hand.
InHand == {"link", "reread", "profile", "fresh", "answer"}

\* What sign-ins know: the account in hand was made, nobody is told of an account
\* that is gone, and a barred identity is on a banned account that is there.
Known ==
    /\ \A a \in S!Accounts : ~S!Exists(a) => account[a] = S!NoRow
    /\ \A l \in Slots : login[l].pc \in InHand => login[l].user \in S!Made \cup gone
    /\ \A p \in S!Provider : told[p] \subseteq S!Made
    /\ \A p \in barred : \E b \in S!Made : p \in account[b].holds /\ account[b].banned

\* Every account that a session was given of, or is about to be, holds the identity it
\* was given for; one without a profile is about to have it.
Linked ==
    /\ \A p \in S!Provider : \A a \in told[p] : p \in account[a].holds
    /\ \A l \in Slots :
         login[l].pc \in {"reread", "fresh", "answer"} /\ login[l].user \in S!Made =>
           login[l].by \in account[login[l].user].holds
    /\ \A a \in S!Made :
         account[a].profile \/ \E l \in Slots : login[l].user = a /\ login[l].pc = "profile"

Identified == S!TypeOK /\ Known /\ (excused \/ Linked)

\* An account holds an identity alone.
LEMMA IdentifiedHolds == Identified => IdentityHolds
<1>. SUFFICES ASSUME S!TypeOK, Known, Linked PROVE S!OneAccount /\ S!BanHolds
  BY DEF Identified, IdentityHolds, S!OneAccount, S!BanHolds
<1>1. \A a, b \in S!Made : account[a].holds \cap account[b].holds # {} => a = b
  BY DEF S!TypeOK
<1>2. ASSUME NEW p \in S!Provider, NEW a \in S!Made, NEW b \in S!Made, a \in told[p], b \in told[p]
      PROVE  a = b
  BY <1>1, <1>2 DEF Linked
<1>3. ASSUME NEW p \in barred, NEW a \in S!Made, a \in told[p] PROVE account[a].banned
  <2>1. PICK b \in S!Made : p \in account[b].holds /\ account[b].banned
    BY <1>3 DEF Known
  <2>2. p \in account[a].holds
    BY <1>3 DEF Linked, S!TypeOK
  <2>. QED  BY <1>1, <2>1, <2>2
<1>. QED  BY <1>2, <1>3 DEF S!OneAccount, S!BanHolds, Linked


LEMMA InitIdentified == AccountsInit => Identified
<1>. SUFFICES ASSUME S!Init PROVE S!TypeOK /\ Known /\ Linked
  BY Zenon DEF AccountsInit, Identified
<1>1. S!NoRow \in S!Row /\ S!NoLogin \in S!Login /\ S!Made = {} /\ S!NoRow.holds = {}
  BY DEF S!Init, S!Made, S!Exists, S!Row, S!NoRow, S!Login, S!NoLogin, S!Provider
<1>. QED  BY <1>1 DEF S!Init, S!TypeOK, Known, Linked, InHand, S!NoLogin

\* One sign-in goes on, and no row is written.
LEMMA SignInMoves ==
    ASSUME Identified, NEW l \in Slots, NEW y \in S!Login,
           login' = [login EXCEPT ![l] = y],
           UNCHANGED <<account, erasing, gone, told, barred>>,
           excused' \in BOOLEAN, excused => excused',
           y.pc \in InHand => y.user \in S!Made \cup gone,
           Linked /\ ~excused' /\ y.pc \in {"reread", "fresh", "answer"} /\ y.user \in S!Made
             => y.by \in account[y.user].holds,
           login[l].pc = "profile" /\ login[l].user \in S!Made => excused'
    PROVE  Identified'
<1>1. S!Made' = S!Made /\ \A a \in S!Accounts : S!Exists(a)' = S!Exists(a)
  BY DEF S!Made, S!Exists
<1>2. \A k \in Slots : login'[k] = IF k = l THEN y ELSE login[k]
  BY DEF Identified, S!TypeOK
<1>3. S!TypeOK'
  <2>1. login' \in [Slots -> S!Login]
    BY DEF Identified, S!TypeOK
  <2>. QED  BY <1>1, <2>1 DEF Identified, S!TypeOK
<1>4. Known'
  BY <1>1, <1>2 DEF Identified, Known
<1>5. ASSUME ~excused' PROVE Linked'
  <2>1. Linked
    BY <1>5 DEF Identified
  <2>2. ASSUME NEW k \in Slots, login'[k].pc \in {"reread", "fresh", "answer"},
               login'[k].user \in S!Made
        PROVE  login'[k].by \in account[login'[k].user].holds
    BY <1>2, <1>5, <2>1, <2>2 DEF Linked
  <2>3. ASSUME NEW a \in S!Made, ~account[a].profile
        PROVE  \E k \in Slots : login'[k].user = a /\ login'[k].pc = "profile"
    BY <1>2, <1>5, <2>1, <2>3 DEF Linked
  <2>. QED  BY <1>1, <2>1, <2>2, <2>3 DEF Linked
<1>. QED  BY <1>3, <1>4, <1>5 DEF Identified

\* Steps of a sign-in that only read.
LEMMA ReadsAreKnown ==
    ASSUME Identified, NEW l \in Slots
    PROVE  /\ \A p \in S!Provider, mailed \in BOOLEAN : S!Arrive(l, p, mailed) => Identified'
           /\ S!LookUp(l) => Identified'
           /\ S!FindByEmail(l) => Identified'
           /\ S!Reread(l) => Identified'
           /\ S!ReadFresh(l) => Identified'
<1>1. /\ login \in [Slots -> S!Login] /\ login[l] \in S!Login /\ excused \in BOOLEAN
      /\ S!NoLogin \in S!Login /\ S!NoLogin.pc = "idle" /\ S!Made \subseteq S!Accounts
  BY DEF Identified, S!TypeOK, S!Login, S!NoLogin, S!Provider, S!Made
<1>. DEFINE x == login[l]
<1>2. ASSUME S!Refuse(l), UNCHANGED <<account, excused, erasing, gone, told, barred>>, x.pc # "profile"
      PROVE  Identified'
  BY <1>1, <1>2, SignInMoves DEF S!Refuse, InHand
<1>3. ASSUME NEW a \in S!Made, x.by \in account[a].holds \/ excused, S!Admit(l, a), x.pc # "profile",
             UNCHANGED <<account, excused, erasing, gone, told, barred>>
      PROVE  Identified'
  <2>. DEFINE y == [x EXCEPT !.user = a, !.pc = "answer"]
  <2>1. CASE account[a].banned
    BY <1>2, <1>3, <2>1 DEF S!Admit
  <2>2. CASE ~account[a].banned
    <3>1. login' = [login EXCEPT ![l] = y]
      BY <1>1, <1>3, <2>2 DEF S!Admit
    <3>2. y \in S!Login /\ y.pc = "answer" /\ y.user = a /\ y.by = x.by
      BY <1>1 DEF S!Login
    <3>. QED  BY <1>1, <1>3, <3>1, <3>2, SignInMoves DEF InHand
  <2>. QED  BY <2>1, <2>2
<1>4. ASSUME NEW pc \in {"email", "insert"}, S!Goto(l, pc), x.pc # "profile",
             UNCHANGED <<account, excused, erasing, gone, told, barred>>
      PROVE  Identified'
  <2>. DEFINE y == [x EXCEPT !.pc = pc]
  <2>1. login' = [login EXCEPT ![l] = y] /\ y \in S!Login /\ y.pc = pc
    BY <1>1, <1>4 DEF S!Goto, S!Login
  <2>. QED  BY <1>1, <1>4, <2>1, SignInMoves DEF InHand
<1>5. ASSUME NEW p \in S!Provider, NEW mailed \in BOOLEAN, S!Arrive(l, p, mailed)
      PROVE  Identified'
  <2>. DEFINE y == [S!NoLogin EXCEPT !.by = p, !.mailed = mailed, !.pc = "lookup"]
  <2>1. login' = [login EXCEPT ![l] = y] /\ y \in S!Login /\ y.pc = "lookup" /\ x.pc = "idle"
    BY <1>1, <1>5 DEF S!Arrive, S!Login, S!NoLogin, S!Provider
  <2>. QED  BY <1>1, <1>5, <2>1, SignInMoves DEF S!Arrive, S!Outside, InHand
<1>6. ASSUME S!LookUp(l) PROVE Identified'
  <2>1. x.pc = "lookup" /\ UNCHANGED <<account, excused, erasing, gone, told, barred>>
    BY <1>6 DEF S!LookUp, S!Outside
  <2>. QED  BY <1>3, <1>4, <1>6, <2>1 DEF S!LookUp
<1>7. ASSUME S!FindByEmail(l) PROVE Identified'
  <2>1. x.pc = "email" /\ UNCHANGED <<account, excused, erasing, gone, told, barred>>
    BY <1>7 DEF S!FindByEmail, S!Outside
  <2>2. ASSUME NEW a \in S!Made, login' = [login EXCEPT ![l].user = a, ![l].pc = "link"]
        PROVE  Identified'
    <3>. DEFINE y == [x EXCEPT !.user = a, !.pc = "link"]
    <3>1. login' = [login EXCEPT ![l] = y] /\ y \in S!Login /\ y.pc = "link" /\ y.user = a
      BY <1>1, <2>2 DEF S!Login
    <3>. QED  BY <1>1, <2>1, <3>1, SignInMoves DEF InHand
  <2>. QED  BY <1>4, <1>7, <2>1, <2>2 DEF S!FindByEmail
<1>8. ASSUME S!Reread(l) PROVE Identified'
  <2>1. x.pc = "reread" /\ UNCHANGED <<account, excused, erasing, gone, told, barred>>
    BY <1>8 DEF S!Reread, S!Outside
  <2>2. x.user \in S!Made \cup gone /\ x.by \in S!Provider
    BY <1>1, <2>1 DEF Identified, Known, InHand, S!Login
  <2>3. CASE S!Exists(x.user)
    <3>1. x.user \in S!Made /\ (x.by \in account[x.user].holds \/ excused)
      BY <2>1, <2>2, <2>3 DEF Identified, Linked, S!TypeOK, S!Made
    <3>. QED  BY <1>3, <1>8, <2>1, <2>3, <3>1 DEF S!Reread
  <2>4. CASE ~S!Exists(x.user)
    BY <1>2, <1>4, <1>8, <2>1, <2>2, <2>4 DEF S!Reread, S!Provider
  <2>. QED  BY <2>3, <2>4
<1>9. ASSUME S!ReadFresh(l) PROVE Identified'
  <2>1. x.pc = "fresh" /\ UNCHANGED <<account, excused, erasing, gone, told, barred>>
    BY <1>9 DEF S!ReadFresh, S!Outside
  <2>2. x.user \in S!Made \cup gone
    BY <2>1 DEF Identified, Known, InHand
  <2>3. CASE S!Exists(x.user)
    <3>1. x.user \in S!Made /\ (x.by \in account[x.user].holds \/ excused)
      BY <2>1, <2>2, <2>3 DEF Identified, Linked, S!TypeOK, S!Made
    <3>. QED  BY <1>3, <1>9, <2>1, <2>3, <3>1 DEF S!ReadFresh
  <2>4. CASE ~S!Exists(x.user)
    <3>. DEFINE y == [x EXCEPT !.pc = "answer"]
    <3>1. login' = [login EXCEPT ![l] = y] /\ y \in S!Login /\ y.pc = "answer" /\ y.user = x.user
      BY <1>1, <1>9, <2>4 DEF S!ReadFresh, S!Goto, S!Login
    <3>2. y.user \notin S!Made
      BY <2>4, <3>1 DEF S!Made
    <3>. QED  BY <1>1, <2>1, <2>2, <3>1, <3>2, SignInMoves
  <2>. QED  BY <2>3, <2>4
<1>. QED  BY <1>5, <1>6, <1>7, <1>8, <1>9


\* What a sign-in has in hand, and the types of what it touches.
LEMMA LoginTyped ==
    ASSUME Identified, NEW l \in Slots
    PROVE  /\ login \in [Slots -> S!Login] /\ login[l] \in S!Login
           /\ login[l].by \in S!Provider
           /\ account \in [S!Accounts -> S!Row]
           /\ excused \in BOOLEAN /\ S!Made \subseteq S!Accounts
           /\ S!NoLogin \in S!Login /\ S!NoLogin.pc = "idle"
           /\ login[l].pc \in InHand => login[l].user \in S!Made \cup gone
           /\ \A a \in S!Accounts : a \in S!Made <=> S!Exists(a)
BY DEF Identified, Known, S!TypeOK, S!Login, S!NoLogin, S!Provider, S!Made

\* An account that was there is given a row that is, under the address it had; no
\* identity goes, and none comes that another account holds.
LEMMA AccountMoves ==
    ASSUME Identified, NEW a \in S!Made, NEW w \in S!Row,
           account' = [account EXCEPT ![a] = w],
           w.email = account[a].email, account[a].holds \subseteq w.holds,
           w.holds # {} => w.profile,
           \A b \in S!Made \ {a} : account[b].holds \cap w.holds = {}
    PROVE  /\ account' \in [S!Accounts -> S!Row]
           /\ S!Made' = S!Made
           /\ \A b \in S!Accounts : account'[b] = IF b = a THEN w ELSE account[b]
           /\ \A b \in S!Accounts : account'[b].holds # {} => account'[b].profile
           /\ \A b, c \in S!Made : account'[b].email = account'[c].email => b = c
           /\ \A b, c \in S!Made : account'[b].holds \cap account'[c].holds # {} => b = c
           /\ \A b \in S!Accounts : ~S!Exists(b)' => account'[b] = S!NoRow
           /\ \A b \in S!Made : account[b].holds \subseteq account'[b].holds
<1>1. /\ account \in [S!Accounts -> S!Row] /\ a \in S!Accounts
      /\ \A b \in S!Accounts : account[b].holds # {} => account[b].profile
      /\ \A b, c \in S!Made : account[b].email = account[c].email => b = c
      /\ \A b, c \in S!Made : account[b].holds \cap account[c].holds # {} => b = c
      /\ S!Made \subseteq S!Accounts
  BY DEF Identified, S!TypeOK, S!Made
<1>2. \A b \in S!Accounts : account'[b] = IF b = a THEN w ELSE account[b]
  BY <1>1
<1>3. /\ S!Made' = S!Made
      /\ \A b \in S!Accounts : S!Exists(b)' <=> S!Exists(b)
  BY <1>1, <1>2 DEF S!Made, S!Exists
<1>4. \A b \in S!Accounts : ~S!Exists(b)' => account'[b] = S!NoRow
  BY <1>1, <1>2, <1>3 DEF Identified, Known, S!Made
<1>5. account' \in [S!Accounts -> S!Row]
  BY <1>1
<1>6. \A b \in S!Accounts : account'[b].holds # {} => account'[b].profile
  BY <1>1, <1>2
<1>7. \A b, c \in S!Made : account'[b].email = account'[c].email => b = c
  BY <1>1, <1>2
<1>8. \A b, c \in S!Made : account'[b].holds \cap account'[c].holds # {} => b = c
  BY <1>1, <1>2
<1>9. \A b \in S!Made : account[b].holds \subseteq account'[b].holds
  BY <1>1, <1>2
<1>. QED  BY <1>2, <1>3, <1>4, <1>5, <1>6, <1>7, <1>8, <1>9

\* A sign-in writes an account it has in hand, and has the identity on it thereafter.
LEMMA WritesAreKnown ==
    ASSUME Identified, NEW l \in Slots, NEW w \in S!Row, NEW pc \in {"reread", "fresh"},
           login[l].user \in S!Made, login' = [login EXCEPT ![l].pc = pc],
           login[l].pc \in InHand,
           account' = [account EXCEPT ![login[l].user] = w],
           w.email = account[login[l].user].email, w.banned = account[login[l].user].banned,
           account[login[l].user].holds \subseteq w.holds,
           w.holds # {} => w.profile,
           \A b \in S!Made \ {login[l].user} : account[b].holds \cap w.holds = {},
           UNCHANGED <<erasing, gone, told, barred>>,
           excused' \in BOOLEAN, excused => excused',
           ~excused' => login[l].by \in w.holds
    PROVE  Identified'
<1>. DEFINE x == login[l]
            y == [x EXCEPT !.pc = pc]
<1>1. /\ x \in S!Login /\ y \in S!Login /\ y.pc = pc /\ y.user = x.user /\ y.by = x.by
      /\ login' = [login EXCEPT ![l] = y] /\ login \in [Slots -> S!Login]
      /\ S!Made \subseteq S!Accounts
  BY LoginTyped DEF S!Login
<1>2. \A k \in Slots : login'[k] = IF k = l THEN y ELSE login[k]
  BY <1>1
<1>3. /\ account' \in [S!Accounts -> S!Row]
      /\ S!Made' = S!Made
      /\ \A b \in S!Accounts : account'[b] = IF b = x.user THEN w ELSE account[b]
      /\ \A b \in S!Accounts : account'[b].holds # {} => account'[b].profile
      /\ \A b, c \in S!Made : account'[b].email = account'[c].email => b = c
      /\ \A b, c \in S!Made : account'[b].holds \cap account'[c].holds # {} => b = c
      /\ \A b \in S!Accounts : ~S!Exists(b)' => account'[b] = S!NoRow
      /\ \A b \in S!Made : account[b].holds \subseteq account'[b].holds
  BY AccountMoves
<1>4. S!TypeOK'
  <2>1. login' \in [Slots -> S!Login]
    BY <1>1
  <2>. QED  BY <1>3, <2>1 DEF Identified, S!TypeOK
<1>5. Known'
  <2>1. \A k \in Slots : login'[k].pc \in InHand => login'[k].user \in S!Made \cup gone
    BY <1>1, <1>2 DEF Identified, Known
  <2>2. ASSUME NEW p \in barred
        PROVE  \E b \in S!Made : p \in account'[b].holds /\ account'[b].banned
    <3>1. PICK b \in S!Made : p \in account[b].holds /\ account[b].banned
      BY DEF Identified, Known
    <3>. QED  BY <1>1, <1>3, <3>1
  <2>. QED  BY <1>3, <2>1, <2>2 DEF Identified, Known
<1>6. ASSUME ~excused' PROVE Linked'
  <2>1. Linked /\ \A p \in S!Provider : told[p] \subseteq S!Made
    BY <1>6 DEF Identified, Known
  <2>2. \A p \in S!Provider : \A a \in told[p] : p \in account'[a].holds
    BY <1>3, <2>1 DEF Linked
  <2>3. ASSUME NEW k \in Slots, login'[k].pc \in {"reread", "fresh", "answer"},
               login'[k].user \in S!Made
        PROVE  login'[k].by \in account'[login'[k].user].holds
    <3>1. CASE k = l
      BY <1>1, <1>2, <1>3, <1>6, <3>1
    <3>2. CASE k # l
      BY <1>2, <1>3, <2>1, <2>3, <3>2 DEF Linked
    <3>. QED  BY <3>1, <3>2
  <2>4. ASSUME NEW a \in S!Made, ~account'[a].profile
        PROVE  \E k \in Slots : login'[k].user = a /\ login'[k].pc = "profile"
    <3>1. a # x.user /\ account'[a] = account[a]
      BY <1>1, <1>3, <1>6, <2>4
    <3>2. PICK k \in Slots : login[k].user = a /\ login[k].pc = "profile"
      BY <2>1, <2>4, <3>1 DEF Linked
    <3>. QED  BY <1>2, <3>1, <3>2
  <2>. QED  BY <1>3, <2>1, <2>2, <2>3, <2>4 DEF Linked
<1>. QED  BY <1>4, <1>5, <1>6 DEF Identified


\* Linking an identity to the account its address leads to.
LEMMA LinkIsKnown ==
    ASSUME Identified, NEW l \in Slots, S!Link(l)
    PROVE  Identified'
<1>. DEFINE x == login[l]
            a == x.user
            y == [x EXCEPT !.pc = "reread"]
<1>1. /\ x.pc = "link" /\ UNCHANGED <<erasing, gone, told, barred>>
      /\ excused' = (excused \/ (S!Exists(a) /\ ~account[a].profile))
  BY DEF S!Link, S!Outside
<1>2. /\ a \in S!Made \cup gone /\ x \in S!Login /\ x.by \in S!Provider
      /\ login \in [Slots -> S!Login] /\ excused \in BOOLEAN /\ account \in [S!Accounts -> S!Row]
      /\ gone \subseteq S!Accounts /\ S!Made \subseteq S!Accounts
      /\ S!NoLogin \in S!Login /\ S!NoLogin.pc = "idle"
  BY <1>1, LoginTyped DEF InHand, Identified, S!TypeOK
<1>3. CASE account[a].profile /\ S!HeldElsewhere(l, a)
  <2>1. login' = [login EXCEPT ![l] = S!NoLogin] /\ UNCHANGED account
    BY <1>3 DEF S!Link, S!Refuse
  <2>. QED  BY <1>1, <1>2, <2>1, SignInMoves DEF InHand
<1>4. CASE ~account[a].profile
  <2>1. login' = [login EXCEPT ![l] = y] /\ UNCHANGED account
    BY <1>2, <1>4 DEF S!Link, S!Goto
  <2>2. y \in S!Login /\ y.pc = "reread" /\ y.user = a
    BY <1>2 DEF S!Login
  <2>3. ~excused' => a \notin S!Made
    BY <1>1, <1>4 DEF S!Made
  <2>. QED  BY <1>1, <1>2, <2>1, <2>2, <2>3, SignInMoves
<1>5. CASE account[a].profile /\ ~S!HeldElsewhere(l, a)
  <2>. DEFINE w == [account[a] EXCEPT !.holds = @ \cup {x.by}]
  <2>1. account' = [account EXCEPT ![a] = w] /\ login' = [login EXCEPT ![l].pc = "reread"]
    BY <1>2, <1>5 DEF S!Link, S!Goto
  <2>2. S!NoRow.profile = FALSE
    BY DEF S!NoRow
  <2>3. a \in S!Made
    BY <1>2, <1>5, <2>2 DEF Identified, Known, S!Made
  <2>4. /\ w \in S!Row /\ w.email = account[a].email /\ w.banned = account[a].banned /\ w.profile
        /\ w.holds = account[a].holds \cup {x.by}
    BY <1>2, <1>5 DEF S!Row
  <2>5. ASSUME NEW b \in S!Made \ {a} PROVE account[b].holds \cap w.holds = {}
    <3>1. account[b].holds \cap account[a].holds = {}
      BY <2>3 DEF Identified, S!TypeOK
    <3>2. x.by \notin account[b].holds
      BY <1>5 DEF S!HeldElsewhere
    <3>. QED  BY <2>4, <3>1, <3>2
  <2>. HIDE DEF w
  <2>. QED  BY <1>1, <1>2, <2>1, <2>3, <2>4, <2>5, WritesAreKnown DEF InHand
<1>. QED  BY <1>3, <1>4, <1>5

\* The profile of an account just made.
LEMMA ProfileIsKnown ==
    ASSUME Identified, NEW l \in Slots, S!InsertProfile(l)
    PROVE  Identified'
<1>. DEFINE x == login[l]
            a == x.user
            y == [x EXCEPT !.pc = "fresh"]
<1>1. /\ x.pc = "profile" /\ UNCHANGED <<erasing, gone, told, barred>>
      /\ excused' = (excused \/ (S!Exists(a) /\ (account[a].profile \/ S!HeldElsewhere(l, a))))
  BY DEF S!InsertProfile, S!Outside
<1>2. /\ a \in S!Made \cup gone /\ x \in S!Login /\ x.by \in S!Provider
      /\ login \in [Slots -> S!Login] /\ excused \in BOOLEAN /\ account \in [S!Accounts -> S!Row]
      /\ gone \subseteq S!Accounts /\ S!Made \subseteq S!Accounts
      /\ S!NoLogin \in S!Login /\ S!NoLogin.pc = "idle"
  BY <1>1, LoginTyped DEF InHand, Identified, S!TypeOK
<1>3. CASE ~S!Exists(a)
  <2>1. login' = [login EXCEPT ![l] = S!NoLogin] /\ UNCHANGED account /\ a \notin S!Made
    BY <1>3 DEF S!InsertProfile, S!Refuse, S!Made
  <2>. QED  BY <1>1, <1>2, <2>1, SignInMoves DEF InHand
<1>4. CASE S!Exists(a) /\ (account[a].profile \/ S!HeldElsewhere(l, a))
  <2>1. login' = [login EXCEPT ![l] = y] /\ UNCHANGED account /\ excused'
    BY <1>1, <1>2, <1>4 DEF S!InsertProfile, S!Goto
  <2>2. y \in S!Login /\ y.pc = "fresh" /\ y.user = a
    BY <1>2 DEF S!Login
  <2>. QED  BY <1>1, <1>2, <2>1, <2>2, SignInMoves
<1>5. CASE S!Exists(a) /\ ~account[a].profile /\ ~S!HeldElsewhere(l, a)
  <2>. DEFINE w == [account[a] EXCEPT !.profile = TRUE, !.holds = {x.by}]
  <2>1. account' = [account EXCEPT ![a] = w] /\ login' = [login EXCEPT ![l].pc = "fresh"]
    BY <1>2, <1>5 DEF S!InsertProfile, S!Goto
  <2>2. a \in S!Made /\ account[a].holds = {}
    BY <1>2, <1>5 DEF S!Made, Identified, S!TypeOK
  <2>3. /\ w \in S!Row /\ w.email = account[a].email /\ w.banned = account[a].banned /\ w.profile
        /\ w.holds = {x.by}
    BY <1>2, <1>5 DEF S!Row
  <2>4. ASSUME NEW b \in S!Made \ {a} PROVE account[b].holds \cap w.holds = {}
    BY <1>5, <2>3 DEF S!HeldElsewhere
  <2>. HIDE DEF w
  <2>. QED  BY <1>1, <1>2, <2>1, <2>2, <2>3, <2>4, WritesAreKnown DEF InHand
<1>. QED  BY <1>3, <1>4, <1>5

\* The row of a new account.
LEMMA UserIsKnown ==
    ASSUME Identified, NEW l \in Slots, S!InsertUser(l)
    PROVE  Identified'
<1>. DEFINE x == login[l]
            email == IF x.mailed THEN "mail" ELSE "relay"
<1>1. x.pc = "insert" /\ UNCHANGED <<excused, erasing, gone, told, barred>>
  BY DEF S!InsertUser, S!Outside
<1>2. /\ x \in S!Login /\ x.by \in S!Provider
      /\ login \in [Slots -> S!Login] /\ excused \in BOOLEAN /\ account \in [S!Accounts -> S!Row]
      /\ gone \subseteq S!Accounts \ S!Made /\ S!Made \subseteq S!Accounts
      /\ S!NoLogin \in S!Login /\ S!NoLogin.pc = "idle"
  BY LoginTyped DEF Identified, S!TypeOK
<1>3. CASE \E a \in S!Made : account[a].email = email
  <2>1. login' = [login EXCEPT ![l] = S!NoLogin] /\ UNCHANGED account
    BY <1>3 DEF S!InsertUser, S!Refuse
  <2>. QED  BY <1>1, <1>2, <2>1, SignInMoves DEF InHand
<1>4. CASE ~\E a \in S!Made : account[a].email = email
  <2>1. PICK a \in S!Accounts \ (S!Made \cup gone) :
          /\ account' = [account EXCEPT ![a] = [S!NoRow EXCEPT !.email = email]]
          /\ login' = [login EXCEPT ![l].user = a, ![l].pc = "profile"]
    BY <1>4 DEF S!InsertUser
  <2>. DEFINE w == [S!NoRow EXCEPT !.email = email]
              y == [x EXCEPT !.user = a, !.pc = "profile"]
  <2>2. /\ w \in S!Row /\ w.email = email /\ w.email # "none" /\ ~w.profile /\ w.holds = {}
    BY DEF S!Row, S!NoRow
  <2>3. y \in S!Login /\ y.user = a /\ y.pc = "profile" /\ login' = [login EXCEPT ![l] = y]
    BY <1>2, <2>1 DEF S!Login
  <2>4. account' = [account EXCEPT ![a] = w]
    BY <2>1
  <2>. HIDE DEF w, y
  <2>5. /\ \A b \in S!Accounts : account'[b] = IF b = a THEN w ELSE account[b]
        /\ \A k \in Slots : login'[k] = IF k = l THEN y ELSE login[k]
        /\ account' \in [S!Accounts -> S!Row] /\ login' \in [Slots -> S!Login]
    BY <1>2, <2>2, <2>3, <2>4
  <2>6. S!Made' = S!Made \cup {a} /\ \A b \in S!Made : b # a
    BY <2>2, <2>5 DEF S!Made, S!Exists
  <2>7. S!TypeOK'
    <3>1. \A b \in S!Accounts : account'[b].holds # {} => account'[b].profile
      BY <2>2, <2>5 DEF Identified, S!TypeOK
    <3>2. \A b, c \in S!Made' : account'[b].email = account'[c].email => b = c
      BY <1>2, <1>4, <2>2, <2>5, <2>6 DEF Identified, S!TypeOK
    <3>3. \A b, c \in S!Made' : account'[b].holds \cap account'[c].holds # {} => b = c
      BY <1>2, <2>2, <2>5, <2>6 DEF Identified, S!TypeOK
    <3>. QED  BY <1>1, <1>2, <2>5, <2>6, <3>1, <3>2, <3>3 DEF Identified, S!TypeOK
  <2>8. Known'
    <3>1. \A b \in S!Accounts : ~S!Exists(b)' => account'[b] = S!NoRow
      BY <2>2, <2>5 DEF Identified, Known, S!Exists
    <3>2. \A k \in Slots : login'[k].pc \in InHand => login'[k].user \in S!Made' \cup gone
      BY <2>3, <2>5, <2>6 DEF Identified, Known
    <3>3. \A p \in barred : \E b \in S!Made' : p \in account'[b].holds /\ account'[b].banned
      BY <1>2, <2>5, <2>6 DEF Identified, Known
    <3>. QED  BY <1>1, <2>6, <3>1, <3>2, <3>3 DEF Identified, Known
  <2>9. ASSUME ~excused' PROVE Linked'
    <3>1. Linked /\ \A p \in S!Provider : told[p] \subseteq S!Made
      BY <1>1, <2>9 DEF Identified, Known
    <3>2. \A p \in S!Provider : \A b \in told[p] : p \in account'[b].holds
      BY <1>2, <2>5, <2>6, <3>1 DEF Linked
    <3>3. ASSUME NEW k \in Slots, login'[k].pc \in {"reread", "fresh", "answer"},
                 login'[k].user \in S!Made'
          PROVE  login'[k].by \in account'[login'[k].user].holds
      <4>1. k # l /\ login'[k] = login[k] /\ login[k].user \in S!Made \cup gone
        BY <2>3, <2>5, <3>3 DEF Identified, Known, InHand
      <4>. QED  BY <1>2, <2>5, <2>6, <3>1, <3>3, <4>1 DEF Linked
    <3>4. ASSUME NEW b \in S!Made', ~account'[b].profile
          PROVE  \E k \in Slots : login'[k].user = b /\ login'[k].pc = "profile"
      <4>1. CASE b = a
        BY <2>3, <2>5, <4>1
      <4>2. CASE b # a
        <5>1. PICK k \in Slots : login[k].user = b /\ login[k].pc = "profile"
          BY <1>2, <2>5, <2>6, <3>1, <3>4, <4>2 DEF Linked
        <5>. QED  BY <1>1, <2>5, <5>1
      <4>. QED  BY <4>1, <4>2
    <3>. QED  BY <1>1, <3>2, <3>3, <3>4 DEF Linked
  <2>. QED  BY <2>7, <2>8, <2>9 DEF Identified
<1>. QED  BY <1>3, <1>4


\* A session is given of the account in hand.
LEMMA AnswerIsKnown ==
    ASSUME Identified, NEW l \in Slots, S!Answer(l)
    PROVE  Identified'
<1>. DEFINE x == login[l]
            new == {x.user} \cap S!Made
<1>1. /\ x.pc = "answer" /\ UNCHANGED <<account, erasing, gone, barred, excused>>
      /\ told' = [told EXCEPT ![x.by] = @ \cup new]
      /\ login' = [login EXCEPT ![l] = S!NoLogin]
  BY DEF S!Answer
<1>2. /\ x \in S!Login /\ x.by \in S!Provider /\ login \in [Slots -> S!Login]
      /\ S!NoLogin \in S!Login /\ S!NoLogin.pc = "idle" /\ S!Made \subseteq S!Accounts
      /\ told \in [S!Provider -> SUBSET S!Accounts] /\ excused \in BOOLEAN
  BY LoginTyped DEF Identified, S!TypeOK
<1>3. /\ \A p \in S!Provider : told'[p] = IF p = x.by THEN told[p] \cup new ELSE told[p]
      /\ \A k \in Slots : login'[k] = IF k = l THEN S!NoLogin ELSE login[k]
      /\ S!Made' = S!Made /\ \A a \in S!Accounts : S!Exists(a)' = S!Exists(a)
      /\ told' \in [S!Provider -> SUBSET S!Accounts] /\ login' \in [Slots -> S!Login]
  BY <1>1, <1>2 DEF S!Made, S!Exists
<1>4. S!TypeOK' /\ Known'
  BY <1>1, <1>2, <1>3 DEF Identified, Known, InHand, S!TypeOK
<1>5. ASSUME ~excused' PROVE Linked'
  <2>1. Linked
    BY <1>1, <1>5 DEF Identified
  <2>2. new # {} => x.by \in account[x.user].holds
    BY <1>1, <2>1 DEF Linked
  <2>3. \A p \in S!Provider : \A a \in told'[p] : p \in account[a].holds
    BY <1>3, <2>1, <2>2 DEF Linked
  <2>4. \A a \in S!Made : account[a].profile
                          \/ \E k \in Slots : login'[k].user = a /\ login'[k].pc = "profile"
    BY <1>1, <1>3, <2>1 DEF Linked
  <2>. QED  BY <1>1, <1>2, <1>3, <2>1, <2>3, <2>4 DEF Linked
<1>. QED  BY <1>4, <1>5 DEF Identified

\* Who has a session adds the profile that was missing, or asks for the deletion.
LEMMA SessionIsKnown ==
    ASSUME Identified, NEW a \in S!Accounts
    PROVE  (S!Onboard(a) => Identified') /\ (S!EraseGate(a) => Identified')
<1>1. ASSUME S!Onboard(a) PROVE Identified'
  <2>. DEFINE w == [account[a] EXCEPT !.profile = TRUE]
  <2>1. /\ a \in S!Made /\ account' = [account EXCEPT ![a] = w]
        /\ UNCHANGED <<login, excused, erasing, gone, told, barred>>
        /\ account \in [S!Accounts -> S!Row]
    BY <1>1 DEF S!Onboard, S!Authed, S!Made, S!Outside, Identified, S!TypeOK
  <2>2. /\ w \in S!Row /\ w.email = account[a].email /\ w.holds = account[a].holds
        /\ w.profile /\ w.banned = account[a].banned
    BY <2>1 DEF S!Row
  <2>3. \A b \in S!Made \ {a} : account[b].holds \cap w.holds = {}
    BY <2>1, <2>2 DEF Identified, S!TypeOK
  <2>. HIDE DEF w
  <2>4. /\ account' \in [S!Accounts -> S!Row]
        /\ S!Made' = S!Made
        /\ \A b \in S!Accounts : account'[b] = IF b = a THEN w ELSE account[b]
        /\ \A b \in S!Accounts : account'[b].holds # {} => account'[b].profile
        /\ \A b, c \in S!Made : account'[b].email = account'[c].email => b = c
        /\ \A b, c \in S!Made : account'[b].holds \cap account'[c].holds # {} => b = c
        /\ \A b \in S!Accounts : ~S!Exists(b)' => account'[b] = S!NoRow
        /\ \A b \in S!Made : account[b].holds \subseteq account'[b].holds
    BY <2>1, <2>2, <2>3, AccountMoves
  <2>5. S!TypeOK'
    BY <2>1, <2>4 DEF Identified, S!TypeOK
  <2>6. Known'
    <3>1. ASSUME NEW p \in barred
          PROVE  \E b \in S!Made : p \in account'[b].holds /\ account'[b].banned
      <4>1. PICK b \in S!Made : p \in account[b].holds /\ account[b].banned
        BY DEF Identified, Known
      <4>. QED  BY <2>2, <2>4, <4>1 DEF S!Made
    <3>. QED  BY <2>1, <2>4, <3>1 DEF Identified, Known
  <2>7. Linked => Linked'
    BY <2>1, <2>2, <2>4 DEF Linked, S!Made, Identified, Known
  <2>. QED  BY <2>1, <2>5, <2>6, <2>7 DEF Identified
<1>2. ASSUME S!EraseGate(a) PROVE Identified'
  <2>1. /\ UNCHANGED <<account, login, gone, told, barred, excused>>
        /\ erasing' = erasing \cup {a}
        /\ S!Made' = S!Made /\ \A b \in S!Accounts : S!Exists(b)' = S!Exists(b)
    BY <1>2 DEF S!EraseGate, S!Made, S!Exists
  <2>2. S!TypeOK'
    BY <2>1 DEF Identified, S!TypeOK
  <2>3. Known'
    BY <2>1 DEF Identified, Known
  <2>4. Linked => Linked'
    BY <2>1 DEF Linked
  <2>. QED  BY <2>1, <2>2, <2>3, <2>4 DEF Identified
<1>. QED  BY <1>1, <1>2

\* The process stops.
LEMMA DeathIsKnown == Identified /\ S!Die => Identified'
<1>. SUFFICES ASSUME Identified, S!Die PROVE Identified'
  OBVIOUS
<1>1. /\ UNCHANGED <<account, gone, told, barred>> /\ erasing' = {}
      /\ login' = [l \in Slots |-> S!NoLogin] /\ S!NoLogin \in S!Login /\ S!NoLogin.pc = "idle"
      /\ excused' = (excused \/ \E l \in Slots : login[l].pc = "profile")
      /\ S!Made' = S!Made /\ \A b \in S!Accounts : S!Exists(b)' = S!Exists(b)
      /\ excused \in BOOLEAN
  BY DEF S!Die, S!Made, S!Exists, S!NoLogin, S!Login, S!Provider, Identified, S!TypeOK
<1>2. S!TypeOK'
  <2>1. login' \in [Slots -> S!Login] /\ excused' \in BOOLEAN
    BY <1>1
  <2>. QED  BY <1>1, <2>1 DEF Identified, S!TypeOK
<1>3. Known' /\ (~excused' => Linked')
  BY <1>1 DEF Identified, Known, Linked, InHand
<1>. QED  BY <1>2, <1>3 DEF Identified


\* A ban begins or ends: the identities the account has are barred, or no more.
LEMMA BansAreKnown ==
    ASSUME Identified, NEW a \in S!Accounts
    PROVE  (S!Ban(a) => Identified') /\ (S!Unban(a) => Identified')
<1>1. ASSUME NEW banned \in BOOLEAN, S!Exists(a), account[a].banned # banned,
             account' = [account EXCEPT ![a].banned = banned],
             barred' = IF banned THEN barred \cup account[a].holds ELSE barred \ account[a].holds,
             UNCHANGED <<login, erasing, gone, told, excused>>
      PROVE  Identified'
  <2>. DEFINE w == [account[a] EXCEPT !.banned = banned]
  <2>1. a \in S!Made /\ account' = [account EXCEPT ![a] = w] /\ account \in [S!Accounts -> S!Row]
    BY <1>1 DEF S!Made, Identified, S!TypeOK
  <2>2. /\ w \in S!Row /\ w.email = account[a].email /\ w.holds = account[a].holds
        /\ w.profile = account[a].profile /\ w.banned = banned
    BY <2>1 DEF S!Row
  <2>3. /\ \A b \in S!Made \ {a} : account[b].holds \cap w.holds = {}
        /\ w.holds # {} => w.profile
    BY <2>1, <2>2 DEF Identified, S!TypeOK
  <2>. HIDE DEF w
  <2>4. /\ account' \in [S!Accounts -> S!Row]
        /\ S!Made' = S!Made
        /\ \A b \in S!Accounts : account'[b] = IF b = a THEN w ELSE account[b]
        /\ \A b \in S!Accounts : account'[b].holds # {} => account'[b].profile
        /\ \A b, c \in S!Made : account'[b].email = account'[c].email => b = c
        /\ \A b, c \in S!Made : account'[b].holds \cap account'[c].holds # {} => b = c
        /\ \A b \in S!Accounts : ~S!Exists(b)' => account'[b] = S!NoRow
        /\ \A b \in S!Made : account[b].holds \subseteq account'[b].holds
    BY <2>1, <2>2, <2>3, AccountMoves
  <2>5. barred' \subseteq S!Provider
    BY <1>1, <2>1, <2>2 DEF Identified, S!TypeOK, S!Row
  <2>6. S!TypeOK'
    BY <1>1, <2>4, <2>5 DEF Identified, S!TypeOK
  <2>7. Known'
    <3>1. ASSUME NEW p \in barred'
          PROVE  \E b \in S!Made : p \in account'[b].holds /\ account'[b].banned
      <4>1. CASE p \in account[a].holds
        BY <1>1, <2>1, <2>2, <2>4, <3>1, <4>1 DEF S!Made
      <4>2. CASE p \notin account[a].holds
        <5>1. PICK b \in S!Made : p \in account[b].holds /\ account[b].banned
          BY <1>1, <3>1, <4>2 DEF Identified, Known
        <5>2. b # a /\ account'[b] = account[b]
          BY <2>4, <4>2, <5>1 DEF S!Made
        <5>. QED  BY <5>1, <5>2
      <4>. QED  BY <4>1, <4>2
    <3>. QED  BY <1>1, <2>4, <3>1 DEF Identified, Known
  <2>8. Linked => Linked'
    BY <1>1, <2>2, <2>4 DEF Linked, S!Made, Identified, Known
  <2>. QED  BY <1>1, <2>6, <2>7, <2>8 DEF Identified
<1>2. ASSUME S!Ban(a) PROVE Identified'
  BY <1>1, <1>2 DEF S!Ban
<1>3. ASSUME S!Unban(a) PROVE Identified'
  BY <1>1, <1>3 DEF S!Unban
<1>. QED  BY <1>2, <1>3

\* An account goes, with the bars it stood for.
LEMMA ErasureIsKnown ==
    ASSUME Identified, NEW a \in S!Accounts, S!Erase(a)
    PROVE  Identified'
<1>1. /\ a \in erasing /\ erasing' = erasing \ {a}
      /\ account' = [account EXCEPT ![a] = S!NoRow]
      /\ told' = [p \in S!Provider |-> told[p] \ {a}]
      /\ gone' = gone \cup {a}
      /\ barred' = (IF account[a].banned THEN barred \ account[a].holds ELSE barred)
      /\ UNCHANGED <<login, excused>>
  BY DEF S!Erase
<1>2. /\ account \in [S!Accounts -> S!Row] /\ S!NoRow \in S!Row
      /\ S!NoRow.holds = {} /\ S!NoRow.email = "none" /\ S!Made \subseteq S!Accounts
      /\ erasing \subseteq S!Accounts /\ gone \subseteq S!Accounts \ S!Made
      /\ told \in [S!Provider -> SUBSET S!Accounts] /\ barred \subseteq S!Provider
  BY DEF Identified, S!TypeOK, S!Row, S!NoRow, S!Made
<1>3. \A b \in S!Accounts : account'[b] = IF b = a THEN S!NoRow ELSE account[b]
  BY <1>1, <1>2
<1>4. /\ S!Made' = S!Made \ {a}
      /\ \A b \in S!Accounts : b # a => S!Exists(b)' = S!Exists(b)
  BY <1>2, <1>3 DEF S!Made, S!Exists
<1>5. S!TypeOK'
  <2>1. /\ account' \in [S!Accounts -> S!Row] /\ told' \in [S!Provider -> SUBSET S!Accounts]
        /\ erasing' \subseteq S!Accounts /\ barred' \subseteq S!Provider
    BY <1>1, <1>2
  <2>2. gone' \subseteq S!Accounts \ S!Made'
    BY <1>1, <1>2, <1>4
  <2>3. \A b \in S!Accounts : account'[b].holds # {} => account'[b].profile
    BY <1>2, <1>3 DEF Identified, S!TypeOK
  <2>4. /\ \A b, c \in S!Made' : account'[b].email = account'[c].email => b = c
        /\ \A b, c \in S!Made' : account'[b].holds \cap account'[c].holds # {} => b = c
    BY <1>2, <1>3, <1>4 DEF Identified, S!TypeOK
  <2>. QED  BY <1>1, <2>1, <2>2, <2>3, <2>4 DEF Identified, S!TypeOK
<1>6. Known'
  <2>1. \A b \in S!Accounts : ~S!Exists(b)' => account'[b] = S!NoRow
    BY <1>3, <1>4 DEF Identified, Known
  <2>2. \A l \in Slots : login'[l].pc \in InHand => login'[l].user \in S!Made' \cup gone'
    BY <1>1, <1>4 DEF Identified, Known
  <2>3. \A p \in S!Provider : told'[p] \subseteq S!Made'
    BY <1>1, <1>4 DEF Identified, Known
  <2>4. ASSUME NEW p \in barred'
        PROVE  \E b \in S!Made' : p \in account'[b].holds /\ account'[b].banned
    <3>1. PICK b \in S!Made : p \in account[b].holds /\ account[b].banned
      BY <1>1, <2>4 DEF Identified, Known
    <3>2. b # a
      BY <1>1, <2>4, <3>1
    <3>. QED  BY <1>2, <1>3, <1>4, <3>1, <3>2
  <2>. QED  BY <2>1, <2>2, <2>3, <2>4 DEF Known
<1>7. Linked => Linked'
  <2>. SUFFICES ASSUME Linked PROVE Linked'
    OBVIOUS
  <2>1. \A p \in S!Provider : \A b \in told'[p] : p \in account'[b].holds
    BY <1>1, <1>2, <1>3 DEF Linked
  <2>2. \A l \in Slots :
          login[l].pc \in {"reread", "fresh", "answer"} /\ login[l].user \in S!Made' =>
            login[l].by \in account'[login[l].user].holds
    BY <1>2, <1>3, <1>4 DEF Linked
  <2>3. \A b \in S!Made' :
          account'[b].profile \/ \E l \in Slots : login[l].user = b /\ login[l].pc = "profile"
    BY <1>2, <1>3, <1>4 DEF Linked
  <2>. QED  BY <1>1, <2>1, <2>2, <2>3 DEF Linked
<1>. QED  BY <1>1, <1>5, <1>6, <1>7 DEF Identified

LEMMA IdentifiedStep == Identified /\ [AccountsNext]_accountsVars => Identified'
<1>. SUFFICES ASSUME Identified, S!Next \/ UNCHANGED svars PROVE Identified'
  BY PartsMove
<1>1. ASSUME NEW l \in Slots,
             \/ \E p \in S!Provider, mailed \in BOOLEAN : S!Arrive(l, p, mailed)
             \/ S!LookUp(l) \/ S!FindByEmail(l) \/ S!Link(l) \/ S!Reread(l)
             \/ S!InsertUser(l) \/ S!InsertProfile(l) \/ S!ReadFresh(l) \/ S!Answer(l)
      PROVE  Identified'
  BY <1>1, ReadsAreKnown, LinkIsKnown, UserIsKnown, ProfileIsKnown, AnswerIsKnown
<1>2. ASSUME NEW a \in S!Accounts,
             S!Onboard(a) \/ S!EraseGate(a) \/ S!Erase(a) \/ S!Ban(a) \/ S!Unban(a)
      PROVE  Identified'
  BY <1>2, SessionIsKnown, ErasureIsKnown, BansAreKnown
<1>3. CASE S!Die
  BY <1>3, DeathIsKnown
<1>4. CASE UNCHANGED svars
  <2>1. S!Made' = S!Made /\ \A b \in S!Accounts : S!Exists(b)' = S!Exists(b)
    BY <1>4 DEF svars, S!Made, S!Exists
  <2>2. S!TypeOK'
    BY <1>4, <2>1 DEF svars, Identified, S!TypeOK
  <2>3. Known' /\ (Linked => Linked')
    BY <1>4, <2>1 DEF svars, Identified, Known, Linked
  <2>. QED  BY <1>4, <2>2, <2>3 DEF svars, Identified
<1>. QED  BY <1>1, <1>2, <1>3, <1>4 DEF S!Next

\* An identity at Google or Apple leads to one account, each with its profile, and a
\* banned account's identities to none that is let in, however the inserts of
\* POST /auth/google and /auth/apple interleave with linking, deleting, banning
\* and crashes, short of what is excused.
THEOREM IdentitiesHold == AccountsSpec => []IdentityHolds
<1>1. AccountsSpec => []Identified
  BY InitIdentified, IdentifiedStep, PTL DEF AccountsSpec
<1>. QED  BY <1>1, IdentifiedHolds, PTL


-----------------------------------------------------------------------------
(* Accounts: a reaction is shown *)

\* One request at a time knows the row there is, and what it has yet to tell is all
\* that clients do not know.
Followed ==
    /\ \A t, k \in Slots : tap[t].pc # "idle" /\ tap[k].pc # "idle" => t = k
    /\ there => /\ \A t \in Slots : tap[t].pc \in {"message", "delete"} => tap[t].id = row
                /\ \A t \in Slots : tap[t].pc = "tell" => (tap[t].adds <=> row # 0)
                /\ (\A t \in Slots : tap[t].pc # "tell") => (shown <=> row # 0)

ReactionsKept == K!TypeOK /\ (jostled \/ Followed)

LEMMA FollowedIsShown == ReactionsKept => K!ReactionIsShown
BY DEF ReactionsKept, Followed, K!ReactionIsShown

LEMMA TapIsTyped == K!NoTap \in K!Tap /\ K!NoTap.pc = "idle"
BY AmountsAssumption DEF K!NoTap, K!Tap, K!Rows

LEMMA InitReactions == AccountsInit => ReactionsKept
<1>. SUFFICES ASSUME K!Init PROVE ReactionsKept
  BY Zenon DEF AccountsInit
<1>1. \A t \in Slots : tap[t].pc = "idle"
  BY TapIsTyped DEF K!Init
<1>2. K!TypeOK
  <2>1. 0 \in K!Rows /\ 0 <= 0
    BY AmountsAssumption DEF K!Rows
  <2>. QED  BY <2>1, TapIsTyped DEF K!Init, K!TypeOK
<1>3. row = 0 /\ shown = FALSE
  BY DEF K!Init
<1>. QED  BY <1>1, <1>2, <1>3 DEF ReactionsKept, Followed

\* Request t comes to y.
LEMMA TapMoves ==
    ASSUME ReactionsKept, NEW t \in Slots, NEW y \in K!Tap,
           tap' = [tap EXCEPT ![t] = y], UNCHANGED on,
           row' \in K!Rows, made' \in K!Rows, row' <= made', UNCHANGED there,
           shown' \in BOOLEAN, jostled' \in BOOLEAN, jostled => jostled',
           ~jostled' => /\ tap[t].pc = "idle" => \A k \in Slots : tap[k].pc = "idle"
                        /\ there => /\ y.pc \in {"message", "delete"} => y.id = row'
                                    /\ y.pc = "tell" => (y.adds <=> row' # 0)
                                    /\ y.pc # "tell" => (shown' <=> row' # 0)
    PROVE  ReactionsKept'
<1>1. /\ \A k \in Slots : tap'[k] = IF k = t THEN y ELSE tap[k]
      /\ tap' \in [Slots -> K!Tap]
  BY DEF ReactionsKept, K!TypeOK
<1>2. K!TypeOK'
  BY <1>1 DEF ReactionsKept, K!TypeOK
<1>3. ASSUME ~jostled' PROVE Followed'
  <2>1. \A k \in Slots : k # t => tap[k].pc = "idle"
    BY <1>3 DEF ReactionsKept, Followed
  <2>2. \A k \in Slots : tap'[k].pc # "idle" => k = t
    BY <1>1, <2>1
  <2>3. there => /\ \A k \in Slots : tap'[k].pc \in {"message", "delete"} => tap'[k].id = row'
                 /\ \A k \in Slots : tap'[k].pc = "tell" => (tap'[k].adds <=> row' # 0)
                 /\ (\A k \in Slots : tap'[k].pc # "tell") => (shown' <=> row' # 0)
    BY <1>1, <1>3, <2>2
  <2>. QED  BY <2>2, <2>3 DEF Followed
<1>. QED  BY <1>2, <1>3 DEF ReactionsKept

LEMMA ReactionsStep == ReactionsKept /\ [AccountsNext]_accountsVars => ReactionsKept'
<1>. SUFFICES ASSUME ReactionsKept, K!Next \/ UNCHANGED kvars PROVE ReactionsKept'
  BY PartsMove
<1>1. /\ tap \in [Slots -> K!Tap] /\ K!NoTap \in K!Tap /\ K!NoTap.pc = "idle"
      /\ row \in K!Rows /\ made \in K!Rows /\ row <= made /\ K!Rows \subseteq Nat
      /\ shown \in BOOLEAN /\ jostled \in BOOLEAN /\ there \in BOOLEAN
      /\ 0 \in K!Rows
  BY TapIsTyped, AmountsAssumption DEF ReactionsKept, K!TypeOK, K!Rows
\* A request comes in.
<1>2. ASSUME NEW t \in Slots, NEW y \in K!Tap,
             \/ y.pc \in {"existing", "insert"}
             \/ y.pc = "message" /\ y.id = row,
             tap[t].pc = "idle", tap' = [tap EXCEPT ![t] = y],
             jostled' = (jostled \/ \E k \in Slots : tap[k].pc # "idle"),
             UNCHANGED <<on, row, made, there, shown>>
      PROVE  ReactionsKept'
  <2>1. ~jostled' => \A k \in Slots : tap[k].pc = "idle"
    BY <1>2
  <2>2. ~jostled' /\ there => (shown <=> row # 0)
    BY <1>2, <2>1 DEF ReactionsKept, Followed
  <2>3. jostled' \in BOOLEAN /\ (jostled => jostled')
    BY <1>1, <1>2
  <2>. QED  BY <1>1, <1>2, <2>1, <2>2, <2>3, TapMoves
<1>3. ASSUME NEW t \in Slots PROVE \A by \in {"toggle", "add"} : K!React(t, by) => ReactionsKept'
  <2>. SUFFICES ASSUME NEW by \in {"toggle", "add"}, K!React(t, by) PROVE ReactionsKept'
    OBVIOUS
  <2>. DEFINE y == [K!NoTap EXCEPT !.by = by,
                                   !.pc = IF by = "toggle" THEN "existing" ELSE "insert"]
  <2>1. y \in K!Tap /\ y.pc \in {"existing", "insert"}
    BY <1>1 DEF K!Tap, K!NoTap
  <2>2. tap' = [tap EXCEPT ![t] = y] /\ tap[t].pc = "idle"
        /\ jostled' = (jostled \/ \E k \in Slots : tap[k].pc # "idle")
        /\ UNCHANGED <<on, row, made, there, shown>>
    BY DEF K!React
  <2>. HIDE DEF y
  <2>. QED  BY <1>2, <2>1, <2>2
<1>4. ASSUME NEW t \in Slots, K!ReactToArticle(t) PROVE ReactionsKept'
  <2>. DEFINE y == [K!NoTap EXCEPT !.pc = "existing"]
  <2>1. y \in K!Tap /\ y.pc = "existing"
    BY <1>1 DEF K!Tap, K!NoTap
  <2>2. tap' = [tap EXCEPT ![t] = y] /\ tap[t].pc = "idle"
        /\ jostled' = (jostled \/ \E k \in Slots : tap[k].pc # "idle")
        /\ UNCHANGED <<on, row, made, there, shown>>
    BY <1>4 DEF K!ReactToArticle
  <2>. HIDE DEF y
  <2>. QED  BY <1>2, <2>1, <2>2
<1>5. ASSUME NEW t \in Slots, K!Remove(t) PROVE ReactionsKept'
  <2>. DEFINE y == [K!NoTap EXCEPT !.by = "remove", !.id = row, !.pc = "message"]
  <2>1. y \in K!Tap /\ y.pc = "message" /\ y.id = row
    BY <1>1 DEF K!Tap, K!NoTap
  <2>2. tap' = [tap EXCEPT ![t] = y] /\ tap[t].pc = "idle"
        /\ jostled' = (jostled \/ \E k \in Slots : tap[k].pc # "idle")
        /\ UNCHANGED <<on, row, made, there, shown>>
    BY <1>5 DEF K!Remove
  <2>. HIDE DEF y
  <2>. QED  BY <1>2, <2>1, <2>2
\* A request goes on.
<1>6. ASSUME NEW t \in Slots, tap[t].pc \notin {"idle", "tell"}, ~jostled, there
      PROVE  shown <=> row # 0
  <2>1. \A k \in Slots : tap[k].pc # "tell"
    BY <1>6 DEF ReactionsKept, Followed
  <2>. QED  BY <1>6, <2>1 DEF ReactionsKept, Followed
<1>7. ASSUME NEW t \in Slots, K!ReadExisting(t) PROVE ReactionsKept'
  <2>. DEFINE y == [tap[t] EXCEPT !.id = row, !.pc = IF row = 0 THEN "insert" ELSE "delete"]
  <2>1. tap' = [tap EXCEPT ![t] = y] /\ tap[t].pc = "existing"
        /\ UNCHANGED <<on, row, made, there, shown, jostled>>
    BY <1>1, <1>7 DEF K!ReadExisting
  <2>2. y \in K!Tap /\ y.id = row /\ y.pc \in {"insert", "delete"}
    BY <1>1 DEF K!Tap
  <2>. HIDE DEF y
  <2>. QED  BY <1>1, <1>6, <2>1, <2>2, TapMoves
<1>8. ASSUME NEW t \in Slots, K!ReadMessage(t) PROVE ReactionsKept'
  <2>. DEFINE y == [tap[t] EXCEPT !.pc = "delete"]
  <2>1. tap' = [tap EXCEPT ![t] = y] /\ tap[t].pc = "message"
        /\ UNCHANGED <<on, row, made, there, shown, jostled>>
    BY <1>1, <1>8 DEF K!ReadMessage
  <2>2. y \in K!Tap /\ y.id = tap[t].id /\ y.pc = "delete"
    BY <1>1 DEF K!Tap
  <2>3. ~jostled /\ there => tap[t].id = row
    BY <2>1 DEF ReactionsKept, Followed
  <2>. HIDE DEF y
  <2>. QED  BY <1>1, <1>6, <2>1, <2>2, <2>3, TapMoves
<1>9. ASSUME NEW t \in Slots, K!Insert(t) PROVE ReactionsKept'
  <2>1. tap[t].pc = "insert" /\ UNCHANGED <<on, there, shown, jostled>>
    BY <1>9 DEF K!Insert
  <2>2. CASE row # 0 \/ ~there
    <3>1. tap' = [tap EXCEPT ![t] = K!NoTap] /\ UNCHANGED <<row, made>>
      BY <1>9, <2>2 DEF K!Insert, K!Close
    <3>. QED  BY <1>1, <1>6, <2>1, <3>1, TapMoves
  <2>3. CASE ~(row # 0 \/ ~there)
    <3>. DEFINE y == [tap[t] EXCEPT !.pc = "tell", !.adds = TRUE]
    <3>1. tap' = [tap EXCEPT ![t] = y] /\ made < Reactions /\ made' = made + 1 /\ row' = made + 1
      BY <1>1, <1>9, <2>3 DEF K!Insert
    <3>2. y \in K!Tap /\ y.adds /\ y.pc = "tell"
      BY <1>1 DEF K!Tap
    <3>3. row' \in K!Rows /\ made' \in K!Rows /\ row' <= made' /\ row' # 0
      BY <1>1, <3>1, AmountsAssumption DEF K!Rows
    <3>. HIDE DEF y
    <3>. QED  BY <1>1, <2>1, <3>1, <3>2, <3>3, TapMoves
  <2>. QED  BY <2>2, <2>3
<1>10. ASSUME NEW t \in Slots, K!Delete(t) PROVE ReactionsKept'
  <2>. DEFINE y == [tap[t] EXCEPT !.pc = "tell", !.adds = FALSE]
  <2>1. /\ tap' = [tap EXCEPT ![t] = y] /\ tap[t].pc = "delete"
        /\ row' = (IF row = tap[t].id THEN 0 ELSE row)
        /\ UNCHANGED <<on, made, there, shown, jostled>>
    BY <1>1, <1>10 DEF K!Delete
  <2>2. y \in K!Tap /\ ~y.adds /\ y.pc = "tell"
    BY <1>1 DEF K!Tap
  <2>3. ~jostled /\ there => row' = 0
    BY <2>1 DEF ReactionsKept, Followed
  <2>4. row' \in K!Rows /\ row' <= made
    BY <1>1, <2>1
  <2>. HIDE DEF y
  <2>. QED  BY <1>1, <2>1, <2>2, <2>3, <2>4, TapMoves
<1>11. ASSUME NEW t \in Slots, K!Tell(t) PROVE ReactionsKept'
  <2>1. /\ tap' = [tap EXCEPT ![t] = K!NoTap] /\ tap[t].pc = "tell" /\ shown' = tap[t].adds
        /\ UNCHANGED <<on, row, made, there, jostled>>
    BY <1>11 DEF K!Tell, K!Close
  <2>2. ~jostled /\ there => (tap[t].adds <=> row # 0)
    BY <2>1 DEF ReactionsKept, Followed
  <2>3. shown' \in BOOLEAN
    BY <1>1, <2>1 DEF K!Tap
  <2>. QED  BY <1>1, <2>1, <2>2, <2>3, TapMoves
<1>12. ASSUME NEW t \in Slots, K!CutOff(t) PROVE ReactionsKept'
  <2>1. /\ tap' = [tap EXCEPT ![t] = K!NoTap] /\ jostled'
        /\ jostled' \in BOOLEAN /\ UNCHANGED <<on, row, made, there, shown>>
    BY <1>12 DEF K!CutOff, K!Close
  <2>. QED  BY <1>1, <2>1, TapMoves
<1>13. CASE K!MessageGoes
  <2>1. /\ there' = FALSE /\ row' = 0 /\ shown' = FALSE
        /\ UNCHANGED <<on, made, tap, jostled>>
    BY <1>13 DEF K!MessageGoes
  <2>2. K!TypeOK'
    <3>1. made \in Nat /\ 0 <= made
      BY <1>1
    <3>. QED  BY <1>1, <2>1, <3>1 DEF ReactionsKept, K!TypeOK
  <2>3. Followed => Followed'
    BY <2>1 DEF Followed
  <2>. QED  BY <2>1, <2>2, <2>3 DEF ReactionsKept
<1>14. CASE UNCHANGED kvars
  BY <1>14 DEF kvars, ReactionsKept, K!TypeOK, Followed
<1>. QED  BY <1>3, <1>4, <1>5, <1>7, <1>8, <1>9, <1>10, <1>11, <1>12, <1>13, <1>14 DEF K!Next


-----------------------------------------------------------------------------
(* Accounts: the first vote stands *)

\* A vote past the check of earlier ones found none, and is alone.
Voted ==
    /\ \A b, d \in Slots : ballot[b].pc # "idle" /\ ballot[d].pc # "idle" => b = d
    /\ \A b \in Slots : ballot[b].pc = "insert" => votes = {}
    /\ IF counted = Nothing THEN votes = {} ELSE votes = counted

\* The tab's counts include what there was as it began.
TabKept ==
    /\ tab.pc \in {"counts", "mine"} => tab.from \subseteq votes
    /\ tab.pc \in {"mine", "shown"} => tab.from \subseteq tab.counts

VotesKept ==
    /\ V!TypeOK
    /\ \A b \in Slots : ballot[b].pc # "idle" => ballot[b].choice # {}
    /\ TabKept
    /\ contested \/ Voted

LEMMA VotesStand == VotesKept => V!VoteStands
<1>. SUFFICES ASSUME VotesKept PROVE V!VoteStands
  OBVIOUS
<1>1. contested \/ (IF counted = Nothing THEN votes = {} ELSE votes = counted)
  BY DEF VotesKept, Voted
<1>2. tab.pc = "shown" => tab.mine \subseteq tab.counts \/ tab.mine # tab.from
  BY DEF VotesKept, TabKept
<1>. QED  BY <1>1, <1>2 DEF V!VoteStands, V!SecondSubmitAddsNothing

LEMMA InitVotes == AccountsInit => VotesKept
<1>. SUFFICES ASSUME V!Init PROVE VotesKept
  BY Zenon DEF AccountsInit
<1>1. V!NoBallot \in V!Ballot /\ V!NoBallot.pc = "idle" /\ V!NoTab \in V!Tab /\ V!NoTab.pc = "idle"
  BY DEF V!NoBallot, V!Ballot, V!NoTab, V!Tab
<1>. QED  BY <1>1 DEF V!Init, V!TypeOK, VotesKept, Voted, TabKept

\* Vote b comes to y, and writes no rows.
LEMMA BallotMoves ==
    ASSUME VotesKept, NEW b \in Slots, NEW y \in V!Ballot,
           ballot' = [ballot EXCEPT ![b] = y], UNCHANGED <<status, votes, tab, counted>>,
           y.pc # "idle" => y.choice # {},
           y.pc = "insert" => votes = {},
           contested' \in BOOLEAN, contested => contested',
           ballot[b].pc = "idle" /\ ~contested' => \A d \in Slots : ballot[d].pc = "idle"
    PROVE  VotesKept'
<1>1. /\ \A d \in Slots : ballot'[d] = IF d = b THEN y ELSE ballot[d]
      /\ ballot' \in [Slots -> V!Ballot]
  BY DEF VotesKept, V!TypeOK
<1>2. V!TypeOK' /\ TabKept'
  BY <1>1 DEF VotesKept, V!TypeOK, TabKept
<1>3. ~contested' => Voted'
  BY <1>1 DEF VotesKept, Voted
<1>. QED  BY <1>1, <1>2, <1>3 DEF VotesKept

LEMMA VotesStep == VotesKept /\ [AccountsNext]_accountsVars => VotesKept'
<1>. SUFFICES ASSUME VotesKept, V!Next \/ UNCHANGED vvars PROVE VotesKept'
  BY PartsMove
<1>1. /\ ballot \in [Slots -> V!Ballot] /\ votes \subseteq Options /\ contested \in BOOLEAN
      /\ V!NoBallot \in V!Ballot /\ V!NoBallot.pc = "idle" /\ V!NoBallot.choice = {} /\ tab \in V!Tab
  BY DEF VotesKept, V!TypeOK, V!NoBallot, V!Ballot
<1>2. ASSUME NEW b \in Slots, ballot' = [ballot EXCEPT ![b] = V!NoBallot],
             UNCHANGED <<status, votes, tab, counted, contested>>, ballot[b].pc # "idle"
      PROVE  VotesKept'
  BY <1>1, <1>2, BallotMoves
<1>3. ASSUME NEW b \in Slots, NEW choice \in V!Choice, V!ResolveSurvey(b, choice) PROVE VotesKept'
  <2>. DEFINE y == [pc |-> "options", choice |-> choice]
  <2>1. y \in V!Ballot /\ y.pc = "options" /\ y.choice # {}
    BY DEF V!Ballot, V!Choice
  <2>2. /\ ballot' = [ballot EXCEPT ![b] = y] /\ UNCHANGED <<status, votes, tab, counted>>
        /\ contested' = (contested \/ \E d \in Slots : ballot[d].pc # "idle")
    BY <1>3 DEF V!ResolveSurvey
  <2>. HIDE DEF y
  <2>3. contested' \in BOOLEAN /\ (contested => contested')
    BY <1>1, <2>2
  <2>. QED  BY <2>1, <2>2, <2>3, BallotMoves
<1>4. ASSUME NEW b \in Slots, NEW pc \in {"existing", "insert"}, V!Goto(b, pc), ballot[b].pc # "idle",
             pc = "insert" => votes = {}, UNCHANGED <<status, votes, tab, counted, contested>>
      PROVE  VotesKept'
  <2>. DEFINE y == [ballot[b] EXCEPT !.pc = pc]
  <2>1. y \in V!Ballot /\ y.pc = pc /\ y.choice = ballot[b].choice /\ ballot' = [ballot EXCEPT ![b] = y]
    BY <1>1, <1>4 DEF V!Ballot, V!Goto
  <2>2. y.choice # {}
    BY <1>4, <2>1 DEF VotesKept
  <2>. HIDE DEF y
  <2>. QED  BY <1>1, <1>4, <2>1, <2>2, BallotMoves
<1>5. ASSUME NEW b \in Slots, V!CheckOptions(b) PROVE VotesKept'
  BY <1>2, <1>4, <1>5 DEF V!CheckOptions, V!Close
<1>6. ASSUME NEW b \in Slots, V!CheckExisting(b) PROVE VotesKept'
  BY <1>2, <1>4, <1>6 DEF V!CheckExisting, V!Close
<1>7. ASSUME NEW b \in Slots, V!InsertVotes(b) PROVE VotesKept'
  <2>. DEFINE choice == ballot[b].choice
  <2>1. /\ ballot[b].pc = "insert" /\ votes' = votes \cup choice
        /\ counted' = (IF votes = {} THEN choice ELSE counted)
        /\ ballot' = [ballot EXCEPT ![b] = V!NoBallot]
        /\ UNCHANGED <<status, tab, contested>>
    BY <1>7 DEF V!InsertVotes, V!Close
  <2>2. choice # {} /\ choice \subseteq Options /\ choice # Nothing
    BY <1>1, <2>1, NothingAssumption DEF VotesKept, V!Ballot
  <2>3. \A d \in Slots : ballot'[d] = IF d = b THEN V!NoBallot ELSE ballot[d]
    BY <1>1, <2>1
  <2>4. counted' \in V!Choice \cup {Nothing}
    BY <2>1, <2>2 DEF VotesKept, V!TypeOK, V!Choice
  <2>5. V!TypeOK'
    BY <1>1, <2>1, <2>2, <2>4 DEF VotesKept, V!TypeOK
  <2>6. TabKept'
    BY <2>1 DEF VotesKept, TabKept
  <2>7. ASSUME ~contested' PROVE Voted'
    <3>1. Voted /\ votes = {}
      BY <2>1, <2>7 DEF VotesKept, Voted
    <3>2. votes' = choice /\ counted' = choice
      BY <2>1, <3>1
    <3>3. \A d \in Slots : ballot'[d].pc = "idle"
      BY <1>1, <2>1, <2>3, <3>1 DEF Voted
    <3>. QED  BY <2>2, <3>2, <3>3 DEF Voted
  <2>. QED  BY <1>1, <2>3, <2>5, <2>6, <2>7 DEF VotesKept
<1>8. ASSUME UNCHANGED <<status, votes, ballot, counted, contested>>,
             tab' \in V!Tab, TabKept'
      PROVE  VotesKept'
  BY <1>8 DEF VotesKept, V!TypeOK, Voted
<1>9. CASE V!LoadSurvey
  <2>1. [V!NoTab EXCEPT !.pc = "counts", !.from = votes] \in V!Tab
    BY <1>1 DEF V!Tab, V!NoTab
  <2>2. tab' \in V!Tab /\ tab'.pc = "counts" /\ tab'.from = votes
    BY <1>9, <2>1 DEF V!LoadSurvey, V!NoTab
  <2>. QED  BY <1>8, <1>9, <2>2 DEF V!LoadSurvey, TabKept
<1>10. CASE V!ReadCounts
  <2>1. /\ tab' = [tab EXCEPT !.pc = "mine", !.counts = votes] /\ tab.pc = "counts"
        /\ UNCHANGED <<status, votes, ballot, counted, contested>>
    BY <1>10 DEF V!ReadCounts
  <2>2. tab' \in V!Tab /\ tab'.pc = "mine" /\ tab'.from = tab.from /\ tab'.counts = votes
    BY <1>1, <2>1 DEF V!Tab
  <2>3. tab.from \subseteq votes
    BY <2>1 DEF VotesKept, TabKept
  <2>. QED  BY <1>8, <2>1, <2>2, <2>3 DEF TabKept
<1>11. CASE V!ReadMine
  <2>1. /\ tab' = [tab EXCEPT !.pc = "shown", !.mine = votes] /\ tab.pc = "mine"
        /\ UNCHANGED <<status, votes, ballot, counted, contested>>
    BY <1>11 DEF V!ReadMine
  <2>2. tab' \in V!Tab /\ tab'.pc = "shown" /\ tab'.from = tab.from /\ tab'.counts = tab.counts
    BY <1>1, <2>1 DEF V!Tab
  <2>3. tab.from \subseteq tab.counts
    BY <2>1 DEF VotesKept, TabKept
  <2>. QED  BY <1>8, <2>1, <2>2, <2>3 DEF TabKept
<1>12. ASSUME NEW s \in {"live", "finished", "archived"}, V!SetStatus(s) PROVE VotesKept'
  BY <1>12 DEF V!SetStatus, VotesKept, V!TypeOK, Voted, TabKept
<1>13. CASE UNCHANGED vvars
  BY <1>13 DEF vvars, VotesKept, V!TypeOK, Voted, TabKept
<1>14. ASSUME NEW b \in Slots, V!CutOff(b) PROVE VotesKept'
  BY <1>2, <1>14 DEF V!CutOff, V!Close
<1>. QED  BY <1>3, <1>5, <1>6, <1>7, <1>9, <1>10, <1>11, <1>12, <1>13, <1>14 DEF V!Next


-----------------------------------------------------------------------------
(* Accounts: an onboarding rewards once *)

\* A request past the write of the handle.
Past == {"referrer", "refer", "grant", "trial", "welcome"}

\* A request x knows whether it is the first, with the user's handle h and the
\* welcomes w, trials t and referrals r there have been, and what it has yet to count.
Joining(x, h, w, t, r) ==
    /\ x.pc = "upsert" => (x.first <=> h = J!Temp)
    /\ x.pc \in Past \cup {"change", "rename"} => h # J!Temp
    /\ x.pc \in Past => (x.first => w = 0)
    /\ x.pc \in Past \ {"welcome"} => (x.first => t = 0)
    /\ x.pc \in {"grant", "trial"} => r > 0
    /\ x.pc = "trial" => x.first

\* If none was cut off before it, the request to follow no welcome is the first.
Greets(x, w) == x.pc \in Past /\ w = 0 => x.first

\* What holds between the requests, short of what the one under way has to do.
Rewarded ==
    /\ \A s, k \in Slots : submit[s].pc # "idle" /\ submit[k].pc # "idle" => s = k
    /\ \A s \in Slots : Joining(submit[s], mine, welcomes, trial, referred)
    /\ welcomes <= 1 /\ trial <= 1 /\ (trial = 1 => referred > 0)
    /\ mine = J!Temp => welcomes = 0 /\ trial = 0
    /\ months <= referred
    /\ cut \/
       /\ \A s \in Slots : Greets(submit[s], welcomes)
       /\ (\A s \in Slots : submit[s].pc # "grant") => months = referred
       /\ (\A s \in Slots : submit[s].pc \notin Past) => (mine # J!Temp => welcomes = 1)

JoinsKept ==
    /\ J!TypeOK
    /\ \A s \in Slots : submit[s].pc # "idle" => submit[s].handle \in Options
    /\ broken \/ Rewarded

LEMMA RewardsAreOnce == JoinsKept => J!JoinsOnce
BY DEF JoinsKept, Rewarded, J!JoinsOnce, J!Busy, Past

LEMMA SubmitIsTyped ==
    /\ J!NoSubmit \in J!Submit /\ J!NoSubmit.pc = "idle" /\ J!Temp \notin Options
    /\ Referrals \in Nat /\ Referrals >= 1
BY HandlesAssumption, AmountsAssumption DEF J!NoSubmit, J!Submit, J!Temp

LEMMA InitJoins == AccountsInit => JoinsKept
<1>. SUFFICES ASSUME J!Init PROVE JoinsKept
  BY Zenon DEF AccountsInit
<1>1. \A s \in Slots : submit[s] = J!NoSubmit
  BY DEF J!Init
<1>2. J!TypeOK
  <2>1. 0 \in 0..Referrals
    BY SubmitIsTyped
  <2>. QED  BY <2>1, SubmitIsTyped DEF J!Init, J!TypeOK
<1>3. mine = J!Temp /\ welcomes = 0 /\ trial = 0 /\ referred = 0 /\ months = 0
  BY DEF J!Init
<1>. QED  BY <1>1, <1>2, <1>3, SubmitIsTyped DEF JoinsKept, Rewarded, Joining, Greets, Past

\* Request s comes to y, and may write the user's row and the rewards.
LEMMA SubmitMoves ==
    ASSUME JoinsKept, NEW s \in Slots, NEW y \in J!Submit,
           submit' = [submit EXCEPT ![s] = y], UNCHANGED others,
           y.pc # "idle" => y.handle \in Options,
           mine' \in Options \cup {J!Temp}, mine' \notin others, changed' \in BOOLEAN,
           referred' \in 0..Referrals, months' \in 0..Referrals,
           trial' \in 0..Referrals, welcomes' \in 0..Referrals,
           broken' \in BOOLEAN, broken => broken', cut' \in BOOLEAN, cut => cut',
           ~broken' => /\ submit[s].pc = "idle" => \A k \in Slots : submit[k].pc = "idle"
                       /\ Joining(y, mine', welcomes', trial', referred')
                       /\ welcomes' <= 1 /\ trial' <= 1 /\ (trial' = 1 => referred' > 0)
                       /\ mine' = J!Temp => welcomes' = 0 /\ trial' = 0
                       /\ months' <= referred',
           ~broken' /\ ~cut' => /\ Greets(y, welcomes')
                                /\ y.pc # "grant" => months' = referred'
                                /\ y.pc \notin Past => (mine' # J!Temp => welcomes' = 1)
    PROVE  JoinsKept'
<1>1. /\ \A k \in Slots : submit'[k] = IF k = s THEN y ELSE submit[k]
      /\ submit' \in [Slots -> J!Submit]
  BY DEF JoinsKept, J!TypeOK
<1>2. J!TypeOK'
  BY <1>1 DEF JoinsKept, J!TypeOK
<1>3. \A k \in Slots : submit'[k].pc # "idle" => submit'[k].handle \in Options
  BY <1>1 DEF JoinsKept
<1>4. ASSUME ~broken' PROVE Rewarded'
  <2>1. \A k \in Slots : k # s => submit[k].pc = "idle"
    BY <1>4 DEF JoinsKept, Rewarded
  <2>2. \A k \in Slots : submit'[k].pc # "idle" => k = s
    BY <1>1, <2>1
  <2>3. ASSUME NEW k \in Slots PROVE Joining(submit'[k], mine', welcomes', trial', referred')
    <3>1. CASE k = s
      BY <1>1, <1>4, <3>1 DEF Joining
    <3>2. CASE k # s
      BY <1>1, <2>1, <3>2 DEF Joining, Past
    <3>. QED  BY <3>1, <3>2
  <2>4. ASSUME ~cut', NEW k \in Slots PROVE Greets(submit'[k], welcomes')
    BY <1>1, <1>4, <2>1, <2>4 DEF Greets, Past
  <2>5. cut' \/
        /\ (\A k \in Slots : submit'[k].pc # "grant") => months' = referred'
        /\ (\A k \in Slots : submit'[k].pc \notin Past) => (mine' # J!Temp => welcomes' = 1)
    BY <1>1, <1>4
  <2>. QED  BY <1>4, <2>2, <2>3, <2>4, <2>5 DEF Rewarded
<1>. QED  BY <1>2, <1>3, <1>4 DEF JoinsKept

LEMMA JoinsStep == JoinsKept /\ [AccountsNext]_accountsVars => JoinsKept'
<1>. SUFFICES ASSUME JoinsKept, J!Next \/ UNCHANGED jvars PROVE JoinsKept'
  BY PartsMove
<1>1. /\ submit \in [Slots -> J!Submit] /\ J!NoSubmit \in J!Submit /\ J!NoSubmit.pc = "idle"
      /\ mine \in Options \cup {J!Temp} /\ mine \notin others /\ changed \in BOOLEAN
      /\ referred \in 0..Referrals /\ months \in 0..Referrals
      /\ trial \in 0..Referrals /\ welcomes \in 0..Referrals
      /\ broken \in BOOLEAN /\ cut \in BOOLEAN
      /\ J!Temp \notin Options /\ Referrals \in Nat /\ Referrals >= 1
  BY SubmitIsTyped DEF JoinsKept, J!TypeOK
<1>. DEFINE Same == UNCHANGED <<mine, referred, months, trial, welcomes, others, changed>>
            Others(s) == \A k \in Slots \ {s} : submit[k].pc = "idle"
\* Between the requests, and for one that has nothing of its own to count yet.
<1>2. ASSUME NEW s \in Slots, ~broken, submit[s].pc \notin Past \/ submit[s].pc = "idle",
             submit[s].pc # "idle" \/ \A k \in Slots : submit[k].pc = "idle"
      PROVE  /\ welcomes <= 1 /\ trial <= 1 /\ (trial = 1 => referred > 0)
             /\ mine = J!Temp => welcomes = 0 /\ trial = 0
             /\ months <= referred
             /\ ~cut => months = referred /\ (mine # J!Temp => welcomes = 1)
  <2>1. \A k \in Slots : submit[k].pc \notin Past /\ submit[k].pc # "grant"
    BY <1>2 DEF JoinsKept, Rewarded, Past
  <2>. QED  BY <1>2, <2>1 DEF JoinsKept, Rewarded
\* For one that has.
<1>3. ASSUME NEW s \in Slots, ~broken, submit[s].pc # "idle"
      PROVE  /\ Joining(submit[s], mine, welcomes, trial, referred)
             /\ welcomes <= 1 /\ trial <= 1 /\ (trial = 1 => referred > 0)
             /\ mine = J!Temp => welcomes = 0 /\ trial = 0
             /\ months <= referred
             /\ ~cut => /\ Greets(submit[s], welcomes)
                        /\ submit[s].pc # "grant" => months = referred
  <2>1. submit[s].pc # "grant" => \A k \in Slots : submit[k].pc # "grant"
    BY <1>3 DEF JoinsKept, Rewarded
  <2>. QED  BY <1>3, <2>1 DEF JoinsKept, Rewarded
\* A request that ends, with nothing to count or cut off.
<1>4. ASSUME NEW s \in Slots, J!Close(s), Same, submit[s].pc # "idle",
             UNCHANGED broken, cut' \in BOOLEAN, cut => cut',
             submit[s].pc \in Past => cut'
      PROVE  JoinsKept'
  <2>1. submit' = [submit EXCEPT ![s] = J!NoSubmit]
    BY <1>4 DEF J!Close
  <2>3. Joining(J!NoSubmit, mine', welcomes', trial', referred') /\ Greets(J!NoSubmit, welcomes')
    BY <1>1 DEF Joining, Greets, Past
  <2>5. J!NoSubmit.pc \notin Past /\ submit[s].pc \notin Past => submit[s].pc # "grant"
    BY <1>1 DEF Past
  <2>6. ~broken /\ ~cut' => months = referred /\ (mine # J!Temp => welcomes = 1)
    BY <1>1, <1>2, <1>4
  <2>. QED  BY <1>1, <1>3, <1>4, <2>1, <2>3, <2>5, <2>6, SubmitMoves
\* A request that comes in.
<1>5. ASSUME NEW s \in Slots, NEW h \in Options, NEW pc \in {"taken", "change"}, Same,
             submit[s].pc = "idle", pc = "change" => mine # J!Temp,
             broken' = (broken \/ J!Busy), UNCHANGED cut,
             submit' = [submit EXCEPT ![s] = [J!NoSubmit EXCEPT !.pc = pc, !.handle = h]]
      PROVE  JoinsKept'
  <2>. DEFINE y == [J!NoSubmit EXCEPT !.pc = pc, !.handle = h]
  <2>1. y \in J!Submit /\ y.pc = pc /\ y.handle = h
    BY <1>1 DEF J!Submit, J!NoSubmit
  <2>2. submit' = [submit EXCEPT ![s] = y]
    BY <1>5
  <2>. HIDE DEF y
  <2>3. /\ broken' \in BOOLEAN /\ (broken => broken')
        /\ ~broken' => ~broken /\ \A k \in Slots : submit[k].pc = "idle"
    BY <1>1, <1>5 DEF J!Busy
  <2>4. /\ Joining(y, mine', welcomes', trial', referred') /\ Greets(y, welcomes')
        /\ y.pc \notin Past /\ y.pc # "grant"
    BY <1>5, <2>1 DEF Joining, Greets, Past
  <2>5. ~broken' => /\ welcomes' <= 1 /\ trial' <= 1 /\ (trial' = 1 => referred' > 0)
                    /\ mine' = J!Temp => welcomes' = 0 /\ trial' = 0
                    /\ months' <= referred'
                    /\ ~cut' => months' = referred' /\ (mine' # J!Temp => welcomes' = 1)
    BY <1>2, <1>5, <2>3
  <2>6. cut' \in BOOLEAN /\ (cut => cut')
    BY <1>1, <1>5
  <2>. QED  BY <1>1, <1>5, <2>1, <2>2, <2>3, <2>4, <2>5, <2>6, SubmitMoves
\* A request that goes on before it has anything to count.
<1>6. ASSUME NEW s \in Slots, NEW y \in J!Submit, Same, UNCHANGED <<broken, cut>>,
             submit' = [submit EXCEPT ![s] = y], submit[s].pc \notin Past \cup {"idle"},
             y.pc \in {"prior", "upsert", "rename"}, y.handle = submit[s].handle,
             y.pc = "upsert" => (y.first <=> mine = J!Temp),
             y.pc = "rename" => submit[s].pc = "change"
      PROVE  JoinsKept'
  <2>1. y.handle \in Options
    BY <1>6 DEF JoinsKept
  <2>2. ~broken /\ y.pc = "rename" => mine # J!Temp
    BY <1>3, <1>6 DEF Joining
  <2>3. /\ y.pc \notin Past /\ Greets(y, welcomes')
        /\ ~broken => Joining(y, mine', welcomes', trial', referred')
    BY <1>6, <2>2 DEF Joining, Greets, Past
  <2>4. y.pc # "grant" /\ submit[s].pc # "idle" /\ submit[s].pc \notin Past
    BY <1>6
  <2>. QED  BY <1>1, <1>2, <1>6, <2>1, <2>3, <2>4, SubmitMoves
<1>7. ASSUME NEW s \in Slots, NEW h \in Options, J!Start(s, h) PROVE JoinsKept'
  BY <1>5, <1>7 DEF J!Start, J!Rewards, J!Elsewhere
<1>8. ASSUME NEW s \in Slots, NEW h \in Options, J!StartChange(s, h) PROVE JoinsKept'
  BY <1>5, <1>8 DEF J!StartChange, J!Rewards, J!Elsewhere
<1>9. ASSUME NEW s \in Slots, NEW pc \in {"prior", "rename"}, J!Goto(s, pc),
             Same, UNCHANGED <<broken, cut>>, submit[s].pc \notin Past \cup {"idle"},
             pc = "rename" => submit[s].pc = "change"
      PROVE  JoinsKept'
  <2>. DEFINE y == [submit[s] EXCEPT !.pc = pc]
  <2>1. /\ y \in J!Submit /\ y.pc = pc /\ y.handle = submit[s].handle
        /\ submit' = [submit EXCEPT ![s] = y]
    BY <1>1, <1>9 DEF J!Submit, J!Goto
  <2>. HIDE DEF y
  <2>. QED  BY <1>6, <1>9, <2>1
<1>10. ASSUME NEW s \in Slots, J!CheckTaken(s) PROVE JoinsKept'
  <2>1. submit[s].pc = "taken" /\ Same /\ UNCHANGED <<broken, cut>> /\ (J!Close(s) \/ J!Goto(s, "prior"))
    BY <1>10 DEF J!CheckTaken, J!History, J!Rewards, J!Elsewhere
  <2>. QED  BY <1>1, <1>4, <1>9, <2>1 DEF Past
<1>11. ASSUME NEW s \in Slots, J!CheckFree(s) PROVE JoinsKept'
  <2>1. submit[s].pc = "change" /\ Same /\ UNCHANGED <<broken, cut>> /\ (J!Close(s) \/ J!Goto(s, "rename"))
    BY <1>11 DEF J!CheckFree, J!History, J!Rewards, J!Elsewhere
  <2>. QED  BY <1>1, <1>4, <1>9, <2>1 DEF Past
<1>12. ASSUME NEW s \in Slots, J!ReadPrior(s) PROVE JoinsKept'
  <2>. DEFINE y == [submit[s] EXCEPT !.pc = "upsert", !.first = (mine = J!Temp)]
  <2>1. /\ y \in J!Submit /\ y.pc = "upsert" /\ y.handle = submit[s].handle
        /\ (y.first <=> mine = J!Temp)
    BY <1>1 DEF J!Submit
  <2>2. submit' = [submit EXCEPT ![s] = y] /\ submit[s].pc = "prior" /\ Same /\ UNCHANGED <<broken, cut>>
    BY <1>1, <1>12 DEF J!ReadPrior, J!History, J!Rewards, J!Elsewhere
  <2>. HIDE DEF y
  <2>. QED  BY <1>6, <2>1, <2>2 DEF Past
<1>13. ASSUME NEW s \in Slots, J!CutOff(s) PROVE JoinsKept'
  BY <1>1, <1>4, <1>13 DEF J!CutOff, J!History, J!Rewards, J!Elsewhere
\* The handle is written, and the rewards follow.
<1>14. ASSUME NEW s \in Slots, J!Upsert(s) PROVE JoinsKept'
  <2>1. submit[s].pc = "upsert" /\ UNCHANGED <<referred, months, trial, welcomes, others, changed, broken, cut>>
    BY <1>14 DEF J!Upsert, J!History, J!Rewards, J!Elsewhere
  <2>2. CASE submit[s].handle \in others
    BY <1>1, <1>4, <1>14, <2>1, <2>2 DEF J!Upsert, J!History, Past
  <2>3. CASE submit[s].handle \notin others
    <3>1. PICK pc \in {"referrer", "welcome"} :
            submit' = [submit EXCEPT ![s].pc = pc, ![s].seen = (trial > 0)]
      BY <1>14, <2>3 DEF J!Upsert
    <3>. DEFINE y == [submit[s] EXCEPT !.pc = pc, !.seen = (trial > 0)]
    <3>2. /\ submit' = [submit EXCEPT ![s] = y]
          /\ y \in J!Submit
          /\ y.pc = pc /\ y.handle = submit[s].handle /\ y.first = submit[s].first
      <4>1. (trial > 0) \in BOOLEAN
        BY <1>1
      <4>2. y \in J!Submit /\ y.pc = pc /\ y.handle = submit[s].handle /\ y.first = submit[s].first
        BY <1>1, <4>1 DEF J!Submit
      <4>3. submit' = [submit EXCEPT ![s] = y]
        BY <1>1, <3>1
      <4>. QED  BY <4>2, <4>3
    <3>. HIDE DEF y
    <3>3. mine' = submit[s].handle /\ submit[s].handle \in Options /\ mine' # J!Temp
      BY <1>1, <1>14, <2>1, <2>3 DEF J!Upsert, J!History, JoinsKept
    <3>4. ~broken => /\ welcomes <= 1 /\ trial <= 1 /\ (trial = 1 => referred > 0)
                     /\ months <= referred
                     /\ mine = J!Temp => welcomes = 0 /\ trial = 0
                     /\ ~cut => months = referred /\ (mine # J!Temp => welcomes = 1)
                     /\ (submit[s].first <=> mine = J!Temp)
      BY <1>2, <1>3, <2>1 DEF Past, Joining
    <3>5. ~broken => /\ Joining(y, mine', welcomes', trial', referred')
                     /\ ~cut => Greets(y, welcomes')
      BY <2>1, <3>2, <3>3, <3>4 DEF Joining, Greets, Past
    <3>6. y.pc \in Past /\ y.pc # "grant" /\ y.handle \in Options
      BY <3>2, <3>3 DEF Past
    <3>. QED  BY <1>1, <2>1, <2>3, <3>2, <3>3, <3>4, <3>5, <3>6, SubmitMoves
  <2>. QED  BY <2>2, <2>3
<1>15. ASSUME NEW s \in Slots, NEW pc \in Past, J!Goto(s, pc), submit[s].pc \in Past,
              UNCHANGED <<mine, welcomes, others, changed, broken, cut>>,
              referred' \in 0..Referrals, months' \in 0..Referrals, trial' \in 0..Referrals,
              ~broken => /\ trial' <= 1 /\ (trial' = 1 => referred' > 0)
                         /\ pc # "welcome" => (submit[s].first => trial' = 0)
                         /\ pc \in {"grant", "trial"} => referred' > 0
                         /\ pc = "trial" => submit[s].first
                         /\ months' <= referred'
                         /\ ~cut /\ pc # "grant" => months' = referred'
       PROVE  JoinsKept'
  <2>. DEFINE y == [submit[s] EXCEPT !.pc = pc]
  <2>1. /\ submit' = [submit EXCEPT ![s] = y] /\ y \in J!Submit
        /\ y.pc = pc /\ y.handle = submit[s].handle /\ y.first = submit[s].first
    BY <1>1, <1>15 DEF J!Submit, J!Goto, Past
  <2>. HIDE DEF y
  <2>2. y.handle \in Options /\ submit[s].pc # "idle"
    BY <1>15, <2>1 DEF JoinsKept, Past
  <2>3. ~broken => /\ welcomes <= 1 /\ mine # J!Temp
                   /\ submit[s].first => welcomes = 0
                   /\ ~cut => (welcomes = 0 => submit[s].first)
    BY <1>3, <1>15, <2>2 DEF Joining, Greets
  <2>4. ~broken => /\ Joining(y, mine', welcomes', trial', referred')
                   /\ ~cut => Greets(y, welcomes')
    BY <1>15, <2>1, <2>3 DEF Joining, Greets, Past
  <2>. QED  BY <1>1, <1>15, <2>1, <2>2, <2>3, <2>4, SubmitMoves
<1>16. ASSUME NEW s \in Slots, J!ReadReferrer(s) PROVE JoinsKept'
  <2>1. submit[s].pc = "referrer" /\ Same /\ UNCHANGED <<broken, cut>>
        /\ (J!Goto(s, "refer") \/ J!Goto(s, "welcome"))
    BY <1>16 DEF J!ReadReferrer, J!History, J!Rewards, J!Elsewhere
  <2>2. ~broken => /\ trial <= 1 /\ (trial = 1 => referred > 0)
                   /\ months <= referred /\ (~cut => months = referred)
                   /\ submit[s].first => trial = 0
    BY <1>3, <2>1 DEF Joining, Past
  <2>. QED  BY <1>1, <1>15, <2>1, <2>2 DEF Past
<1>17. ASSUME NEW s \in Slots, J!InsertReferral(s) PROVE JoinsKept'
  <2>1. /\ submit[s].pc = "refer" /\ J!Goto(s, "grant") /\ referred' = J!More(referred)
        /\ UNCHANGED <<mine, months, trial, welcomes, others, changed, broken, cut>>
    BY <1>17 DEF J!InsertReferral, J!History, J!Elsewhere
  <2>2. referred' \in 0..Referrals /\ referred' > 0 /\ referred <= referred'
    BY <1>1, <2>1 DEF J!More
  <2>3. ~broken => trial <= 1 /\ (submit[s].first => trial = 0) /\ months <= referred'
    BY <1>1, <1>3, <2>1, <2>2 DEF Joining, Past
  <2>. QED  BY <1>1, <1>15, <2>1, <2>2, <2>3 DEF Past
<1>18. ASSUME NEW s \in Slots, J!GrantReferrer(s) PROVE JoinsKept'
  <2>. DEFINE pc == IF submit[s].first /\ ~submit[s].seen THEN "trial" ELSE "welcome"
  <2>1. /\ submit[s].pc = "grant" /\ J!Goto(s, pc) /\ months' = referred
        /\ UNCHANGED <<mine, referred, trial, welcomes, others, changed, broken, cut>>
    BY <1>18 DEF J!GrantReferrer, J!History, J!Elsewhere
  <2>2. pc \in {"trial", "welcome"} /\ (pc = "trial" => submit[s].first)
    OBVIOUS
  <2>. HIDE DEF pc
  <2>3. ~broken => trial <= 1 /\ (submit[s].first => trial = 0) /\ referred > 0
    BY <1>3, <2>1 DEF Joining, Past
  <2>. QED  BY <1>1, <1>15, <2>1, <2>2, <2>3 DEF Past
<1>19. ASSUME NEW s \in Slots, J!GrantJoiner(s) PROVE JoinsKept'
  <2>1. /\ submit[s].pc = "trial" /\ J!Goto(s, "welcome") /\ trial' = J!More(trial)
        /\ UNCHANGED <<mine, referred, months, welcomes, others, changed, broken, cut>>
    BY <1>19 DEF J!GrantJoiner, J!History, J!Elsewhere
  <2>2. trial' \in 0..Referrals
    BY <1>1, <2>1 DEF J!More
  <2>3. ~broken => /\ trial = 0 /\ referred > 0
                   /\ months <= referred /\ (~cut => months = referred)
    BY <1>3, <2>1 DEF Joining, Past
  <2>4. ~broken => trial' = 1
    BY <1>1, <2>1, <2>3 DEF J!More
  <2>. QED  BY <1>1, <1>15, <2>1, <2>2, <2>3, <2>4 DEF Past
<1>20. ASSUME NEW s \in Slots, J!Welcome(s) PROVE JoinsKept'
  <2>1. /\ submit[s].pc = "welcome" /\ submit' = [submit EXCEPT ![s] = J!NoSubmit]
        /\ welcomes' = (IF submit[s].first THEN J!More(welcomes) ELSE welcomes)
        /\ UNCHANGED <<mine, referred, months, trial, others, changed, broken, cut>>
    BY <1>20 DEF J!Welcome, J!History, J!Close, J!Elsewhere
  <2>2. welcomes' \in 0..Referrals
    BY <1>1, <2>1 DEF J!More
  <2>3. ~broken => /\ mine # J!Temp /\ (submit[s].first => welcomes = 0)
                   /\ welcomes <= 1 /\ trial <= 1 /\ (trial = 1 => referred > 0)
                   /\ months <= referred
                   /\ ~cut => months = referred /\ (welcomes = 0 => submit[s].first)
    BY <1>3, <2>1 DEF Joining, Greets, Past
  <2>4. ~broken => welcomes' <= 1 /\ (~cut => welcomes' = 1)
    BY <1>1, <2>1, <2>3 DEF J!More
  <2>5. /\ Joining(J!NoSubmit, mine', welcomes', trial', referred')
        /\ Greets(J!NoSubmit, welcomes') /\ J!NoSubmit.pc # "grant"
    BY <1>1 DEF Joining, Greets, Past
  <2>6. ~broken => /\ welcomes' <= 1 /\ trial' <= 1 /\ (trial' = 1 => referred' > 0)
                   /\ mine' = J!Temp => welcomes' = 0 /\ trial' = 0
                   /\ months' <= referred'
                   /\ ~cut => months' = referred' /\ welcomes' = 1
    BY <2>1, <2>3, <2>4
  <2>. QED  BY <1>1, <2>1, <2>2, <2>5, <2>6, SubmitMoves
<1>21. ASSUME NEW s \in Slots, J!Rename(s) PROVE JoinsKept'
  <2>1. /\ submit[s].pc = "rename" /\ submit' = [submit EXCEPT ![s] = J!NoSubmit]
        /\ UNCHANGED <<referred, months, trial, welcomes, others, broken, cut>>
        /\ \/ UNCHANGED <<mine, changed>>
           \/ submit[s].handle \notin others /\ mine' = submit[s].handle /\ changed' = TRUE
    BY <1>21 DEF J!Rename, J!History, J!Close, J!Rewards
  <2>2. submit[s].handle \in Options /\ submit[s].handle # J!Temp
    BY <1>1, <2>1 DEF JoinsKept
  <2>3. /\ mine' \in Options \cup {J!Temp} /\ mine' \notin others /\ changed' \in BOOLEAN
        /\ mine' = J!Temp => mine = J!Temp
    BY <1>1, <2>1, <2>2
  <2>4. ~broken => /\ welcomes <= 1 /\ trial <= 1 /\ (trial = 1 => referred > 0)
                   /\ mine = J!Temp => welcomes = 0 /\ trial = 0
                   /\ months <= referred
                   /\ ~cut => months = referred /\ welcomes = 1
    BY <1>2, <1>3, <2>1 DEF Past, Joining
  <2>5. /\ Joining(J!NoSubmit, mine', welcomes', trial', referred')
        /\ Greets(J!NoSubmit, welcomes') /\ J!NoSubmit.pc # "grant"
    BY <1>1 DEF Joining, Greets, Past
  <2>. QED  BY <1>1, <2>1, <2>3, <2>4, <2>5, SubmitMoves
<1>22. CASE J!CooldownEnds
  BY <1>22 DEF J!CooldownEnds, J!History, J!Rewards, JoinsKept, J!TypeOK, Rewarded
<1>23. ASSUME NEW h \in Options, J!OtherTakes(h) PROVE JoinsKept'
  BY <1>23 DEF J!OtherTakes, J!History, J!Rewards, JoinsKept, J!TypeOK, Rewarded
<1>24. CASE UNCHANGED jvars
  BY <1>24 DEF jvars, JoinsKept, J!TypeOK, Rewarded
<1>25. ASSUME NEW s \in Slots,
              \/ \E h \in Options : J!Start(s, h) \/ J!StartChange(s, h)
              \/ J!CheckTaken(s) \/ J!ReadPrior(s) \/ J!Upsert(s) \/ J!ReadReferrer(s)
              \/ J!InsertReferral(s) \/ J!GrantReferrer(s) \/ J!GrantJoiner(s) \/ J!Welcome(s)
              \/ J!CheckFree(s) \/ J!Rename(s) \/ J!CutOff(s)
       PROVE  JoinsKept'
  BY <1>7, <1>8, <1>10, <1>11, <1>12, <1>13, <1>14, <1>16, <1>17, <1>18, <1>19, <1>20, <1>21, <1>25
<1>. QED  BY <1>22, <1>23, <1>24, <1>25 DEF J!Next


-----------------------------------------------------------------------------
(* Accounts: the access is what was paid for *)

\* The profile says what it does after the first k events.
Applied(k) ==
    IF k = 0 \/ event[k].type = "EXPIRATION"
    THEN ~premium.is
    ELSE premium.is /\ premium.until = event[k].until

\* The store's events: the last tells of the time that is paid for, an expiration
\* of a time that has passed, and a cancellation of the time told of before it.
Booked ==
    /\ \A e \in 1..Len(event) : event[e].type # "TRANSFER" /\ event[e].until # 0 /\ event[e].known
    /\ IF Len(event) = 0 THEN paid = 0 ELSE event[Len(event)].until = paid
    /\ Len(event) > 0 /\ event[Len(event)].type = "EXPIRATION" => paid <= period
    /\ \A e \in 1..Len(event) :
         event[e].type = "CANCELLATION" =>
           e > 1 /\ event[e - 1].type # "EXPIRATION" /\ event[e - 1].until = event[e].until

\* The first n events are answered, and the next may be under way; the profile says
\* what it does after n, or after the next as well.
Answered(n) ==
    /\ owed = (n + 1)..Len(event)
    /\ \A h \in Slots : hook[h].pc # "idle" => hook[h].e = n + 1
    /\ \A h, k \in Slots : hook[h].pc # "idle" /\ hook[k].pc # "idle" => h = k
    /\ \A h \in Slots : hook[h].pc \notin {"idle", "apply"} => Applied(n + 1)
    /\ Applied(n) \/ (n < Len(event) /\ Applied(n + 1))

AccessKept ==
    /\ W!TypeOK
    /\ \A h \in Slots : hook[h].pc # "idle" => hook[h].e \in 1..Len(event)
    /\ meddled \/ Booked
    /\ meddled \/ disordered \/ \E n \in 0..Len(event) : Answered(n)

\* Everything in these models that is a number or a sequence is one.
LEMMA MoneyTyped ==
    ASSUME W!TypeOK
    PROVE  /\ period \in 1..Periods /\ paid \in 0..(Periods + 2) /\ Periods \in Nat
           /\ event \in Seq(W!Event) /\ Len(event) \in Nat /\ Len(event) <= Events
           /\ \A e \in 1..Len(event) : event[e] \in W!Event /\ event[e].until \in 0..(Periods + 2)
           /\ hook \in [Slots -> W!Hook]
           /\ premium \in [is : BOOLEAN, until : (0..(Periods + 2)) \cup {Nothing}]
           /\ owed \subseteq 1..Len(event) /\ conversion \subseteq 1..Len(event)
           /\ Events \in Nat
<1>1. /\ period \in 1..Periods /\ paid \in 0..(Periods + 2) /\ Periods \in Nat
      /\ event \in Seq(W!Event) /\ Len(event) <= Events /\ Events \in Nat
      /\ hook \in [Slots -> W!Hook]
      /\ premium \in [is : BOOLEAN, until : (0..(Periods + 2)) \cup {Nothing}]
      /\ owed \subseteq 1..Len(event) /\ conversion \subseteq 1..Len(event)
  BY AmountsAssumption DEF W!TypeOK, W!Period
<1>2. Len(event) \in Nat
  BY <1>1
<1>3. \A e \in 1..Len(event) : event[e] \in W!Event
  BY <1>1
<1>4. \A e \in 1..Len(event) : event[e].until \in 0..(Periods + 2)
  BY <1>3 DEF W!Event, W!Period
<1>. QED  BY <1>1, <1>2, <1>3, <1>4

LEMMA AccessIsPaid == AccessKept => W!AccessFollowsStore
<1>. SUFFICES ASSUME AccessKept, owed = {}, ~disordered, ~meddled
     PROVE  W!Access <=> paid > period
  BY DEF W!AccessFollowsStore, W!Settled
<1>1. PICK n \in 0..Len(event) : Answered(n)
  BY DEF AccessKept
<1>2. Booked
  BY DEF AccessKept
<1>. DEFINE len == Len(event)
<1>3. /\ len \in Nat /\ period \in 1..Periods /\ paid \in 0..(Periods + 2) /\ Periods \in Nat
      /\ Nothing \notin Nat
  BY MoneyTyped, NothingAssumption DEF AccessKept
<1>4. n = len
  BY <1>1, <1>3 DEF Answered
<1>5. Applied(len)
  BY <1>1, <1>3, <1>4 DEF Answered
<1>6. CASE len = 0
  BY <1>2, <1>3, <1>5, <1>6 DEF Booked, Applied, W!Access
<1>7. CASE len # 0 /\ event[len].type = "EXPIRATION"
  BY <1>2, <1>3, <1>5, <1>7 DEF Booked, Applied, W!Access
<1>8. CASE len # 0 /\ event[len].type # "EXPIRATION"
  BY <1>2, <1>3, <1>5, <1>8 DEF Booked, Applied, W!Access
<1>. QED  BY <1>6, <1>7, <1>8

LEMMA InitAccess == AccountsInit => AccessKept
<1>. SUFFICES ASSUME W!Init PROVE AccessKept
  BY Zenon DEF AccountsInit
<1>1. /\ event = <<>> /\ Len(event) = 0 /\ owed = {} /\ paid = 0 /\ period = 1 /\ ~premium.is
      /\ conversion = {} /\ ~meddled /\ ~disordered
  BY DEF W!Init
<1>2. W!NoHook \in W!Hook /\ W!NoHook.pc = "idle"
  BY AmountsAssumption DEF W!NoHook, W!Hook
<1>3. \A h \in Slots : hook[h].pc = "idle"
  BY <1>2 DEF W!Init
<1>4. W!TypeOK
  <2>1. 1 \in 1..Periods /\ 0 \in W!Period /\ 0 \in 0..Faults /\ 0 <= Events
    BY AmountsAssumption DEF W!Period
  <2>2. event \in Seq(W!Event) /\ hook \in [Slots -> W!Hook]
    BY <1>1, <1>2 DEF W!Init
  <2>3. premium \in [is : BOOLEAN, until : W!Period \cup {Nothing}]
    BY DEF W!Init
  <2>. QED  BY <1>1, <2>1, <2>2, <2>3 DEF W!Init, W!TypeOK
<1>5. Booked
  BY <1>1 DEF Booked
<1>6. Answered(0)
  BY <1>1, <1>3 DEF Answered, Applied
<1>. QED  BY <1>1, <1>3, <1>4, <1>5, <1>6 DEF AccessKept


\* The store makes an event.
LEMMA StoreTells ==
    ASSUME AccessKept, NEW ev \in W!Event, Len(event) < Events,
           event' = Append(event, ev), owed' = owed \cup {Len(event) + 1},
           UNCHANGED <<hook, premium, conversion, faults, disordered, period>>,
           paid' \in 0..(Periods + 2), meddled' \in BOOLEAN, meddled => meddled',
           ~meddled' => /\ ev.type # "TRANSFER" /\ ev.until = paid' /\ paid' # 0 /\ ev.known
                        /\ ev.type = "EXPIRATION" => paid' <= period
                        /\ ev.type = "CANCELLATION" => paid' = paid /\ paid > period
    PROVE  AccessKept'
<1>. DEFINE len == Len(event)
<1>1. /\ len \in Nat /\ event \in Seq(W!Event) /\ Events \in Nat
      /\ owed \subseteq 1..len /\ conversion \subseteq 1..len
      /\ hook \in [Slots -> W!Hook] /\ paid \in Nat /\ period \in Nat
      /\ \A e \in 1..len : event[e].until \in Nat
  BY MoneyTyped DEF AccessKept
<1>2. /\ event' \in Seq(W!Event) /\ Len(event') = len + 1 /\ event'[len + 1] = ev
      /\ \A e \in 1..len : event'[e] = event[e]
  BY <1>1
<1>3. W!TypeOK'
  <2>1. Len(event') <= Events /\ owed' \subseteq 1..Len(event') /\ conversion' \subseteq 1..Len(event')
    BY <1>1, <1>2
  <2>2. paid' \in W!Period
    BY DEF W!Period
  <2>. QED  BY <1>1, <1>2, <2>1, <2>2 DEF AccessKept, W!TypeOK
<1>4. \A h \in Slots : hook[h].pc # "idle" => hook[h].e \in 1..Len(event')
  BY <1>1, <1>2 DEF AccessKept
<1>5. ASSUME ~meddled' PROVE Booked'
  <2>1. Booked
    BY <1>5 DEF AccessKept
  <2>2. ev.until = paid' /\ paid' # 0 /\ ev.type # "TRANSFER" /\ ev.known
    BY <1>5
  <2>3. \A e \in 1..Len(event') : event'[e].type # "TRANSFER" /\ event'[e].until # 0
                                       /\ event'[e].known
    BY <1>1, <1>2, <2>1, <2>2 DEF Booked
  <2>4. IF Len(event') = 0 THEN paid' = 0 ELSE event'[Len(event')].until = paid'
    BY <1>1, <1>2, <2>2
  <2>5. Len(event') > 0 /\ event'[Len(event')].type = "EXPIRATION" => paid' <= period'
    BY <1>1, <1>2, <1>5
  <2>6. ASSUME NEW e \in 1..Len(event'), event'[e].type = "CANCELLATION"
        PROVE  e > 1 /\ event'[e - 1].type # "EXPIRATION" /\ event'[e - 1].until = event'[e].until
    <3>1. CASE e = len + 1
      <4>1. paid' = paid /\ paid > period
        BY <1>2, <1>5, <2>6, <3>1
      <4>2. len > 0 /\ event[len].until = paid /\ event[len].type # "EXPIRATION"
        BY <1>1, <2>1, <4>1 DEF Booked
      <4>3. e - 1 = len /\ e > 1 /\ event'[e - 1] = event[len]
        BY <1>1, <1>2, <3>1, <4>2
      <4>. QED  BY <1>2, <2>2, <3>1, <4>1, <4>2, <4>3
    <3>2. CASE e # len + 1
      <4>1. e \in 1..len /\ event'[e] = event[e]
        BY <1>1, <1>2, <3>2
      <4>2. e > 1 /\ event[e - 1].type # "EXPIRATION" /\ event[e - 1].until = event[e].until
        BY <2>1, <2>6, <4>1 DEF Booked
      <4>3. event'[e - 1] = event[e - 1]
        BY <1>1, <1>2, <4>1, <4>2
      <4>. QED  BY <4>1, <4>2, <4>3
    <3>. QED  BY <3>1, <3>2
  <2>. QED  BY <2>3, <2>4, <2>5, <2>6 DEF Booked
<1>6. ASSUME NEW n \in 0..len, Answered(n) PROVE n \in 0..Len(event') /\ Answered(n)'
  <2>1. n \in 0..Len(event') /\ owed' = (n + 1)..Len(event')
    BY <1>1, <1>2, <1>6 DEF Answered
  <2>2. Applied(n) => Applied(n)'
    BY <1>1, <1>2 DEF Applied
  <2>3. n < len /\ Applied(n + 1) => n < Len(event') /\ Applied(n + 1)'
    BY <1>1, <1>2 DEF Applied
  <2>4. ASSUME NEW h \in Slots, hook'[h].pc \notin {"idle", "apply"} PROVE Applied(n + 1)'
    <3>1. n + 1 \in 1..len /\ Applied(n + 1)
      BY <1>6, <2>4 DEF Answered, AccessKept
    <3>. QED  BY <1>1, <1>2, <3>1 DEF Applied
  <2>. QED  BY <1>6, <2>1, <2>2, <2>3, <2>4 DEF Answered
<1>. QED  BY <1>3, <1>4, <1>5, <1>6 DEF AccessKept

\* The store's own steps, and time.
LEMMA StoreIsBooked ==
    ASSUME AccessKept
    PROVE  /\ W!Purchase => AccessKept'
           /\ W!Renew => AccessKept'
           /\ W!TurnOff => AccessKept'
           /\ W!Expire => AccessKept'
           /\ W!Transfer => AccessKept'
           /\ W!PurchaseAmiss => AccessKept'
           /\ W!ChangeAmiss => AccessKept'
           /\ W!PeriodEnds => AccessKept'
<1>1. /\ period \in 1..Periods /\ paid \in 0..(Periods + 2) /\ Periods \in Nat
      /\ meddled \in BOOLEAN
  BY MoneyTyped DEF AccessKept, W!TypeOK
<1>2. ASSUME NEW type \in W!Type, NEW until \in 0..(Periods + 2), W!Tell(type, until),
             UNCHANGED <<hook, premium, conversion, faults, disordered, period>>,
             paid' \in 0..(Periods + 2), meddled' \in BOOLEAN, meddled => meddled',
             ~meddled' => /\ type # "TRANSFER" /\ until = paid' /\ paid' # 0
                          /\ type = "EXPIRATION" => paid' <= period
                          /\ type = "CANCELLATION" => paid' = paid /\ paid > period
      PROVE  AccessKept'
  <2>. DEFINE ev == [type |-> type, until |-> until, known |-> TRUE]
  <2>1. ev \in W!Event /\ ev.type = type /\ ev.until = until /\ ev.known
    BY <1>2 DEF W!Event, W!Period
  <2>2. Len(event) < Events /\ event' = Append(event, ev) /\ owed' = owed \cup {Len(event) + 1}
    BY <1>2 DEF W!Tell, W!TellOf
  <2>. HIDE DEF ev
  <2>. QED  BY <1>2, <2>1, <2>2, StoreTells
<1>12. ASSUME NEW type \in W!Type, NEW until \in 0..(Periods + 2),
              Len(event) < Events, owed' = owed \cup {Len(event) + 1},
              event' = Append(event, [type |-> type, until |-> until, known |-> FALSE]),
              UNCHANGED <<hook, premium, conversion, faults, disordered, period>>,
              paid' \in 0..(Periods + 2), meddled' = TRUE
       PROVE  AccessKept'
  <2>. DEFINE ev == [type |-> type, until |-> until, known |-> FALSE]
  <2>1. ev \in W!Event
    BY <1>12 DEF W!Event, W!Period
  <2>2. event' = Append(event, ev)
    BY <1>12
  <2>. HIDE DEF ev
  <2>. QED  BY <1>12, <2>1, <2>2, StoreTells
<1>3. /\ {"INITIAL_PURCHASE", "RENEWAL", "UNCANCELLATION", "BILLING_ISSUE", "EXPIRATION",
          "CANCELLATION", "TRANSFER"} = W!Type
  BY DEF W!Type, W!Grant, W!SoftExpiry, W!Revoke
<1>4. ASSUME W!Purchase PROVE AccessKept'
  <2>1. /\ paid' = period + 1 /\ W!Tell("INITIAL_PURCHASE", period + 1)
        /\ UNCHANGED <<hook, premium, conversion, faults, disordered, period, meddled>>
    BY <1>4 DEF W!Purchase, W!Handling
  <2>. QED  BY <1>1, <1>2, <1>3, <2>1
<1>5. ASSUME W!Renew PROVE AccessKept'
  <2>1. /\ paid' = period + 2 /\ W!Tell("RENEWAL", period + 2)
        /\ UNCHANGED <<hook, premium, conversion, faults, disordered, period, meddled>>
    BY <1>5 DEF W!Renew, W!Handling
  <2>. QED  BY <1>1, <1>2, <1>3, <2>1
<1>6. ASSUME W!TurnOff PROVE AccessKept'
  <2>1. /\ paid > period /\ \E type \in {"CANCELLATION", "UNCANCELLATION", "BILLING_ISSUE"} : W!Tell(type, paid)
        /\ UNCHANGED <<hook, premium, conversion, faults, disordered, period, paid, meddled>>
    BY <1>6 DEF W!TurnOff, W!Handling
  <2>. QED  BY <1>1, <1>2, <1>3, <2>1
<1>7. ASSUME W!Expire PROVE AccessKept'
  <2>1. /\ paid \in 1..period /\ W!Tell("EXPIRATION", paid)
        /\ UNCHANGED <<hook, premium, conversion, faults, disordered, period, paid, meddled>>
    BY <1>7 DEF W!Expire, W!Handling
  <2>. QED  BY <1>1, <1>2, <1>3, <2>1
<1>8. ASSUME W!Transfer PROVE AccessKept'
  <2>1. /\ paid' = period + 1 /\ W!Tell("TRANSFER", period + 1) /\ meddled' = TRUE
        /\ UNCHANGED <<hook, premium, conversion, faults, disordered, period>>
    BY <1>8 DEF W!Transfer, W!Handling
  <2>. QED  BY <1>1, <1>2, <1>3, <2>1
<1>9. ASSUME W!PurchaseAmiss PROVE AccessKept'
  <2>1. /\ paid' = period + 1 /\ meddled' = TRUE
        /\ UNCHANGED <<hook, premium, conversion, faults, disordered, period>>
    BY <1>9 DEF W!PurchaseAmiss, W!Handling
  <2>2. CASE W!Tell("INITIAL_PURCHASE", 0)
    BY <1>1, <1>2, <1>3, <2>1, <2>2
  <2>3. CASE W!TellOf("INITIAL_PURCHASE", period + 1, FALSE)
    <3>1. /\ Len(event) < Events /\ owed' = owed \cup {Len(event) + 1}
          /\ event' = Append(event, [type |-> "INITIAL_PURCHASE", until |-> period + 1, known |-> FALSE])
      BY <2>3 DEF W!TellOf
    <3>. QED  BY <1>1, <1>3, <1>12, <2>1, <3>1
  <2>. QED  BY <1>9, <2>2, <2>3 DEF W!PurchaseAmiss, W!TellAmiss, W!Tell, W!NoExpiry
<1>11. ASSUME W!ChangeAmiss PROVE AccessKept'
  <2>1. /\ meddled' = TRUE
        /\ UNCHANGED <<hook, premium, conversion, faults, disordered, period, paid>>
    BY <1>11 DEF W!ChangeAmiss, W!Handling
  <2>2. PICK type \in {"RENEWAL", "BILLING_ISSUE"} : W!TellAmiss(type, paid)
    BY <1>11 DEF W!ChangeAmiss
  <2>3. CASE W!Tell(type, 0)
    BY <1>1, <1>2, <1>3, <2>1, <2>3
  <2>4. CASE W!TellOf(type, paid, FALSE)
    <3>1. /\ Len(event) < Events /\ owed' = owed \cup {Len(event) + 1}
          /\ event' = Append(event, [type |-> type, until |-> paid, known |-> FALSE])
      BY <2>4 DEF W!TellOf
    <3>. QED  BY <1>1, <1>3, <1>12, <2>1, <3>1
  <2>. QED  BY <2>2, <2>3, <2>4 DEF W!TellAmiss, W!Tell, W!NoExpiry
<1>10. ASSUME W!PeriodEnds PROVE AccessKept'
  <2>1. /\ period' = period + 1 /\ period < Periods
        /\ UNCHANGED <<paid, event, owed, meddled, hook, premium, conversion, faults, disordered>>
    BY <1>10 DEF W!PeriodEnds, W!Handling
  <2>2. period' \in 1..Periods /\ period <= period'
    BY <1>1, <2>1
  <2>3. W!TypeOK'
    BY <2>1, <2>2 DEF AccessKept, W!TypeOK
  <2>4. Booked => Booked'
    BY <1>1, <2>1, <2>2 DEF Booked
  <2>5. \A n : Answered(n) => Answered(n)'
    BY <2>1 DEF Answered, Applied
  <2>. QED  BY <2>1, <2>3, <2>4, <2>5 DEF AccessKept
<1>. QED  BY <1>4, <1>5, <1>6, <1>7, <1>8, <1>9, <1>10, <1>11


\* The webhook request in slot h comes to y.
LEMMA HookMoves ==
    ASSUME AccessKept, NEW h \in Slots, NEW y \in W!Hook,
           hook' = [hook EXCEPT ![h] = y], UNCHANGED <<period, paid, event, meddled>>,
           y.pc # "idle" => y.e \in 1..Len(event),
           owed' \subseteq owed, conversion' \subseteq 1..Len(event),
           premium' \in [is : BOOLEAN, until : W!Period \cup {Nothing}],
           faults' \in 0..Faults, disordered' \in BOOLEAN, disordered => disordered',
           ~meddled /\ ~disordered' =>
             \A n \in 0..Len(event) : Answered(n) => \E m \in 0..Len(event) : Answered(m)'
    PROVE  AccessKept'
<1>1. /\ \A k \in Slots : hook'[k] = IF k = h THEN y ELSE hook[k]
      /\ hook' \in [Slots -> W!Hook]
  BY DEF AccessKept, W!TypeOK
<1>2. W!TypeOK'
  BY <1>1 DEF AccessKept, W!TypeOK
<1>3. \A k \in Slots : hook'[k].pc # "idle" => hook'[k].e \in 1..Len(event)
  BY <1>1 DEF AccessKept
<1>4. Booked => Booked'
  BY DEF Booked
<1>5. ~meddled /\ ~disordered' => \E m \in 0..Len(event) : Answered(m)'
  BY DEF AccessKept
<1>. QED  BY <1>2, <1>3, <1>4, <1>5 DEF AccessKept

\* It goes on, with the same event still owed, and the profile is as the events up to
\* it left it.
LEMMA StillAnswered ==
    ASSUME AccessKept, NEW n \in 0..Len(event), Answered(n),
           NEW h \in Slots, NEW y \in W!Hook,
           hook' = [hook EXCEPT ![h] = y], UNCHANGED <<event, owed>>,
           y.pc # "idle" => y.e = n + 1 /\ n < Len(event),
           hook[h].pc = "idle" => \A k \in Slots : hook[k].pc = "idle",
           y.pc \notin {"idle", "apply"} => Applied(n + 1)',
           UNCHANGED premium \/ (n < Len(event) /\ Applied(n + 1)')
    PROVE  Answered(n)'
<1>1. \A k \in Slots : hook'[k] = IF k = h THEN y ELSE hook[k]
  BY DEF AccessKept, W!TypeOK
<1>2. /\ UNCHANGED premium /\ Applied(n + 1) => Applied(n + 1)'
      /\ UNCHANGED premium /\ Applied(n) => Applied(n)'
  BY DEF Applied
<1>3. Applied(n)' \/ (n < Len(event') /\ Applied(n + 1)')
  BY <1>2 DEF Answered
<1>4. \A k \in Slots : hook'[k].pc # "idle" => hook'[k].e = n + 1
  BY <1>1 DEF Answered
<1>5. \A k, j \in Slots : hook'[k].pc # "idle" /\ hook'[j].pc # "idle" => k = j
  BY <1>1 DEF Answered
<1>6. ASSUME NEW k \in Slots, hook'[k].pc \notin {"idle", "apply"} PROVE Applied(n + 1)'
  <2>1. CASE k = h
    BY <1>1, <1>6, <2>1
  <2>2. CASE k # h
    BY <1>1, <1>2, <1>6, <2>2 DEF Answered
  <2>. QED  BY <2>1, <2>2
<1>. QED  BY <1>3, <1>4, <1>5, <1>6 DEF Answered

LEMMA HooksAreAnswered ==
    ASSUME AccessKept, NEW h \in Slots
    PROVE  /\ \A e \in 1..Events : W!Deliver(h, e) => AccessKept'
           /\ W!Apply(h) => AccessKept'
           /\ W!LookUpReferral(h) => AccessKept'
           /\ W!InsertConversion(h) => AccessKept'
           /\ W!Reply(h) => AccessKept'
           /\ W!Fail(h) => AccessKept'
<1>. DEFINE len == Len(event)
            x == hook[h]
<1>1. /\ len \in Nat /\ hook \in [Slots -> W!Hook] /\ x \in W!Hook
      /\ owed \subseteq 1..len /\ conversion \subseteq 1..len /\ len <= Events /\ Events \in Nat
      /\ premium \in [is : BOOLEAN, until : W!Period \cup {Nothing}]
      /\ faults \in 0..Faults /\ disordered \in BOOLEAN /\ Faults \in Nat
      /\ x.pc # "idle" => x.e \in 1..len
      /\ W!NoHook \in W!Hook /\ W!NoHook.pc = "idle"
  BY MoneyTyped, AmountsAssumption DEF AccessKept, W!TypeOK, W!NoHook, W!Hook
<1>2. ASSUME NEW e \in 1..Events, W!Deliver(h, e) PROVE AccessKept'
  <2>. DEFINE y == [pc |-> "apply", e |-> e]
  <2>1. /\ x.pc = "idle" /\ e \in owed /\ \A k \in Slots : hook[k].e # e
        /\ hook' = [hook EXCEPT ![h] = y]
        /\ UNCHANGED <<period, paid, event, meddled, owed, premium, conversion, faults>>
        /\ disordered' = (disordered \/ (\E f \in owed : f < e) \/ (\E k \in Slots : hook[k].e > e)
                            \/ (\E f \in 1..len \ owed : f > e))
    BY <1>2 DEF W!Deliver, W!Outside
  <2>2. y \in W!Hook /\ y.pc = "apply" /\ y.e = e
    BY DEF W!Hook
  <2>. HIDE DEF y
  <2>3. disordered' \in BOOLEAN /\ (disordered => disordered')
    BY <1>1, <2>1
  <2>4. ASSUME ~disordered', NEW n \in 0..len, Answered(n) PROVE Answered(n)'
    <3>1. ~\E f \in owed : f < e
      BY <2>1, <2>4
    <3>2. e = n + 1 /\ n < len
      BY <1>1, <2>1, <2>4, <3>1 DEF Answered
    <3>3. \A k \in Slots : hook[k].pc = "idle"
      BY <2>1, <2>4, <3>2 DEF Answered
    <3>. QED  BY <2>1, <2>2, <2>4, <3>2, <3>3, StillAnswered
  <2>. QED  BY <1>1, <2>1, <2>2, <2>3, <2>4, HookMoves
<1>3. ASSUME NEW pc \in {"lookup", "insert", "reply"}, W!Goto(h, pc), x.pc # "idle",
             UNCHANGED <<period, paid, event, meddled, owed, faults, disordered>>,
             conversion' \subseteq 1..len, premium' \in [is : BOOLEAN, until : W!Period \cup {Nothing}],
             \A n \in 0..len : ~meddled /\ x.e = n + 1 /\ Answered(n) => Applied(n + 1)'
      PROVE  AccessKept'
  <2>. DEFINE y == [x EXCEPT !.pc = pc]
  <2>1. y \in W!Hook /\ y.pc = pc /\ y.e = x.e /\ hook' = [hook EXCEPT ![h] = y]
    BY <1>1, <1>3 DEF W!Hook, W!Goto
  <2>. HIDE DEF y
  <2>2. ASSUME ~meddled, NEW n \in 0..len, Answered(n) PROVE Answered(n)'
    <3>1. x.e = n + 1 /\ n < len
      BY <1>1, <1>3, <2>2 DEF Answered
    <3>2. Applied(n + 1)'
      BY <1>3, <2>2, <3>1
    <3>. QED  BY <1>3, <2>1, <2>2, <3>1, <3>2, StillAnswered
  <2>. QED  BY <1>1, <1>3, <2>1, <2>2, HookMoves
<1>4. ASSUME W!Apply(h) PROVE AccessKept'
  <2>. DEFINE type == event[x.e].type
              until == event[x.e].until
              known == event[x.e].known
              pc == IF W!Converts(event[x.e]) THEN "lookup" ELSE "reply"
  <2>1. /\ x.pc = "apply" /\ W!Goto(h, pc)
        /\ UNCHANGED <<period, paid, event, meddled, owed, conversion, faults, disordered>>
        /\ CASE ~known -> UNCHANGED premium
             [] known /\ type = "TRANSFER" -> premium' = [premium EXCEPT !.is = TRUE]
             [] known /\ type \in W!Grant /\ until = 0 -> UNCHANGED premium
             [] known /\ type \in W!Grant \cup W!SoftExpiry /\ until # 0 ->
                  premium' = [is |-> TRUE, until |-> until]
             [] known /\ type \in W!SoftExpiry /\ until = 0 -> premium' = [premium EXCEPT !.is = FALSE]
             [] known /\ type \in W!Revoke -> premium' = [premium EXCEPT !.is = FALSE]
             [] known /\ type = "CANCELLATION" -> UNCHANGED premium
    BY <1>4 DEF W!Apply, W!Told, W!Outside, W!NoExpiry
  <2>2. x.e \in 1..len /\ type \in W!Type /\ until \in W!Period /\ known \in BOOLEAN
    BY <1>1, <2>1, MoneyTyped DEF AccessKept, W!Event
  <2>. HIDE DEF pc, type, until, known
  <2>6. /\ \/ premium' = premium \/ premium' = [premium EXCEPT !.is = TRUE]
           \/ premium' = [premium EXCEPT !.is = FALSE] \/ premium' = [is |-> TRUE, until |-> until]
        /\ type \in {"INITIAL_PURCHASE", "RENEWAL", "UNCANCELLATION", "BILLING_ISSUE"} /\ until # 0 /\ known
             => premium' = [is |-> TRUE, until |-> until]
        /\ type = "EXPIRATION" /\ known => premium' = [premium EXCEPT !.is = FALSE]
        /\ type = "CANCELLATION" => premium' = premium
    <3>1. (CASE ~known -> premium' = premium
             [] known /\ type = "TRANSFER" -> premium' = [premium EXCEPT !.is = TRUE]
             [] known /\ type \in W!Grant /\ until = 0 -> premium' = premium
             [] known /\ type \in W!Grant \cup W!SoftExpiry /\ until # 0 ->
                  premium' = [is |-> TRUE, until |-> until]
             [] known /\ type \in W!SoftExpiry /\ until = 0 -> premium' = [premium EXCEPT !.is = FALSE]
             [] known /\ type \in W!Revoke -> premium' = [premium EXCEPT !.is = FALSE]
             [] known /\ type = "CANCELLATION" -> premium' = premium)
      BY <2>1
    <3>2. /\ W!Grant = {"INITIAL_PURCHASE", "RENEWAL", "UNCANCELLATION"}
          /\ W!SoftExpiry = {"BILLING_ISSUE"} /\ W!Revoke = {"EXPIRATION"}
          /\ W!Type = W!Grant \cup W!SoftExpiry \cup W!Revoke \cup {"CANCELLATION", "TRANSFER"}
      BY DEF W!Type, W!Grant, W!SoftExpiry, W!Revoke
    <3>3. CASE known /\ type = "TRANSFER"
      BY <3>1, <3>2, <3>3
    <3>4. CASE known /\ type \in W!Grant
      BY <3>1, <3>2, <3>4
    <3>5. CASE known /\ type = "BILLING_ISSUE"
      BY <3>1, <3>2, <3>5
    <3>6. CASE known /\ type = "EXPIRATION"
      BY <3>1, <3>2, <3>6
    <3>7. CASE known /\ type = "CANCELLATION"
      BY <3>1, <3>2, <3>7
    <3>8. CASE ~known
      BY <3>1, <3>8
    <3>. QED  BY <2>2, <3>2, <3>3, <3>4, <3>5, <3>6, <3>7, <3>8
  <2>3. premium' \in [is : BOOLEAN, until : W!Period \cup {Nothing}]
    <3>1. [is |-> TRUE, until |-> until] \in [is : BOOLEAN, until : W!Period \cup {Nothing}]
      BY <2>2
    <3>2. /\ [premium EXCEPT !.is = TRUE] \in [is : BOOLEAN, until : W!Period \cup {Nothing}]
          /\ [premium EXCEPT !.is = FALSE] \in [is : BOOLEAN, until : W!Period \cup {Nothing}]
      BY <1>1
    <3>. QED  BY <1>1, <2>6, <3>1, <3>2
  <2>4. ASSUME ~meddled, NEW n \in 0..len, x.e = n + 1, Answered(n) PROVE Applied(n + 1)'
    <3>1. /\ type # "TRANSFER" /\ until # 0 /\ known
          /\ type = "CANCELLATION" =>
               x.e > 1 /\ event[x.e - 1].type # "EXPIRATION" /\ event[x.e - 1].until = until
      BY <2>2, <2>4 DEF AccessKept, Booked, type, until, known
    <3>2. CASE type \in {"INITIAL_PURCHASE", "RENEWAL", "UNCANCELLATION", "BILLING_ISSUE"}
      <4>1. premium' = [is |-> TRUE, until |-> until] /\ type # "EXPIRATION"
        BY <2>6, <3>1, <3>2
      <4>. QED  BY <2>1, <2>4, <4>1 DEF Applied, type, until
    <3>3. CASE type = "EXPIRATION"
      <4>1. premium' = [premium EXCEPT !.is = FALSE]
        BY <2>6, <3>1, <3>3
      <4>2. ~premium'.is
        BY <1>1, <4>1
      <4>. QED  BY <2>1, <2>4, <3>3, <4>2 DEF Applied, type
    <3>4. CASE type = "CANCELLATION"
      <4>1. UNCHANGED premium
        BY <2>6, <3>4
      <4>2. Applied(n) \/ Applied(n + 1)
        BY <2>4 DEF Answered
      <4>3. n # 0 /\ event[n].type # "EXPIRATION" /\ event[n].until = event[n + 1].until /\ n + 1 # 0
        BY <1>1, <2>2, <2>4, <3>1, <3>4 DEF until
      <4>4. premium.is /\ premium.until = event[n + 1].until
        BY <2>4, <3>4, <4>2, <4>3 DEF Applied, type
      <4>. QED  BY <2>1, <2>4, <3>4, <4>1, <4>4 DEF Applied, type
    <3>. QED  BY <2>2, <3>1, <3>2, <3>3, <3>4 DEF W!Type, W!Grant, W!SoftExpiry, W!Revoke
  <2>5. pc \in {"lookup", "insert", "reply"}
    BY DEF pc
  <2>. QED  BY <1>1, <1>3, <2>1, <2>3, <2>4, <2>5
\* Past the switch, the profile has the event.
<1>5. ASSUME x.pc \notin {"idle", "apply"}, UNCHANGED <<event, premium>>
      PROVE  \A n \in 0..len : Answered(n) => Applied(n + 1)'
  BY <1>5 DEF Answered, Applied
<1>6. ASSUME W!LookUpReferral(h) PROVE AccessKept'
  BY <1>1, <1>3, <1>5, <1>6 DEF W!LookUpReferral, W!Outside
<1>7. ASSUME W!InsertConversion(h) PROVE AccessKept'
  <2>1. /\ x.pc = "insert" /\ W!Goto(h, "reply") /\ conversion' = conversion \cup {x.e}
        /\ UNCHANGED <<period, paid, event, meddled, owed, premium, faults, disordered>>
    BY <1>7 DEF W!InsertConversion, W!Outside
  <2>. QED  BY <1>1, <1>3, <1>5, <2>1
<1>8. ASSUME W!Reply(h) PROVE AccessKept'
  <2>1. /\ x.pc = "reply" /\ owed' = owed \ {x.e} /\ hook' = [hook EXCEPT ![h] = W!NoHook]
        /\ UNCHANGED <<period, paid, event, meddled, premium, conversion, faults, disordered>>
    BY <1>8 DEF W!Reply, W!Outside
  <2>2. ASSUME NEW n \in 0..len, Answered(n) PROVE n + 1 \in 0..len /\ Answered(n + 1)'
    <3>1. x.e = n + 1 /\ n + 1 \in 1..len /\ Applied(n + 1)
      BY <1>1, <2>1, <2>2 DEF Answered
    <3>2. owed' = (n + 1 + 1)..len
      BY <1>1, <2>1, <2>2, <3>1 DEF Answered
    <3>3. Applied(n + 1)'
      BY <2>1, <3>1 DEF Applied
    <3>4. \A k \in Slots : hook'[k].pc = "idle"
      BY <1>1, <2>1, <2>2 DEF Answered
    <3>. QED  BY <2>1, <3>1, <3>2, <3>3, <3>4 DEF Answered
  <2>. QED  BY <1>1, <2>1, <2>2, HookMoves
<1>9. ASSUME W!Fail(h) PROVE AccessKept'
  <2>1. /\ x.pc # "idle" /\ faults' = faults + 1 /\ faults < Faults
        /\ hook' = [hook EXCEPT ![h] = W!NoHook]
        /\ UNCHANGED <<period, paid, event, meddled, owed, premium, conversion, disordered>>
    BY <1>9 DEF W!Fail, W!Outside
  <2>2. ASSUME NEW n \in 0..len, Answered(n) PROVE Answered(n)'
    BY <1>1, <2>1, <2>2, StillAnswered
  <2>3. faults' \in 0..Faults
    BY <1>1, <2>1
  <2>. QED  BY <1>1, <2>1, <2>2, <2>3, HookMoves
<1>. QED  BY <1>2, <1>4, <1>6, <1>7, <1>8, <1>9


LEMMA AccessStep == AccessKept /\ [AccountsNext]_accountsVars => AccessKept'
<1>. SUFFICES ASSUME AccessKept, W!Next \/ UNCHANGED wvars PROVE AccessKept'
  BY PartsMove
<1>1. CASE W!Purchase \/ W!Renew \/ W!TurnOff \/ W!Expire \/ W!Transfer \/ W!PurchaseAmiss
             \/ W!ChangeAmiss \/ W!PeriodEnds
  BY <1>1, StoreIsBooked
<1>2. ASSUME NEW h \in Slots,
             \/ \E e \in 1..Events : W!Deliver(h, e)
             \/ W!Apply(h) \/ W!LookUpReferral(h) \/ W!InsertConversion(h) \/ W!Reply(h) \/ W!Fail(h)
      PROVE  AccessKept'
  BY <1>2, HooksAreAnswered
<1>3. CASE W!GrantReferrer
  <2>1. /\ premium' = [is |-> TRUE, until |-> period + 1] /\ meddled' = TRUE
        /\ UNCHANGED <<period, paid, event, owed, hook, conversion, faults, disordered>>
    BY <1>3 DEF W!GrantReferrer
  <2>2. premium' \in [is : BOOLEAN, until : W!Period \cup {Nothing}]
    <3>1. period + 1 \in W!Period
      BY MoneyTyped DEF AccessKept, W!Period
    <3>. QED  BY <2>1, <3>1
  <2>3. W!TypeOK'
    BY <2>1, <2>2 DEF AccessKept, W!TypeOK
  <2>. QED  BY <2>1, <2>3 DEF AccessKept
<1>4. CASE UNCHANGED wvars
  <2>1. W!TypeOK'
    BY <1>4 DEF wvars, AccessKept, W!TypeOK
  <2>2. Booked => Booked'
    BY <1>4 DEF wvars, Booked
  <2>3. \A n : Answered(n) => Answered(n)'
    BY <1>4 DEF wvars, Answered, Applied
  <2>. QED  BY <1>4, <2>1, <2>2, <2>3 DEF wvars, AccessKept
<1>. QED  BY <1>1, <1>2, <1>3, <1>4 DEF W!Next

\* For any number of slots, events, rows and options: once the events of the store are
\* answered, if they came in order and nothing else meddled, the access is what was paid
\* for, however often each was delivered; a user is welcomed and given days at most once
\* and the referrer no more months than referrals, also when attempts were cut off, while
\* onboardings do not overlap (each under another handle is another referral); while
\* votes do not overlap the first is not added to, and while taps do not, clients show
\* the reaction there is.
THEOREM RepeatsDoCountOnce == AccountsSpec => []RepeatsCountOnce
<1>1. AccountsSpec => []AccessKept
  BY InitAccess, AccessStep, PTL DEF AccountsSpec
<1>2. AccountsSpec => []JoinsKept
  BY InitJoins, JoinsStep, PTL DEF AccountsSpec
<1>3. AccountsSpec => []VotesKept
  BY InitVotes, VotesStep, PTL DEF AccountsSpec
<1>4. AccountsSpec => []ReactionsKept
  BY InitReactions, ReactionsStep, PTL DEF AccountsSpec
<1>5. AccessKept /\ JoinsKept /\ VotesKept /\ ReactionsKept => RepeatsCountOnce
  BY AccessIsPaid, RewardsAreOnce, VotesStand, FollowedIsShown DEF RepeatsCountOnce
<1>. QED  BY <1>1, <1>2, <1>3, <1>4, <1>5, PTL

-----------------------------------------------------------------------------
(* Accounts: news keep to their limits *)

\* A run whose candidates wait for their readers.
Pushing == {"gate", "cool", "insert"}

\* A meter that has reached the cap has tripped.
Metered(meter) == meter.tripped <=> meter.spent >= Cap

\* What a run carries belongs to the step it is at.
Carries(r) ==
    /\ Metered(run[r].local)
    /\ run[r].pc = "idle" => run[r].rows = {}
    /\ run[r].pc \notin Pushing => run[r].todo = {}
    /\ run[r].pc \in {"cool", "insert"} => run[r].pair \in run[r].todo

NewsTyped == N!TypeOK /\ Metered(usage) /\ \A r \in Slots : Carries(r)

\* A pushed pair is in nobody's hands and no candidate again: its row is there, or
\* went with a day that made the article too old.
PushedRests ==
    /\ \A p \in N!Pair : past[p] = "old" => age[p[2]] = "stale"
    /\ \A r, k \in Slots, a \in Articles :
         a \in N!InHands(r) \cap N!InHands(k) /\ a \notin crossed => r = k
    /\ \A p \in N!Pair : p[2] \notin crossed =>
         /\ pushes[p] <= 1
         /\ pushes[p] = 1 => /\ past[p] # "none" \/ age[p[2]] = "stale"
                             /\ \A r \in Slots : p \notin run[r].todo

\* A meter's charges, if they are today's.
Charges(meter) == IF meter.today THEN meter.spent ELSE 0

\* While one run at a time keeps its charges, the usage, or the run that is about to
\* write it, has all calls.
Alone == \A r, k \in Slots : run[r].pc # "idle" /\ run[k].pc # "idle" => r = k

CallsMetered ==
    /\ \A r \in Slots : run[r].pc \notin {"idle", "fetch", "load"} => calls = Charges(run[r].local)
    /\ (\A r \in Slots : run[r].pc # "persist") => calls = Charges(usage)

\* What one run at a time has in hand is as it found it.
HandsKept ==
    /\ \A a \in Articles : article[a] = "raw" => \A u \in Readers : past[<<u, a>>] = "none"
    /\ \A r \in Slots : \A a \in run[r].rows : article[a] = "raw"
    /\ \A r \in Slots : \A p \in run[r].todo : past[p] = "none" /\ article[p[2]] = "breaking"

\* A reader's pushes of the day have their rows, and the one under way has its place.
DayRows(table, u) == {a \in Articles : table[<<u, a>>] \in {"hot", "day"}}

DayKept ==
    /\ \A u \in Readers : day[u] <= Cardinality(DayRows(past, u)) /\ day[u] <= Quota
    /\ \A r \in Slots : run[r].pc \in {"cool", "insert"} =>
         Cardinality(DayRows(past, run[r].pair[1])) < Quota

SweptAlone == strayed \/ (Alone /\ CallsMetered /\ HandsKept /\ DayKept)

NewsKept == NewsTyped /\ PushedRests /\ SweptAlone

\* A slot of a run that keeps its rules after a step of its own.
LEMMA RunsType ==
    ASSUME NewsTyped, NEW r \in Slots, NEW new \in N!Run, run' = [run EXCEPT ![r] = new],
           Metered(new.local),
           new.pc = "idle" => new.rows = {},
           new.pc \notin Pushing => new.todo = {},
           new.pc \in {"cool", "insert"} => new.pair \in new.todo
    PROVE  run' \in [Slots -> N!Run] /\ (\A k \in Slots : Carries(k))'
<1>1. run' \in [Slots -> N!Run]
  BY DEF NewsTyped, N!TypeOK
<1>2. (\A k \in Slots : Carries(k))'
  BY DEF NewsTyped, N!TypeOK, Carries
<1>. QED  BY <1>1, <1>2

\* An empty meter has not reached a cap of a call or more, and neither has an idle run.
LEMMA FreshMeters ==
    /\ N!Fresh \in N!Usage /\ Metered(N!Fresh)
    /\ N!NoRun \in N!Run /\ N!NoRun.pc = "idle" /\ N!NoRun.rows = {} /\ N!NoRun.todo = {}
    /\ Metered(N!NoRun.local)
BY NewsAssumption DEF N!Fresh, N!Usage, Metered, N!NoRun, N!Run, N!Pair

\* A step that only changes where a run is.
LEMMA RunGoes ==
    ASSUME NewsTyped, NEW r \in Slots, NEW pc, N!Goto(r, pc),
           pc \in {"fetch", "load", "write", "insert"},
           pc = "insert" <=> run[r].pc = "cool",
           run[r].pc \notin Pushing \/ run[r].pc = "cool"
    PROVE  run' \in [Slots -> N!Run] /\ (\A k \in Slots : Carries(k))'
<1>. DEFINE new == [run[r] EXCEPT !.pc = pc]
<1>1. run[r] \in N!Run /\ Carries(r)
  BY DEF NewsTyped, N!TypeOK
<1>2. new \in N!Run /\ new.pc = pc /\ new.rows = run[r].rows /\ new.local = run[r].local
      /\ new.todo = run[r].todo /\ new.pair = run[r].pair
  BY <1>1 DEF N!Run
<1>3. run' = [run EXCEPT ![r] = new]
  BY DEF N!Goto
<1>4. new.pc \notin Pushing => new.todo = {}
  BY <1>1, <1>2 DEF Carries, Pushing
<1>5. new.pc \in {"cool", "insert"} => new.pair \in new.todo
  BY <1>1, <1>2 DEF Carries
<1>. HIDE DEF new
<1>. QED  BY <1>1, <1>2, <1>3, <1>4, <1>5, RunsType DEF Carries

\* After a row or a pair a run is typed.
LEMMA AfterTypes ==
    ASSUME NewsTyped, NEW r \in Slots, NEW a, run[r].pc \notin Pushing,
           run' = [run EXCEPT ![r] = N!After(r, a)]
    PROVE  run' \in [Slots -> N!Run] /\ (\A k \in Slots : Carries(k))'
<1>. DEFINE new == N!After(r, a)
<1>1. run[r] \in N!Run /\ Carries(r)
  BY DEF NewsTyped, N!TypeOK
<1>2. new \in N!Run /\ new.pc \in {"pick", "enrich"} /\ new.local = run[r].local
      /\ new.todo = run[r].todo /\ new.pair = run[r].pair
  BY <1>1 DEF N!Run, N!After
<1>. HIDE DEF new
<1>3. new.todo = {}
  BY <1>1, <1>2 DEF Carries
<1>4. run' = [run EXCEPT ![r] = new]
  BY DEF new
<1>. QED  BY <1>1, <1>2, <1>3, <1>4, RunsType DEF Carries

\* A run that is through with a pair is typed.
LEMMA PassTypes ==
    ASSUME NewsTyped, NEW r \in Slots, NEW p \in N!Pair, run[r].pc \in Pushing, N!Pass(r, p)
    PROVE  run' \in [Slots -> N!Run] /\ (\A k \in Slots : Carries(k))'
<1>. DEFINE rest == run[r].todo \ {p}
            new == [run[r] EXCEPT !.todo = rest, !.pair = Nothing, !.pc = "gate"]
<1>1. run[r] \in N!Run /\ Carries(r)
  BY DEF NewsTyped, N!TypeOK
<1>2. CASE rest = {}
  <2>1. run' = [run EXCEPT ![r] = N!NoRun]
    BY <1>2 DEF N!Pass
  <2>. QED  BY <2>1, FreshMeters, RunsType DEF Pushing
<1>3. CASE rest # {}
  <2>1. run' = [run EXCEPT ![r] = new]
    BY <1>3, Zenon DEF N!Pass, NewsTyped, N!TypeOK
  <2>2. new \in N!Run /\ new.pc = "gate" /\ new.local = run[r].local
    BY <1>1 DEF N!Run
  <2>. HIDE DEF new
  <2>. QED  BY <1>1, <2>1, <2>2, RunsType DEF Carries, Pushing
<1>. QED  BY <1>2, <1>3

\* The types of all but the runs.
TablesTyped ==
    /\ age \in [Articles -> {"future", "fresh", "stale"}]
    /\ article \in [Articles -> {"gone", "raw", "breaking", "major"}]
    /\ past \in [N!Pair -> {"none", "hot", "day", "old"}]
    /\ \A a \in Articles : article[a] = "gone" => \A u \in Readers : past[<<u, a>>] = "none"
    /\ \A a \in Articles : age[a] = "future" => article[a] = "gone"

CountsTyped ==
    /\ usage \in N!Usage /\ Metered(usage) /\ calls \in Nat
    /\ pushes \in [N!Pair -> 0..2] /\ day \in [Readers -> Nat]
    /\ crossed \subseteq Articles /\ strayed \in BOOLEAN

RunsTyped == run \in [Slots -> N!Run] /\ \A r \in Slots : Carries(r)

\* The types, by what they are about.
LEMMA NewsTypes == NewsTyped <=> TablesTyped /\ CountsTyped /\ RunsTyped
BY Zenon DEF NewsTyped, N!TypeOK, TablesTyped, CountsTyped, RunsTyped

\* Runs keep the types of the tables.
LEMMA TablesStep ==
    ASSUME NewsTyped, N!Next
    PROVE  TablesTyped'
<1>. USE DEF TablesTyped
<1>1. TablesTyped /\ run \in [Slots -> N!Run]
  BY NewsTypes DEF RunsTyped
<1>2. ASSUME UNCHANGED <<age, article, past>> PROVE TablesTyped'
  BY <1>1, <1>2, Zenon
<1>3. ASSUME NEW r \in Slots, N!Fetch(r) PROVE TablesTyped'
  <2>1. PICK got \in SUBSET {a \in Articles : age[a] # "future"} :
          article' = [a \in Articles |->
                        IF a \in got /\ article[a] = "gone" THEN "raw" ELSE article[a]]
    BY <1>3, Zenon DEF N!Fetch
  <2>. QED  BY <1>1, <1>3, <2>1 DEF N!Fetch, N!News
<1>4. ASSUME NEW r \in Slots, N!SkipEnrichment(r) PROVE TablesTyped'
  <2>1. PICK a \in run[r].rows :
          article' = [article EXCEPT ![a] = IF @ = "gone" THEN @ ELSE "major"]
    BY <1>4, Zenon DEF N!SkipEnrichment
  <2>. QED  BY <1>1, <1>4, <2>1 DEF N!SkipEnrichment, N!News
<1>5. ASSUME NEW r \in Slots, N!ApplyAnswer(r) PROVE TablesTyped'
  <2>1. PICK a \in run[r].rows :
          \/ UNCHANGED <<article, past, crossed>>
          \/ /\ \E rank \in {"breaking", "major"} :
                  article' = [article EXCEPT ![a] = IF @ = "gone" THEN @ ELSE rank]
             /\ UNCHANGED <<past, crossed>>
          \/ /\ article' = [article EXCEPT ![a] = "gone"]
             /\ past' = [p \in N!Pair |-> IF p[2] = a THEN "none" ELSE past[p]]
    BY <1>5, Zenon DEF N!ApplyAnswer
  <2>2. UNCHANGED age
    BY <1>5 DEF N!ApplyAnswer
  <2>3. CASE UNCHANGED <<article, past, crossed>>
    BY <1>1, <2>2, <2>3, Zenon
  <2>4. CASE /\ \E rank \in {"breaking", "major"} :
                  article' = [article EXCEPT ![a] = IF @ = "gone" THEN @ ELSE rank]
             /\ UNCHANGED <<past, crossed>>
    BY <1>1, <2>2, <2>4
  <2>5. CASE /\ article' = [article EXCEPT ![a] = "gone"]
             /\ past' = [p \in N!Pair |-> IF p[2] = a THEN "none" ELSE past[p]]
    BY <1>1, <2>2, <2>5 DEF N!Pair
  <2>. QED  BY <2>1, <2>3, <2>4, <2>5
<1>6. ASSUME NEW r \in Slots, N!InsertHistory(r) PROVE TablesTyped'
  <2>1. run[r].pair \in N!Pair
    BY <1>6, <1>1 DEF NewsTyped, Carries, N!InsertHistory, N!Run
  <2>. QED  BY <1>1, <1>6, <2>1 DEF N!InsertHistory, N!Pair
<1>7. ASSUME NEW a \in Articles, N!Publish(a) PROVE TablesTyped'
  BY <1>1, <1>7 DEF N!Publish, N!News
<1>8. ASSUME N!Hour PROVE TablesTyped'
  BY <1>1, <1>8 DEF N!Hour, N!Pair
<1>9. ASSUME N!Midnight PROVE TablesTyped'
  BY <1>1, <1>9 DEF N!Midnight, N!Pair
<1>10. ASSUME N!Retain PROVE TablesTyped'
  BY <1>1, <1>10 DEF N!Retain, N!Pair
<1>11. ASSUME NEW r \in Slots,
              \/ N!Begin(r) \/ N!LoadUsage(r) \/ N!SelectRows(r) \/ N!CallFails(r)
              \/ N!Charge(r) \/ N!PersistUsage(r) \/ N!PickArticles(r) \/ N!CheckQuota(r)
              \/ N!CheckCooldown(r) \/ N!Stop(r)
       PROVE TablesTyped'
  <2>1. UNCHANGED <<age, article, past>>
    BY <1>11, Zenon DEF N!Begin, N!LoadUsage, N!SelectRows, N!CallFails, N!Charge, N!PersistUsage,
       N!PickArticles, N!CheckQuota, N!CheckCooldown, N!Stop, N!News
  <2>. QED  BY <1>2, <2>1
<1>. QED
  BY <1>3, <1>4, <1>5, <1>6, <1>7, <1>8, <1>9, <1>10, <1>11, Zenon DEF N!Next

\* And those of the counts: a call is charged below the cap only.
LEMMA CountsStep ==
    ASSUME NewsTyped, N!Next
    PROVE  CountsTyped'
<1>. USE NewsAssumption DEF CountsTyped, N!Usage, Metered
<1>1. CountsTyped /\ run \in [Slots -> N!Run] /\ \A r \in Slots : Metered(run[r].local)
  BY NewsTypes DEF RunsTyped, Carries
<1>2. ASSUME UNCHANGED <<usage, calls, pushes, day, crossed, strayed>> PROVE CountsTyped'
  BY <1>1, <1>2, Zenon
<1>3. ASSUME NEW r \in Slots, N!Begin(r) \/ N!Stop(r) PROVE CountsTyped'
  BY <1>1, <1>3 DEF N!Begin, N!Stop, N!News, N!Budget
<1>4. ASSUME NEW r \in Slots, N!Charge(r) PROVE CountsTyped'
  BY <1>1, <1>4 DEF N!Charge, N!News, N!Run
<1>5. ASSUME NEW r \in Slots, N!PersistUsage(r) PROVE CountsTyped'
  BY <1>1, <1>5 DEF N!PersistUsage, N!News, N!Run
<1>6. ASSUME NEW r \in Slots, N!ApplyAnswer(r) PROVE CountsTyped'
  BY <1>1, <1>6 DEF N!ApplyAnswer, N!Budget, N!Run
<1>7. ASSUME NEW r \in Slots, N!PickArticles(r) PROVE CountsTyped'
  BY <1>1, <1>7 DEF N!PickArticles, N!Budget, N!Candidates
<1>8. ASSUME NEW r \in Slots, N!InsertHistory(r) PROVE CountsTyped'
  <2>1. run[r].pair \in N!Pair
    BY <1>8, <1>1 DEF NewsTyped, Carries, N!InsertHistory, N!Run
  <2>2. run[r].pair[1] \in Readers
    BY <2>1 DEF N!Pair
  <2>. QED  BY <1>1, <1>8, <2>1, <2>2 DEF N!InsertHistory, N!Budget
<1>9. ASSUME N!Midnight PROVE CountsTyped'
  BY <1>1, <1>9 DEF N!Midnight
<1>10. ASSUME NEW r \in Slots,
              \/ N!Fetch(r) \/ N!LoadUsage(r) \/ N!SelectRows(r) \/ N!SkipEnrichment(r)
              \/ N!CallFails(r) \/ N!CheckQuota(r) \/ N!CheckCooldown(r)
       PROVE CountsTyped'
  <2>1. UNCHANGED <<usage, calls, pushes, day, crossed, strayed>>
    BY <1>10, Zenon DEF N!Fetch, N!LoadUsage, N!SelectRows, N!SkipEnrichment, N!CallFails,
       N!CheckQuota, N!CheckCooldown, N!News, N!Budget
  <2>. QED  BY <1>2, <2>1
<1>11. ASSUME (\E a \in Articles : N!Publish(a)) \/ N!Hour \/ N!Retain PROVE CountsTyped'
  <2>1. UNCHANGED <<usage, calls, pushes, day, crossed, strayed>>
    BY <1>11, Zenon DEF N!Publish, N!Hour, N!Retain, N!News, N!Budget
  <2>. QED  BY <1>2, <2>1
<1>. QED
  BY <1>3, <1>4, <1>5, <1>6, <1>7, <1>8, <1>9, <1>10, <1>11, Zenon DEF N!Next

\* A meter that has not tripped has room for a call.
LEMMA ChargedMeter ==
    ASSUME NEW m \in N!Usage, Metered(m), ~m.tripped
    PROVE  LET n == [m EXCEPT !.spent = m.spent + 1, !.tripped = m.spent + 1 >= Cap]
           IN  n \in N!Usage /\ Metered(n)
<1>. DEFINE full == m.spent + 1 >= Cap
            n == [m EXCEPT !.spent = m.spent + 1, !.tripped = full]
<1>1. full \in BOOLEAN
  OBVIOUS
<1>2. m.spent + 1 \in 0..Cap
  BY NewsAssumption DEF N!Usage, Metered
<1>. HIDE DEF full
<1>3. n \in N!Usage /\ n.spent = m.spent + 1
  BY <1>1, <1>2 DEF N!Usage
<1>4. n.tripped = full
  BY <1>1, <1>2 DEF N!Usage
<1>. HIDE DEF n
<1>5. Metered(n)
  BY <1>3, <1>4, Zenon DEF Metered, full
<1>. QED  BY <1>3, <1>5 DEF n, full

\* Midnight leaves a meter where it is.
LEMMA DatedMeter ==
    ASSUME NEW m \in N!Usage, NEW c
    PROVE  LET n == [m EXCEPT !.today = (c \in {"idle", "fetch", "load"})]
           IN  n \in N!Usage /\ n.spent = m.spent /\ (Metered(n) <=> Metered(m))
<1>. DEFINE t == c \in {"idle", "fetch", "load"}
            n == [m EXCEPT !.today = t]
<1>1. t \in BOOLEAN
  OBVIOUS
<1>. HIDE DEF t
<1>2. n \in N!Usage /\ n.spent = m.spent
  BY <1>1 DEF N!Usage
<1>3. n.tripped = m.tripped
  BY <1>1 DEF N!Usage
<1>. HIDE DEF n
<1>4. Metered(n) <=> Metered(m)
  BY <1>2, <1>3, Zenon DEF Metered
<1>. QED  BY <1>2, <1>4 DEF n, t

\* Midnight dates the meters of the runs and changes nothing else of them.
LEMMA MidnightKeeps ==
    ASSUME NewsTyped, N!Midnight, NEW r \in Slots
    PROVE  /\ run'[r] \in N!Run /\ run'[r].pc = run[r].pc /\ run'[r].rows = run[r].rows
           /\ run'[r].todo = run[r].todo /\ run'[r].pair = run[r].pair
           /\ run'[r].local.spent = run[r].local.spent
           /\ run'[r].local.today => run[r].pc \in {"idle", "fetch", "load"}
           /\ Metered(run'[r].local) <=> Metered(run[r].local)
<1>. DEFINE early == run[r].pc \in {"idle", "fetch", "load"}
            meter == [run[r].local EXCEPT !.today = early]
<1>1. run[r] \in N!Run /\ run[r].local \in N!Usage
  BY NewsTypes DEF RunsTyped, N!Run
<1>2. meter \in N!Usage /\ meter.spent = run[r].local.spent
      /\ (Metered(meter) <=> Metered(run[r].local))
  BY <1>1, DatedMeter
<1>3. run'[r] = [run[r] EXCEPT !.local.today = early]
  BY DEF N!Midnight
<1>. HIDE DEF early
<1>4. run'[r] = [run[r] EXCEPT !.local = meter] /\ meter.today = early
  BY <1>1, <1>3 DEF N!Run, N!Usage
<1>. HIDE DEF meter
<1>5. run'[r] \in N!Run /\ run'[r].pc = run[r].pc /\ run'[r].rows = run[r].rows
      /\ run'[r].todo = run[r].todo /\ run'[r].pair = run[r].pair /\ run'[r].local = meter
  BY <1>1, <1>2, <1>4 DEF N!Run
<1>. QED  BY <1>2, <1>4, <1>5, Zenon DEF early

\* And a run's own.
LEMMA RunsStep ==
    ASSUME NewsTyped, N!Next
    PROVE  RunsTyped'
<1>. USE DEF RunsTyped
<1>1. RunsTyped /\ CountsTyped
  BY NewsTypes
<1>2. ASSUME NEW r \in Slots PROVE run[r] \in N!Run /\ Carries(r)
  BY <1>1
<1>3. ASSUME UNCHANGED run PROVE RunsTyped'
  BY <1>1, <1>3 DEF Carries
<1>4. ASSUME NEW r \in Slots, N!Begin(r) \/ N!Fetch(r) \/ N!PersistUsage(r) PROVE RunsTyped'
  BY <1>4, RunGoes DEF N!Begin, N!Fetch, N!PersistUsage, Pushing
<1>5. ASSUME NEW r \in Slots, N!LoadUsage(r) PROVE RunsTyped'
  <2>. DEFINE load == IF usage.today THEN usage ELSE N!Fresh
              new == [run[r] EXCEPT !.pc = "select", !.local = load]
  <2>1. load \in N!Usage /\ Metered(load)
    BY <1>1, FreshMeters DEF CountsTyped
  <2>2. run' = [run EXCEPT ![r] = new]
    BY <1>5 DEF N!LoadUsage
  <2>3. new \in N!Run /\ new.pc = "select" /\ new.local = load /\ new.todo = run[r].todo
    BY <1>2, <2>1 DEF N!Run
  <2>4. new.todo = {}
    BY <1>2, <1>5, <2>3 DEF Carries, N!LoadUsage, Pushing
  <2>. HIDE DEF new
  <2>. QED  BY <2>1, <2>2, <2>3, <2>4, RunsType
<1>6. ASSUME NEW r \in Slots, N!SelectRows(r) PROVE RunsTyped'
  <2>. DEFINE raw == {a \in Articles : article[a] = "raw"}
              new == [run[r] EXCEPT !.rows = raw, !.pc = IF raw = {} THEN "pick" ELSE "enrich"]
  <2>1. run' = [run EXCEPT ![r] = new]
    BY <1>6 DEF N!SelectRows
  <2>2. new \in N!Run /\ new.pc \in {"pick", "enrich"} /\ new.local = run[r].local
        /\ new.todo = run[r].todo
    BY <1>2 DEF N!Run
  <2>3. new.todo = {}
    BY <1>2, <1>6, <2>2 DEF Carries, N!SelectRows, Pushing
  <2>. HIDE DEF new
  <2>. QED  BY <1>2, <2>1, <2>2, <2>3, RunsType DEF Carries
<1>7. ASSUME NEW r \in Slots, N!SkipEnrichment(r) \/ N!CallFails(r) \/ N!ApplyAnswer(r)
      PROVE RunsTyped'
  <2>1. run[r].pc \notin Pushing /\ \E a \in run[r].rows : run' = [run EXCEPT ![r] = N!After(r, a)]
    BY <1>7 DEF N!SkipEnrichment, N!CallFails, N!ApplyAnswer, Pushing
  <2>. QED  BY <2>1, AfterTypes
<1>8. ASSUME NEW r \in Slots, N!Charge(r) PROVE RunsTyped'
  <2>. DEFINE spent == run[r].local.spent + 1
              meter == [run[r].local EXCEPT !.spent = spent, !.tripped = spent >= Cap]
              new == [run[r] EXCEPT !.pc = "persist", !.local = meter]
  <2>1. run[r].local \in N!Usage /\ Metered(run[r].local)
    BY <1>2 DEF N!Run, Carries
  <2>2. meter \in N!Usage /\ Metered(meter)
    <3>1. ~run[r].local.tripped
      BY <1>8 DEF N!Charge
    <3>. QED  BY <2>1, <3>1, ChargedMeter, Zenon
  <2>3. run' = [run EXCEPT ![r].pc = "persist", ![r].local.spent = spent,
                           ![r].local.tripped = spent >= Cap]
    BY <1>8 DEF N!Charge
  <2>. HIDE DEF spent
  <2>4. run' = [run EXCEPT ![r] = new]
    BY <2>3, <1>2, <1>1 DEF N!Run, N!Usage
  <2>. HIDE DEF meter
  <2>5. new \in N!Run /\ new.pc = "persist" /\ new.local = meter /\ new.todo = run[r].todo
    BY <1>2, <2>2 DEF N!Run
  <2>6. new.todo = {}
    BY <1>2, <1>8, <2>5 DEF Carries, N!Charge, Pushing
  <2>. HIDE DEF new
  <2>. QED  BY <2>2, <2>4, <2>5, <2>6, RunsType
<1>9. ASSUME NEW r \in Slots, N!PickArticles(r) PROVE RunsTyped'
  <2>. DEFINE new == [run[r] EXCEPT !.pc = "gate", !.todo = Readers \X N!Candidates]
  <2>1. CASE N!Candidates = {}
    <3>1. run' = [run EXCEPT ![r] = N!NoRun]
      BY <1>9, <2>1 DEF N!PickArticles
    <3>. QED  BY <3>1, FreshMeters, RunsType DEF Pushing
  <2>2. CASE N!Candidates # {}
    <3>1. run' = [run EXCEPT ![r] = new]
      BY <1>9, <2>2, <1>1 DEF N!PickArticles
    <3>2. Readers \X N!Candidates \in SUBSET N!Pair
      BY DEF N!Candidates, N!Pair
    <3>3. new \in N!Run /\ new.pc = "gate" /\ new.local = run[r].local
      BY <1>2, <3>2 DEF N!Run
    <3>. HIDE DEF new
    <3>. QED  BY <1>2, <3>1, <3>3, RunsType DEF Carries, Pushing
  <2>. QED  BY <2>1, <2>2
<1>10. ASSUME NEW r \in Slots, N!CheckQuota(r) PROVE RunsTyped'
  <2>1. PICK p \in run[r].todo :
          N!Pass(r, p) \/ run' = [run EXCEPT ![r].pair = p, ![r].pc = "cool"]
    BY <1>10 DEF N!CheckQuota
  <2>2. p \in N!Pair /\ run[r].pc \in Pushing
    BY <1>2, <1>10 DEF N!Run, N!CheckQuota, Pushing
  <2>. DEFINE new == [run[r] EXCEPT !.pair = p, !.pc = "cool"]
  <2>3. CASE run' = [run EXCEPT ![r].pair = p, ![r].pc = "cool"]
    <3>1. run' = [run EXCEPT ![r] = new]
      BY <2>3, <1>1
    <3>2. new \in N!Run /\ new.pc = "cool" /\ new.local = run[r].local
          /\ new.todo = run[r].todo /\ new.pair = p
      BY <1>2, <2>2 DEF N!Run
    <3>. HIDE DEF new
    <3>. QED  BY <1>2, <2>1, <3>1, <3>2, RunsType DEF Carries, Pushing
  <2>. QED  BY <2>1, <2>2, <2>3, PassTypes
<1>11. ASSUME NEW r \in Slots, N!CheckCooldown(r) \/ N!InsertHistory(r) PROVE RunsTyped'
  <2>1. run[r].pair \in N!Pair /\ run[r].pc \in Pushing /\ run[r].pc \in {"cool", "insert"}
    BY <1>2, <1>11 DEF N!Run, Carries, N!CheckCooldown, N!InsertHistory, Pushing
  <2>2. N!Pass(r, run[r].pair) \/ (run[r].pc = "cool" /\ N!Goto(r, "insert"))
    BY <1>11 DEF N!CheckCooldown, N!InsertHistory
  <2>3. CASE N!Pass(r, run[r].pair)
    BY <2>1, <2>3, PassTypes
  <2>4. CASE run[r].pc = "cool" /\ N!Goto(r, "insert")
    BY <2>4, RunGoes
  <2>. QED  BY <2>2, <2>3, <2>4
<1>12. ASSUME NEW r \in Slots, N!Stop(r) PROVE RunsTyped'
  BY <1>12, FreshMeters, RunsType DEF N!Stop, Pushing
<1>13. ASSUME N!Midnight PROVE RunsTyped'
  <2>1. DOMAIN run' = Slots /\ run' = [r \in Slots |-> run'[r]]
    BY <1>13 DEF N!Midnight
  <2>2. ASSUME NEW r \in Slots PROVE run'[r] \in N!Run /\ Carries(r)'
    BY <1>2, <1>13, MidnightKeeps DEF Carries
  <2>. QED  BY <2>1, <2>2
<1>14. ASSUME (\E a \in Articles : N!Publish(a)) \/ N!Hour \/ N!Retain PROVE RunsTyped'
  BY <1>3, <1>14, Zenon DEF N!Publish, N!Hour, N!Retain
<1>. QED
  BY <1>4, <1>5, <1>6, <1>7, <1>8, <1>9, <1>10, <1>11, <1>12, <1>13, <1>14, Zenon DEF N!Next

\* A pair that is passed is dropped.
LEMMA PassDrops ==
    ASSUME NewsTyped, NEW r \in Slots, NEW p \in N!Pair, N!Pass(r, p)
    PROVE  /\ run'[r].todo = run[r].todo \ {p} /\ run'[r].rows \subseteq run[r].rows
           /\ \A k \in Slots \ {r} : run'[k] = run[k]
           /\ \/ run'[r].pc = "idle"
              \/ run'[r].pc = "gate" /\ run'[r].local = run[r].local
<1>1. run \in [Slots -> N!Run]
  BY NewsTypes DEF RunsTyped
<1>2. CASE run[r].todo \ {p} = {}
  <2>1. run' = [run EXCEPT ![r] = N!NoRun]
    BY <1>2 DEF N!Pass
  <2>. QED  BY <1>1, <1>2, <2>1, FreshMeters
<1>3. CASE run[r].todo \ {p} # {}
  <2>1. run' = [run EXCEPT ![r] = [@ EXCEPT !.todo = run[r].todo \ {p}, !.pair = Nothing,
                                            !.pc = "gate"]]
    BY <1>3 DEF N!Pass
  <2>. QED  BY <1>1, <2>1 DEF N!Run
<1>. QED  BY <1>2, <1>3

\* A run that pushes passes a pair, takes one up, or goes on with it.
LEMMA PushingStep ==
    ASSUME NewsTyped, NEW r \in Slots, N!CheckQuota(r) \/ N!CheckCooldown(r) \/ N!InsertHistory(r)
    PROVE  \/ \E p \in N!Pair : N!Pass(r, p)
           \/ \E p \in run[r].todo : run' = [run EXCEPT ![r].pair = p, ![r].pc = "cool"]
           \/ N!Goto(r, "insert")
<1>1. run[r] \in N!Run /\ Carries(r)
  BY NewsTypes DEF RunsTyped
<1>2. \A p \in run[r].todo : p \in N!Pair
  BY <1>1 DEF N!Run
<1>3. run[r].pc \in {"cool", "insert"} => run[r].pair \in N!Pair
  BY <1>1, <1>2 DEF Carries
<1>. QED  BY <1>2, <1>3 DEF N!CheckQuota, N!CheckCooldown, N!InsertHistory

\* Hands shrink, but for SelectRows and PickArticles.
LEMMA HandsShrink ==
    ASSUME NewsTyped, N!Next, \A r \in Slots : ~N!PickArticles(r)
    PROVE  \A k \in Slots : run'[k].todo \subseteq run[k].todo
                            /\ ((\A r \in Slots : ~N!SelectRows(r)) =>
                                  run'[k].rows \subseteq run[k].rows)
<1>1. run \in [Slots -> N!Run] /\ \A r \in Slots : Carries(r)
  BY NewsTypes DEF RunsTyped
<1>. DEFINE Select == \E r \in Slots : N!SelectRows(r)
            Shrink == \A k \in Slots : run'[k].todo \subseteq run[k].todo
                                       /\ (~Select => run'[k].rows \subseteq run[k].rows)
<1>8. ASSUME NEW r \in Slots, N!SelectRows(r) PROVE Shrink
  <2>1. Select
    BY <1>8
  <2>. HIDE DEF Select
  <2>. QED  BY <1>1, <1>8, <2>1 DEF N!SelectRows, N!Run
<1>. HIDE DEF Select
<1>2. ASSUME NEW r \in Slots,
             N!Begin(r) \/ N!Fetch(r) \/ N!LoadUsage(r) \/ N!Charge(r) \/ N!PersistUsage(r)
      PROVE Shrink
  BY <1>1, <1>2 DEF N!Begin, N!Fetch, N!LoadUsage, N!Charge, N!PersistUsage, N!Goto, N!Run
<1>3. ASSUME NEW r \in Slots, N!SkipEnrichment(r) \/ N!CallFails(r) \/ N!ApplyAnswer(r)
      PROVE Shrink
  <2>1. PICK a : run' = [run EXCEPT ![r] = N!After(r, a)]
    BY <1>3 DEF N!SkipEnrichment, N!CallFails, N!ApplyAnswer
  <2>2. N!After(r, a).todo = run[r].todo /\ N!After(r, a).rows \subseteq run[r].rows
    BY <1>1 DEF N!After, N!Run
  <2>. QED  BY <1>1, <2>1, <2>2
<1>4. ASSUME NEW r \in Slots, N!CheckQuota(r) \/ N!CheckCooldown(r) \/ N!InsertHistory(r)
      PROVE Shrink
  <2>1. \/ \E p \in N!Pair : N!Pass(r, p)
        \/ \E p \in run[r].todo : run' = [run EXCEPT ![r].pair = p, ![r].pc = "cool"]
        \/ N!Goto(r, "insert")
    BY <1>4, PushingStep
  <2>2. ASSUME NEW p \in N!Pair, N!Pass(r, p) PROVE Shrink
    BY <1>1, <2>2, PassDrops
  <2>3. ASSUME NEW p \in run[r].todo, run' = [run EXCEPT ![r].pair = p, ![r].pc = "cool"]
        PROVE Shrink
    BY <1>1, <2>3 DEF N!Run
  <2>4. CASE N!Goto(r, "insert")
    BY <1>1, <2>4 DEF N!Goto, N!Run
  <2>. QED  BY <2>1, <2>2, <2>3, <2>4
<1>5. ASSUME NEW r \in Slots, N!Stop(r) PROVE Shrink
  BY <1>1, <1>5, FreshMeters DEF N!Stop
<1>6. ASSUME N!Midnight PROVE Shrink
  BY <1>6, MidnightKeeps
<1>7. ASSUME (\E a \in Articles : N!Publish(a)) \/ N!Hour \/ N!Retain PROVE Shrink
  <2>1. UNCHANGED run
    BY <1>7, Zenon DEF N!Publish, N!Hour, N!Retain
  <2>. QED  BY <2>1
<1>. QED  BY <1>2, <1>3, <1>4, <1>5, <1>6, <1>7, <1>8, Zenon DEF N!Next, Select

\* Pushes stay and rows of pushed pairs stay or go with a day, but for what is crossed.
LEMMA PushesStand ==
    ASSUME NewsTyped, PushedRests, N!Next, \A r \in Slots : ~N!InsertHistory(r)
    PROVE  /\ UNCHANGED pushes /\ crossed \subseteq crossed'
           /\ \A p \in N!Pair : /\ past'[p] = "old" => age'[p[2]] = "stale"
                                /\ age[p[2]] = "stale" => age'[p[2]] = "stale"
                                /\ past[p] # "none" /\ p[2] \notin crossed' =>
                                     past'[p] # "none" \/ age'[p[2]] = "stale"
<1>. DEFINE Stand(p) == /\ past'[p] = "old" => age'[p[2]] = "stale"
                        /\ age[p[2]] = "stale" => age'[p[2]] = "stale"
                        /\ past[p] # "none" /\ p[2] \notin crossed' =>
                             past'[p] # "none" \/ age'[p[2]] = "stale"
            Stands == UNCHANGED pushes /\ crossed \subseteq crossed' /\ \A p \in N!Pair : Stand(p)
<1>1. TablesTyped /\ \A r \in Slots : run[r] \in N!Run
  BY NewsTypes DEF RunsTyped
<1>2. \A p \in N!Pair : past[p] = "old" => age[p[2]] = "stale"
  BY DEF PushedRests
<1>3. \A p \in N!Pair : p[2] \in Articles /\ p[1] \in Readers /\ p = <<p[1], p[2]>>
  BY DEF N!Pair
<1>4. ASSUME UNCHANGED <<pushes, past, age>>, crossed \subseteq crossed' PROVE Stands
  BY <1>2, <1>4
<1>5. ASSUME NEW r \in Slots, N!ApplyAnswer(r) PROVE Stands
  <2>1. CASE UNCHANGED <<past, crossed>>
    BY <1>4, <1>5, <2>1 DEF N!ApplyAnswer
  <2>2. CASE ~UNCHANGED <<past, crossed>>
    <3>1. PICK a \in run[r].rows :
            /\ past' = [p \in N!Pair |-> IF p[2] = a THEN "none" ELSE past[p]]
            /\ crossed' = IF \E u \in Readers : past[<<u, a>>] # "none"
                          THEN crossed \cup {a} ELSE crossed
      BY <1>5, <2>2 DEF N!ApplyAnswer
    <3>2. UNCHANGED <<pushes, age>>
      BY <1>5 DEF N!ApplyAnswer
    <3>3. ASSUME NEW p \in N!Pair, past[p] # "none", p[2] \notin crossed' PROVE p[2] # a
      BY <1>3, <3>1, <3>3
    <3>. QED  BY <1>2, <3>1, <3>2, <3>3
  <2>. QED  BY <2>1, <2>2
<1>6. ASSUME N!Hour PROVE Stands
  BY <1>1, <1>2, <1>3, <1>6 DEF N!Hour, TablesTyped
<1>7. ASSUME N!Midnight PROVE Stands
  BY <1>1, <1>2, <1>3, <1>7 DEF N!Midnight, TablesTyped
<1>8. ASSUME N!Retain PROVE Stands
  BY <1>1, <1>2, <1>3, <1>8 DEF N!Retain, TablesTyped
<1>9. ASSUME NEW a \in Articles, N!Publish(a) PROVE Stands
  BY <1>1, <1>2, <1>3, <1>9 DEF N!Publish, N!News, TablesTyped
<1>10. ASSUME NEW r \in Slots,
              \/ N!Begin(r) \/ N!Fetch(r) \/ N!LoadUsage(r) \/ N!SelectRows(r)
              \/ N!SkipEnrichment(r) \/ N!CallFails(r) \/ N!Charge(r) \/ N!PersistUsage(r)
              \/ N!PickArticles(r) \/ N!CheckQuota(r) \/ N!CheckCooldown(r) \/ N!Stop(r)
       PROVE Stands
  <2>1. UNCHANGED <<pushes, past, age>>
    BY <1>10, Zenon DEF N!Begin, N!Fetch, N!LoadUsage, N!SelectRows, N!SkipEnrichment,
       N!CallFails, N!Charge, N!PersistUsage, N!PickArticles, N!CheckQuota, N!CheckCooldown,
       N!Stop, N!News
  <2>2. crossed \subseteq crossed'
    BY <1>10 DEF N!Begin, N!Fetch, N!LoadUsage, N!SelectRows, N!SkipEnrichment,
       N!CallFails, N!Charge, N!PersistUsage, N!PickArticles, N!CheckQuota, N!CheckCooldown,
       N!Stop, N!News
  <2>. QED  BY <1>4, <2>1, <2>2
<1>. QED  BY <1>5, <1>6, <1>7, <1>8, <1>9, <1>10, Zenon DEF N!Next

\* No step hands out a pushed pair again.
LEMMA PushedStep ==
    ASSUME NewsTyped, PushedRests, N!Next
    PROVE  PushedRests'
<1>1. TablesTyped /\ CountsTyped /\ RunsTyped
  BY NewsTypes
<1>2. RunsTyped'
  BY RunsStep
<1>3. \A p \in N!Pair : p[2] \in Articles /\ p[1] \in Readers /\ p = <<p[1], p[2]>>
  BY DEF N!Pair
<1>4. ASSUME NEW r \in Slots, N!PickArticles(r) PROVE PushedRests'
  <2>1. /\ UNCHANGED <<age, past, pushes>>
        /\ crossed' = crossed \cup {a \in N!Candidates : \E k \in Slots \ {r} : a \in N!InHands(k)}
    BY <1>4 DEF N!PickArticles
  <2>2. run'[r].todo \subseteq Readers \X N!Candidates /\ \A k \in Slots \ {r} : run'[k] = run[k]
    BY <1>1, <1>4, FreshMeters DEF N!PickArticles, RunsTyped, N!Run
  <2>3. ASSUME NEW p \in N!Pair, p \in run'[r].todo PROVE past[p] = "none" /\ age[p[2]] = "fresh"
    BY <2>2, <2>3, <1>3 DEF N!Candidates
  <2>4. ASSUME NEW a \in Articles, a \in N!InHands(r)', NEW k \in Slots \ {r}, a \in N!InHands(k)'
        PROVE a \in crossed'
    <3>1. a \in N!InHands(k) /\ a \in N!Candidates
      BY <2>2, <2>4 DEF N!InHands
    <3>. QED  BY <2>1, <3>1
  <2>5. \A m, k \in Slots, a \in Articles :
          a \in N!InHands(m)' \cap N!InHands(k)' /\ a \notin crossed' => m = k
    <3>. SUFFICES ASSUME NEW m \in Slots, NEW k \in Slots, NEW a \in Articles,
                         a \in N!InHands(m)', a \in N!InHands(k)', a \notin crossed', m # k
                  PROVE FALSE
      BY Zenon
    <3>1. m # r /\ k # r
      BY <2>4
    <3>2. a \in N!InHands(m) /\ a \in N!InHands(k) /\ a \notin crossed
      BY <3>1, <2>1, <2>2 DEF N!InHands
    <3>. QED  BY <3>2 DEF PushedRests
  <2>6. ASSUME NEW p \in N!Pair, p[2] \notin crossed', pushes[p] = 1, NEW k \in Slots
        PROVE p \notin run'[k].todo
    BY <2>1, <2>2, <2>3, <2>6 DEF PushedRests
  <2>. QED  BY <2>1, <2>5, <2>6 DEF PushedRests
<1>5. ASSUME \A r \in Slots : ~N!PickArticles(r), \A r \in Slots : ~N!InsertHistory(r)
      PROVE PushedRests'
  <2>1. \A k \in Slots : run'[k].todo \subseteq run[k].todo
    BY <1>5, HandsShrink
  <2>2. /\ UNCHANGED pushes /\ crossed \subseteq crossed'
        /\ \A p \in N!Pair : /\ past'[p] = "old" => age'[p[2]] = "stale"
                             /\ age[p[2]] = "stale" => age'[p[2]] = "stale"
                             /\ past[p] # "none" /\ p[2] \notin crossed' =>
                                  past'[p] # "none" \/ age'[p[2]] = "stale"
    BY <1>5, PushesStand
  <2>3. \A r, k \in Slots, a \in Articles :
          a \in N!InHands(r)' \cap N!InHands(k)' /\ a \notin crossed' => r = k
    BY <2>1, <2>2 DEF PushedRests, N!InHands
  <2>. QED  BY <2>1, <2>2, <2>3 DEF PushedRests
<1>6. ASSUME NEW r \in Slots, N!InsertHistory(r) PROVE PushedRests'
  <2>. DEFINE q == run[r].pair
  <2>1. q \in run[r].todo /\ q \in N!Pair
    BY <1>1, <1>6 DEF N!InsertHistory, RunsTyped, Carries, N!Run
  <2>2. run'[r].todo = run[r].todo \ {q} /\ \A k \in Slots \ {r} : run'[k] = run[k]
    BY <1>6, <2>1, PassDrops DEF N!InsertHistory
  <2>3. UNCHANGED <<age, crossed>>
    BY <1>6 DEF N!InsertHistory
  <2>4. \/ UNCHANGED <<past, pushes>>
        \/ /\ past' = [past EXCEPT ![q] = IF @ = "none" THEN "hot" ELSE @]
           /\ pushes' = [pushes EXCEPT ![q] = IF @ = 2 THEN 2 ELSE @ + 1]
    BY <1>6 DEF N!InsertHistory
  <2>. HIDE DEF q
  <2>5. \A m, k \in Slots, a \in Articles :
          a \in N!InHands(m)' \cap N!InHands(k)' /\ a \notin crossed' => m = k
    BY <2>2, <2>3 DEF PushedRests, N!InHands
  <2>6. CASE UNCHANGED <<past, pushes>>
    BY <2>2, <2>3, <2>5, <2>6 DEF PushedRests
  <2>7. CASE /\ past' = [past EXCEPT ![q] = IF @ = "none" THEN "hot" ELSE @]
             /\ pushes' = [pushes EXCEPT ![q] = IF @ = 2 THEN 2 ELSE @ + 1]
    <3>1. \A p \in N!Pair : p # q => past'[p] = past[p] /\ pushes'[p] = pushes[p]
      BY <1>1, <2>7 DEF TablesTyped, CountsTyped
    <3>2. past'[q] # "none" /\ (past'[q] = "old" => past[q] = "old")
      BY <1>1, <2>1, <2>7 DEF TablesTyped
    <3>3. ASSUME q[2] \notin crossed PROVE pushes'[q] = 1
      <4>1. pushes[q] \in 0..2 /\ pushes[q] <= 1 /\ pushes[q] # 1
        BY <1>1, <2>1, <3>3 DEF PushedRests, CountsTyped
      <4>. QED  BY <1>1, <2>1, <2>7, <4>1 DEF CountsTyped
    <3>4. ASSUME q[2] \notin crossed, NEW k \in Slots PROVE q \notin run'[k].todo
      <4>1. CASE k = r
        BY <2>2, <4>1
      <4>2. CASE k # r
        <5>1. q[2] \in N!InHands(r) /\ q[2] \in Articles
          BY <2>1, <1>3 DEF N!InHands
        <5>2. q \in run[k].todo => q[2] \in N!InHands(k)
          BY DEF N!InHands
        <5>3. q \notin run[k].todo
          BY <3>4, <4>2, <5>1, <5>2 DEF PushedRests
        <5>. QED  BY <2>2, <4>2, <5>3
      <4>. QED  BY <4>1, <4>2
    <3>5. ASSUME NEW p \in N!Pair PROVE past'[p] = "old" => age'[p[2]] = "stale"
      BY <2>1, <2>3, <3>1, <3>2 DEF PushedRests
    <3>6. ASSUME NEW p \in N!Pair, p[2] \notin crossed'
          PROVE  /\ pushes'[p] <= 1
                 /\ pushes'[p] = 1 => /\ past'[p] # "none" \/ age'[p[2]] = "stale"
                                      /\ \A k \in Slots : p \notin run'[k].todo
      <4>1. CASE p = q
        BY <2>3, <3>2, <3>3, <3>4, <3>6, <4>1
      <4>2. CASE p # q
        BY <2>2, <2>3, <3>1, <3>6, <4>2 DEF PushedRests
      <4>. QED  BY <4>1, <4>2
    <3>. QED  BY <2>5, <3>5, <3>6 DEF PushedRests
  <2>. QED  BY <2>4, <2>6, <2>7
<1>. QED  BY <1>4, <1>5, <1>6

\* A run that takes a step.
RunMoves(r) ==
    \/ N!Fetch(r) \/ N!LoadUsage(r) \/ N!SelectRows(r) \/ N!SkipEnrichment(r)
    \/ N!CallFails(r) \/ N!Charge(r) \/ N!PersistUsage(r) \/ N!ApplyAnswer(r)
    \/ N!PickArticles(r) \/ N!CheckQuota(r) \/ N!CheckCooldown(r) \/ N!InsertHistory(r)
    \/ N!Stop(r)

\* It is not at rest, and moves no other run.
LEMMA OneMoves ==
    ASSUME NewsTyped, NEW r \in Slots, RunMoves(r)
    PROVE  run[r].pc # "idle" /\ \A k \in Slots \ {r} : run'[k] = run[k]
<1>1. run \in [Slots -> N!Run] /\ Carries(r) /\ run[r] \in N!Run
  BY NewsTypes DEF RunsTyped
<1>2. run[r].pc # "idle"
  BY DEF RunMoves, N!Fetch, N!LoadUsage, N!SelectRows, N!SkipEnrichment, N!CallFails,
     N!Charge, N!PersistUsage, N!ApplyAnswer, N!PickArticles, N!CheckQuota, N!CheckCooldown,
     N!InsertHistory, N!Stop
<1>. DEFINE Only == \A k \in Slots \ {r} : run'[k] = run[k]
<1>3. ASSUME N!Fetch(r) \/ N!LoadUsage(r) \/ N!SelectRows(r) \/ N!Charge(r) \/ N!PersistUsage(r)
             \/ N!PickArticles(r) \/ N!Stop(r)
      PROVE Only
  BY <1>1, <1>3 DEF N!Fetch, N!LoadUsage, N!SelectRows, N!Charge, N!PersistUsage, N!PickArticles,
     N!Stop, N!Goto
<1>4. ASSUME N!SkipEnrichment(r) \/ N!CallFails(r) \/ N!ApplyAnswer(r) PROVE Only
  <2>1. PICK a : run' = [run EXCEPT ![r] = N!After(r, a)]
    BY <1>4 DEF N!SkipEnrichment, N!CallFails, N!ApplyAnswer
  <2>. QED  BY <1>1, <2>1
<1>5. ASSUME N!CheckQuota(r) \/ N!CheckCooldown(r) \/ N!InsertHistory(r) PROVE Only
  <2>1. \/ \E p : N!Pass(r, p)
        \/ \E p : run' = [run EXCEPT ![r].pair = p, ![r].pc = "cool"]
        \/ N!Goto(r, "insert")
    BY <1>5 DEF N!CheckQuota, N!CheckCooldown, N!InsertHistory
  <2>. QED  BY <1>1, <2>1 DEF N!Pass, N!Goto
<1>. QED  BY <1>2, <1>3, <1>4, <1>5 DEF RunMoves

\* The steps: a run begins, a run moves, or the outlets and the clock do.
LEMMA NewsMoves ==
    ASSUME N!Next
    PROVE  \/ \E r \in Slots : N!Begin(r)
           \/ \E r \in Slots : RunMoves(r)
           \/ \E a \in Articles : N!Publish(a)
           \/ N!Hour \/ N!Midnight \/ N!Retain
BY Zenon DEF N!Next, RunMoves

\* Runs that have not overlapped do not start to, without straying.
LEMMA AloneStep ==
    ASSUME NewsTyped, Alone, N!Next, ~strayed'
    PROVE  Alone'
<1>1. run \in [Slots -> N!Run] /\ strayed \in BOOLEAN
  BY NewsTypes DEF RunsTyped, CountsTyped
<1>2. ASSUME NEW r \in Slots, N!Begin(r) PROVE Alone'
  <2>1. \A k \in Slots : run[k].pc = "idle"
    BY <1>2 DEF N!Begin
  <2>2. \A k \in Slots \ {r} : run'[k] = run[k]
    BY <1>1, <1>2 DEF N!Begin, N!Goto
  <2>. QED  BY <2>1, <2>2 DEF Alone
<1>3. ASSUME NEW r \in Slots, RunMoves(r) PROVE Alone'
  BY <1>3, OneMoves DEF Alone
<1>4. ASSUME N!Midnight PROVE Alone'
  BY <1>4, MidnightKeeps DEF Alone
<1>5. ASSUME (\E a \in Articles : N!Publish(a)) \/ N!Hour \/ N!Retain PROVE Alone'
  BY <1>5 DEF Alone, N!Publish, N!Hour, N!Retain
<1>. QED  BY <1>2, <1>3, <1>4, <1>5, NewsMoves

\* A run that moves alone finds all others at rest, and they stay there.
LEMMA OthersRest ==
    ASSUME NewsTyped, Alone, NEW r \in Slots, RunMoves(r), NEW k \in Slots \ {r}
    PROVE  run'[k] = run[k] /\ run[k].pc = "idle" /\ run[k].rows = {} /\ run[k].todo = {}
<1>1. run'[k] = run[k] /\ run[k].pc = "idle"
  BY OneMoves DEF Alone
<1>2. Carries(k)
  BY NewsTypes DEF RunsTyped
<1>. QED  BY <1>1, <1>2 DEF Carries, Pushing

\* No call is forgotten by a run that is alone and not stopped between its charge and
\* the write of it.
LEMMA CallsStep ==
    ASSUME NewsTyped, Alone, CallsMetered, N!Next, ~strayed'
    PROVE  CallsMetered'
<1>1. run \in [Slots -> N!Run] /\ usage \in N!Usage /\ strayed \in BOOLEAN
  BY NewsTypes DEF RunsTyped, CountsTyped
<1>2. \A k \in Slots : run[k] \in N!Run /\ run[k].local \in N!Usage
  BY <1>1 DEF N!Run
<1>. USE DEF Charges
<1>3. ASSUME NEW r \in Slots, N!Begin(r) PROVE CallsMetered'
  <2>1. UNCHANGED <<usage, calls>> /\ run[r].pc = "idle"
    BY <1>3 DEF N!Begin, N!Budget
  <2>2. run'[r].pc = "fetch" /\ \A k \in Slots \ {r} : run'[k] = run[k]
    BY <1>1, <1>2, <1>3 DEF N!Begin, N!Goto, N!Run
  <2>. QED  BY <2>1, <2>2 DEF CallsMetered
<1>4. ASSUME NEW r \in Slots, RunMoves(r), UNCHANGED <<usage, calls>>, run[r].pc # "persist",
             run'[r].pc # "persist",
             \/ run'[r].pc \in {"idle", "fetch", "load"}
             \/ run[r].pc \notin {"idle", "fetch", "load"} /\ run'[r].local = run[r].local
      PROVE CallsMetered'
  <2>1. \A k \in Slots \ {r} : run'[k] = run[k] /\ run[k].pc = "idle"
    BY <1>4, OthersRest
  <2>. QED  BY <1>4, <2>1 DEF CallsMetered
<1>5. ASSUME NEW r \in Slots, N!Fetch(r) \/ N!SelectRows(r) PROVE CallsMetered'
  <2>1. /\ UNCHANGED <<usage, calls>> /\ run[r].pc \in {"fetch", "select"}
        /\ \/ run'[r].pc = "load"
           \/ run[r].pc = "select" /\ run'[r].pc \in {"pick", "enrich"} /\ run'[r].local = run[r].local
    BY <1>1, <1>2, <1>5 DEF N!Fetch, N!SelectRows, N!Budget, N!Goto, N!Run
  <2>. QED  BY <1>4, <1>5, <2>1 DEF RunMoves
<1>6. ASSUME NEW r \in Slots, N!LoadUsage(r) PROVE CallsMetered'
  <2>1. /\ UNCHANGED <<usage, calls>> /\ run[r].pc = "load" /\ run'[r].pc = "select"
        /\ run'[r].local = IF usage.today THEN usage ELSE N!Fresh
    BY <1>1, <1>2, <1>6, FreshMeters DEF N!LoadUsage, N!Budget, N!Run
  <2>2. \A k \in Slots \ {r} : run'[k] = run[k] /\ run[k].pc = "idle"
    BY <1>6, OthersRest DEF RunMoves
  <2>3. calls = Charges(usage)
    BY <2>1, <2>2 DEF CallsMetered
  <2>4. Charges(N!Fresh) = 0
    BY DEF N!Fresh
  <2>5. calls = Charges(run'[r].local)
    BY <2>1, <2>3, <2>4
  <2>. QED  BY <2>1, <2>2, <2>3, <2>5 DEF CallsMetered
<1>7. ASSUME NEW r \in Slots, N!SkipEnrichment(r) \/ N!CallFails(r) \/ N!ApplyAnswer(r)
      PROVE CallsMetered'
  <2>1. PICK a : run' = [run EXCEPT ![r] = N!After(r, a)]
    BY <1>7 DEF N!SkipEnrichment, N!CallFails, N!ApplyAnswer
  <2>2. run'[r].pc \in {"pick", "enrich"} /\ run'[r].local = run[r].local
    BY <1>1, <1>2, <2>1 DEF N!After, N!Run
  <2>3. UNCHANGED <<usage, calls>> /\ run[r].pc \in {"enrich", "write"}
    BY <1>7 DEF N!SkipEnrichment, N!CallFails, N!ApplyAnswer, N!Budget
  <2>. QED  BY <1>4, <1>7, <2>2, <2>3 DEF RunMoves
<1>8. ASSUME NEW r \in Slots, N!Charge(r) PROVE CallsMetered'
  <2>1. /\ calls' = calls + 1 /\ run[r].pc = "enrich" /\ run'[r].pc = "persist"
        /\ run'[r].local.spent = run[r].local.spent + 1
        /\ run'[r].local.today = run[r].local.today
    BY <1>1, <1>2, <1>8 DEF N!Charge, N!Run, N!Usage
  <2>2. run[r].local.today
    BY <1>1, <1>2, <1>8 DEF N!Charge, N!Usage
  <2>3. \A k \in Slots \ {r} : run'[k] = run[k] /\ run[k].pc = "idle"
    BY <1>8, OthersRest DEF RunMoves
  <2>4. calls = run[r].local.spent
    BY <2>1, <2>2 DEF CallsMetered
  <2>. QED  BY <2>1, <2>2, <2>3, <2>4 DEF CallsMetered
<1>9. ASSUME NEW r \in Slots, N!PersistUsage(r) PROVE CallsMetered'
  <2>1. /\ usage' = run[r].local /\ calls' = calls /\ run[r].pc = "persist"
        /\ run'[r].pc = "write" /\ run'[r].local = run[r].local
    BY <1>1, <1>2, <1>9 DEF N!PersistUsage, N!Goto, N!Run
  <2>2. \A k \in Slots \ {r} : run'[k] = run[k] /\ run[k].pc = "idle"
    BY <1>9, OthersRest DEF RunMoves
  <2>3. calls = Charges(run[r].local)
    BY <2>1 DEF CallsMetered
  <2>. QED  BY <2>1, <2>2, <2>3 DEF CallsMetered
<1>10. ASSUME NEW r \in Slots, N!PickArticles(r) PROVE CallsMetered'
  <2>1. /\ UNCHANGED <<usage, calls>> /\ run[r].pc = "pick"
        /\ \/ run'[r].pc = "idle"
           \/ run'[r].pc = "gate" /\ run'[r].local = run[r].local
    BY <1>1, <1>2, <1>10, FreshMeters DEF N!PickArticles, N!Budget, N!Run
  <2>. QED  BY <1>4, <1>10, <2>1 DEF RunMoves
<1>11. ASSUME NEW r \in Slots, N!CheckQuota(r) \/ N!CheckCooldown(r) \/ N!InsertHistory(r)
       PROVE CallsMetered'
  <2>1. UNCHANGED <<usage, calls>> /\ run[r].pc \in Pushing
    BY <1>11 DEF N!CheckQuota, N!CheckCooldown, N!InsertHistory, N!Budget, Pushing
  <2>2. \/ \E p \in N!Pair : N!Pass(r, p)
        \/ \E p \in run[r].todo : run' = [run EXCEPT ![r].pair = p, ![r].pc = "cool"]
        \/ N!Goto(r, "insert")
    BY <1>11, PushingStep
  <2>3. \/ run'[r].pc = "idle"
        \/ run'[r].pc \in {"gate", "cool", "insert"} /\ run'[r].local = run[r].local
    <3>1. ASSUME NEW p \in N!Pair, N!Pass(r, p)
          PROVE run'[r].pc = "idle" \/ (run'[r].pc = "gate" /\ run'[r].local = run[r].local)
      BY <3>1, PassDrops
    <3>2. ASSUME NEW p \in run[r].todo, run' = [run EXCEPT ![r].pair = p, ![r].pc = "cool"]
          PROVE run'[r].pc = "cool" /\ run'[r].local = run[r].local
      BY <1>1, <1>2, <3>2 DEF N!Run
    <3>3. CASE N!Goto(r, "insert")
      BY <1>1, <1>2, <3>3 DEF N!Goto, N!Run
    <3>. QED  BY <2>2, <3>1, <3>2, <3>3
  <2>. QED  BY <1>4, <1>11, <2>1, <2>3 DEF RunMoves, Pushing
<1>12. ASSUME NEW r \in Slots, N!Stop(r) PROVE CallsMetered'
  <2>1. UNCHANGED <<usage, calls>> /\ run[r].pc # "persist" /\ run'[r].pc = "idle"
    BY <1>1, <1>12, FreshMeters DEF N!Stop, N!Budget
  <2>. QED  BY <1>4, <1>12, <2>1 DEF RunMoves
<1>13. ASSUME N!Midnight PROVE CallsMetered'
  <2>1. calls' = 0 /\ Charges(usage') = 0
    BY <1>1, <1>13 DEF N!Midnight, N!Usage
  <2>2. ASSUME NEW r \in Slots, run'[r].pc \notin {"idle", "fetch", "load"}
        PROVE Charges(run'[r].local) = 0
    BY <1>13, <2>2, MidnightKeeps
  <2>. QED  BY <2>1, <2>2 DEF CallsMetered
<1>14. ASSUME (\E a \in Articles : N!Publish(a)) \/ N!Hour \/ N!Retain PROVE CallsMetered'
  <2>1. UNCHANGED <<run, usage, calls>>
    BY <1>14, Zenon DEF N!Publish, N!Hour, N!Retain, N!Budget
  <2>. QED  BY <2>1 DEF CallsMetered
<1>. QED
  BY <1>3, <1>5, <1>6, <1>7, <1>8, <1>9, <1>10, <1>11, <1>12, <1>13, <1>14, NewsMoves DEF RunMoves

\* What the one run has read is still so.
LEMMA HandsStep ==
    ASSUME NewsTyped, Alone, HandsKept, N!Next, ~strayed'
    PROVE  HandsKept'
<1>1. run \in [Slots -> N!Run] /\ TablesTyped /\ \A r \in Slots : Carries(r)
  BY NewsTypes DEF RunsTyped
<1>2. \A k \in Slots : run[k] \in N!Run
  BY <1>1
<1>3. \A p \in N!Pair : p[2] \in Articles /\ p[1] \in Readers /\ p = <<p[1], p[2]>>
  BY DEF N!Pair
<1>4. \A u \in Readers, a \in Articles : <<u, a>> \in N!Pair
  BY DEF N!Pair
<1>5. ASSUME UNCHANGED article, \A p \in N!Pair : past[p] = "none" => past'[p] = "none",
             \A k \in Slots : run'[k].rows \subseteq run[k].rows /\ run'[k].todo \subseteq run[k].todo
      PROVE HandsKept'
  BY <1>2, <1>4, <1>5 DEF HandsKept, N!Run
<1>6. ASSUME UNCHANGED article, \A p \in N!Pair : past[p] = "none" => past'[p] = "none",
             \A r \in Slots : ~N!PickArticles(r), \A r \in Slots : ~N!SelectRows(r)
      PROVE HandsKept'
  BY <1>5, <1>6, HandsShrink
<1>7. ASSUME NEW r \in Slots, N!Fetch(r) PROVE HandsKept'
  <2>1. PICK got :
          article' = [a \in Articles |->
                        IF a \in got /\ article[a] = "gone" THEN "raw" ELSE article[a]]
    BY <1>7, Zenon DEF N!Fetch
  <2>2. UNCHANGED past
    BY <1>7 DEF N!Fetch, N!News
  <2>3. \A k \in Slots : run'[k].rows = run[k].rows /\ run'[k].todo = run[k].todo
    BY <1>1, <1>2, <1>7 DEF N!Fetch, N!Goto, N!Run
  <2>4. \A a \in Articles : article[a] \in {"raw", "breaking"} => article'[a] = article[a]
    BY <2>1
  <2>5. \A a \in Articles : article'[a] = "raw" => article[a] \in {"raw", "gone"}
    BY <2>1
  <2>. QED  BY <1>1, <1>2, <1>3, <2>2, <2>3, <2>4, <2>5 DEF HandsKept, TablesTyped, N!Run
<1>8. ASSUME NEW r \in Slots, N!SelectRows(r) PROVE HandsKept'
  <2>1. UNCHANGED <<article, past>>
    BY <1>8 DEF N!SelectRows, N!News
  <2>2. run'[r].rows = {a \in Articles : article[a] = "raw"} /\ run'[r].todo = run[r].todo
    BY <1>1, <1>2, <1>8 DEF N!SelectRows, N!Run
  <2>3. \A k \in Slots \ {r} : run'[k] = run[k]
    BY <1>8, OneMoves DEF RunMoves
  <2>. QED  BY <2>1, <2>2, <2>3 DEF HandsKept
<1>9. ASSUME NEW r \in Slots, N!SkipEnrichment(r) \/ N!ApplyAnswer(r) PROVE HandsKept'
  <2>1. PICK a \in run[r].rows :
          /\ run' = [run EXCEPT ![r] = N!After(r, a)]
          /\ \A b \in Articles : b # a => article'[b] = article[b]
          /\ article'[a] = "raw" => article[a] = "raw"
          /\ past' = past \/ past' = [p \in N!Pair |-> IF p[2] = a THEN "none" ELSE past[p]]
    BY <1>1, <1>2, <1>9 DEF N!SkipEnrichment, N!ApplyAnswer, TablesTyped, N!News
  <2>2. run'[r].rows = run[r].rows \ {a} /\ run'[r].todo = run[r].todo /\ a \in Articles
    BY <1>1, <1>2, <2>1 DEF N!After, N!Run
  <2>3. run[r].todo = {}
    BY <1>1, <1>9 DEF Carries, Pushing, N!SkipEnrichment, N!ApplyAnswer
  <2>4. \A k \in Slots \ {r} : run'[k] = run[k] /\ run[k].rows = {} /\ run[k].todo = {}
    BY <1>9, OthersRest DEF RunMoves
  <2>5. \A p \in N!Pair : past[p] = "none" => past'[p] = "none"
    BY <2>1
  <2>6. \A k \in Slots : run'[k].todo = {} /\ \A b \in run'[k].rows : b \in run[k].rows /\ b # a
    BY <2>2, <2>3, <2>4
  <2>7. \A b \in Articles : article'[b] = "raw" => article[b] = "raw"
    BY <2>1
  <2>. QED  BY <1>2, <1>4, <2>1, <2>5, <2>6, <2>7 DEF HandsKept, N!Run
<1>10. ASSUME NEW r \in Slots, N!PickArticles(r) PROVE HandsKept'
  <2>1. UNCHANGED <<article, past>>
    BY <1>10 DEF N!PickArticles
  <2>2. run'[r].rows \subseteq run[r].rows /\ run'[r].todo \subseteq Readers \X N!Candidates
    BY <1>1, <1>2, <1>10, FreshMeters DEF N!PickArticles, N!Run
  <2>3. \A k \in Slots \ {r} : run'[k] = run[k]
    BY <1>10, OneMoves DEF RunMoves
  <2>4. \A p \in run'[r].todo : past[p] = "none" /\ article[p[2]] = "breaking"
    BY <2>2 DEF N!Candidates
  <2>. QED  BY <2>1, <2>2, <2>3, <2>4 DEF HandsKept
<1>11. ASSUME NEW r \in Slots, N!InsertHistory(r) PROVE HandsKept'
  <2>. DEFINE q == run[r].pair
  <2>1. q \in run[r].todo /\ q \in N!Pair
    BY <1>1, <1>2, <1>11 DEF N!InsertHistory, Carries, N!Run
  <2>2. /\ run'[r].todo = run[r].todo \ {q} /\ run'[r].rows \subseteq run[r].rows
        /\ \A k \in Slots \ {r} : run'[k] = run[k]
    BY <1>11, <2>1, PassDrops DEF N!InsertHistory
  <2>3. \A k \in Slots \ {r} : run[k].rows = {} /\ run[k].todo = {}
    BY <1>11, OthersRest DEF RunMoves
  <2>4. UNCHANGED article /\ \A p \in N!Pair : p # q => past'[p] = past[p]
    BY <1>1, <1>11 DEF N!InsertHistory, TablesTyped
  <2>5. article[q[2]] = "breaking"
    BY <2>1 DEF HandsKept
  <2>. HIDE DEF q
  <2>6. \A a \in Articles : article'[a] = "raw" => \A u \in Readers : past'[<<u, a>>] = "none"
    <3>1. \A u \in Readers, a \in Articles : article[a] = "raw" => <<u, a>> # q
      BY <2>5
    <3>. QED  BY <1>4, <2>4, <3>1 DEF HandsKept
  <2>7. \A k \in Slots : \A p \in run'[k].todo :
          past'[p] = "none" /\ article'[p[2]] = "breaking"
    BY <1>2, <2>2, <2>3, <2>4 DEF HandsKept, N!Run
  <2>8. \A k \in Slots : \A a \in run'[k].rows : article'[a] = "raw"
    BY <2>2, <2>3, <2>4 DEF HandsKept
  <2>. QED  BY <2>6, <2>7, <2>8 DEF HandsKept
<1>12. ASSUME NEW r \in Slots,
              \/ N!Begin(r) \/ N!LoadUsage(r) \/ N!CallFails(r) \/ N!Charge(r)
              \/ N!PersistUsage(r) \/ N!CheckQuota(r) \/ N!CheckCooldown(r) \/ N!Stop(r)
       PROVE HandsKept'
  <2>1. UNCHANGED <<article, past>>
    BY <1>12, Zenon DEF N!Begin, N!LoadUsage, N!CallFails, N!Charge, N!PersistUsage, N!CheckQuota,
       N!CheckCooldown, N!Stop, N!News
  <2>2. CASE (\E k \in Slots : N!PickArticles(k)) \/ (\E k \in Slots : N!SelectRows(k))
    BY <1>8, <1>10, <2>2
  <2>3. CASE \A k \in Slots : ~N!PickArticles(k) /\ ~N!SelectRows(k)
    BY <1>6, <2>1, <2>3
  <2>. QED  BY <2>2, <2>3
<1>13. ASSUME (\E a \in Articles : N!Publish(a)) \/ N!Hour \/ N!Midnight \/ N!Retain PROVE HandsKept'
  <2>1. UNCHANGED article /\ \A p \in N!Pair : past[p] = "none" => past'[p] = "none"
    BY <1>1, <1>13 DEF N!Publish, N!Hour, N!Midnight, N!Retain, N!News, TablesTyped
  <2>2. \A k \in Slots : run'[k].rows = run[k].rows /\ run'[k].todo = run[k].todo
    <3>1. CASE N!Midnight
      BY <3>1, MidnightKeeps
    <3>2. CASE (\E a \in Articles : N!Publish(a)) \/ N!Hour \/ N!Retain
      BY <3>2 DEF N!Publish, N!Hour, N!Retain
    <3>. QED  BY <1>13, <3>1, <3>2
  <2>. QED  BY <1>5, <2>1, <2>2
<1>. QED
  BY <1>7, <1>8, <1>9, <1>10, <1>11, <1>12, <1>13, Zenon DEF N!Next

\* The instance counts as everyone does.
LEMMA SameCardinality ==
    ASSUME NEW them
    PROVE  N!Cardinality(them) = Cardinality(them)
BY DEF N!Cardinality, Cardinality, N!IsFiniteSet, IsFiniteSet

\* The rows of a reader's day, in any table, can be counted.
LEMMA RowsCount ==
    ASSUME NEW table, NEW u
    PROVE  IsFiniteSet(DayRows(table, u)) /\ Cardinality(DayRows(table, u)) \in Nat
<1>1. DayRows(table, u) \subseteq Articles
  BY DEF DayRows
<1>. QED  BY <1>1, NewsAssumption, FS_Subset, FS_CardinalityType

\* A push takes the reader's day one further with its row; every other step leaves the
\* days and their rows, or ends them.
LEMMA DayStep ==
    ASSUME NewsTyped, Alone, HandsKept, DayKept, N!Next, ~strayed'
    PROVE  DayKept'
<1>1. run \in [Slots -> N!Run] /\ TablesTyped /\ CountsTyped /\ \A r \in Slots : Carries(r)
  BY NewsTypes DEF RunsTyped
<1>2. \A k \in Slots : run[k] \in N!Run
  BY <1>1
<1>3. \A p \in N!Pair : p[2] \in Articles /\ p[1] \in Readers /\ p = <<p[1], p[2]>>
  BY DEF N!Pair
<1>4. \A r \in Slots : run[r].pc \in {"cool", "insert"} => run[r].pair[1] \in Readers
  BY <1>1, <1>2, <1>3 DEF Carries, N!Run
<1>5. ASSUME UNCHANGED day, \A u \in Readers : DayRows(past', u) = DayRows(past, u),
             \A k \in Slots : run'[k].pc \in {"cool", "insert"} =>
               /\ run'[k].pair[1] \in Readers
               /\ Cardinality(DayRows(past, run'[k].pair[1])) < Quota
      PROVE DayKept'
  BY <1>5 DEF DayKept
<1>6. ASSUME NEW r \in Slots, RunMoves(r), UNCHANGED day,
             \A u \in Readers : DayRows(past', u) = DayRows(past, u),
             run'[r].pc \notin {"cool", "insert"}
      PROVE DayKept'
  <2>1. \A k \in Slots \ {r} : run'[k].pc = "idle"
    BY <1>6, OthersRest
  <2>2. \A k \in Slots : run'[k].pc \notin {"cool", "insert"}
    BY <1>6, <2>1
  <2>. QED  BY <1>5, <1>6, <2>2
<1>7. ASSUME NEW r \in Slots, N!Begin(r) PROVE DayKept'
  <2>1. UNCHANGED <<past, day>>
    BY <1>7 DEF N!Begin, N!News
  <2>2. run'[r].pc = "fetch" /\ \A k \in Slots \ {r} : run'[k] = run[k]
    BY <1>1, <1>2, <1>7 DEF N!Begin, N!Goto, N!Run
  <2>. QED  BY <1>4, <1>5, <2>1, <2>2 DEF DayKept
<1>8. ASSUME NEW r \in Slots,
             \/ N!Fetch(r) \/ N!LoadUsage(r) \/ N!SelectRows(r) \/ N!Charge(r)
             \/ N!PersistUsage(r) \/ N!PickArticles(r) \/ N!Stop(r)
      PROVE DayKept'
  <2>1. UNCHANGED <<past, day>>
    BY <1>8, Zenon DEF N!Fetch, N!LoadUsage, N!SelectRows, N!Charge, N!PersistUsage,
       N!PickArticles, N!Stop, N!News
  <2>2. run'[r].pc \notin {"cool", "insert"}
    <3>1. CASE N!PickArticles(r) \/ N!Stop(r)
      <4>1. \/ run'[r] = N!NoRun
            \/ run'[r] = [run[r] EXCEPT !.pc = "gate", !.todo = Readers \X N!Candidates]
        BY <1>1, <3>1 DEF N!PickArticles, N!Stop
      <4>. QED  BY <1>2, <4>1, FreshMeters DEF N!Run
    <3>2. CASE N!Fetch(r) \/ N!LoadUsage(r) \/ N!Charge(r) \/ N!PersistUsage(r)
      BY <1>1, <1>2, <3>2 DEF N!Fetch, N!LoadUsage, N!Charge, N!PersistUsage, N!Goto, N!Run
    <3>3. CASE N!SelectRows(r)
      BY <1>1, <1>2, <3>3 DEF N!SelectRows, N!Run
    <3>. QED  BY <1>8, <3>1, <3>2, <3>3
  <2>. QED  BY <1>6, <1>8, <2>1, <2>2 DEF RunMoves
<1>9. ASSUME NEW r \in Slots, N!SkipEnrichment(r) \/ N!CallFails(r) \/ N!ApplyAnswer(r)
      PROVE DayKept'
  <2>1. PICK a \in run[r].rows :
          /\ run' = [run EXCEPT ![r] = N!After(r, a)]
          /\ past' = past \/ past' = [p \in N!Pair |-> IF p[2] = a THEN "none" ELSE past[p]]
    BY <1>9 DEF N!SkipEnrichment, N!CallFails, N!ApplyAnswer, N!News
  <2>2. UNCHANGED day
    BY <1>9 DEF N!SkipEnrichment, N!CallFails, N!ApplyAnswer, N!News
  <2>3. run'[r].pc \notin {"cool", "insert"}
    BY <1>1, <1>2, <2>1 DEF N!After, N!Run
  <2>4. a \in Articles /\ \A u \in Readers : past[<<u, a>>] = "none"
    BY <1>2, <2>1 DEF HandsKept, N!Run
  <2>5. \A p \in N!Pair : past'[p] = past[p]
    BY <1>3, <2>1, <2>4
  <2>6. \A u \in Readers : DayRows(past', u) = DayRows(past, u)
    BY <2>5 DEF DayRows, N!Pair
  <2>. QED  BY <1>6, <1>9, <2>2, <2>3, <2>6 DEF RunMoves
<1>10. ASSUME NEW r \in Slots, N!CheckQuota(r) PROVE DayKept'
  <2>1. UNCHANGED <<past, day>>
    BY <1>10 DEF N!CheckQuota, N!News
  <2>2. PICK p \in run[r].todo :
          \/ N!Pass(r, p)
          \/ N!InDay(p[1]) < Quota /\ run' = [run EXCEPT ![r].pair = p, ![r].pc = "cool"]
    BY <1>10 DEF N!CheckQuota
  <2>3. p \in N!Pair
    BY <1>2 DEF N!Run
  <2>4. CASE N!Pass(r, p)
    <3>1. run'[r].pc \notin {"cool", "insert"}
      BY <2>3, <2>4, PassDrops
    <3>. QED  BY <1>6, <1>10, <2>1, <3>1 DEF RunMoves
  <2>5. CASE N!InDay(p[1]) < Quota /\ run' = [run EXCEPT ![r].pair = p, ![r].pc = "cool"]
    <3>1. run'[r].pair = p /\ p[1] \in Readers
      BY <1>1, <1>2, <1>3, <2>3, <2>5 DEF N!Run
    <3>2. N!InDay(p[1]) = Cardinality(DayRows(past, p[1]))
      <4>1. DayRows(past, p[1]) = {a \in Articles : past[<<p[1], a>>] \in {"hot", "day"}}
        BY DEF DayRows
      <4>2. N!InDay(p[1]) = N!Cardinality({a \in Articles : past[<<p[1], a>>] \in {"hot", "day"}})
        BY DEF N!InDay
      <4>. QED  BY <4>1, <4>2, SameCardinality, Zenon
    <3>3. \A k \in Slots \ {r} : run'[k].pc = "idle"
      BY <1>10, OthersRest DEF RunMoves
    <3>. QED  BY <1>5, <2>1, <2>5, <3>1, <3>2, <3>3
  <2>. QED  BY <2>2, <2>4, <2>5
<1>11. ASSUME NEW r \in Slots, N!CheckCooldown(r) PROVE DayKept'
  <2>1. UNCHANGED <<past, day>> /\ run[r].pc = "cool"
    BY <1>11 DEF N!CheckCooldown, N!News
  <2>2. CASE N!Goto(r, "insert")
    <3>1. run'[r].pair = run[r].pair
      BY <1>1, <1>2, <2>2 DEF N!Goto, N!Run
    <3>2. \A k \in Slots \ {r} : run'[k].pc = "idle"
      BY <1>11, OthersRest DEF RunMoves
    <3>3. run[r].pair[1] \in Readers /\ Cardinality(DayRows(past, run[r].pair[1])) < Quota
      BY <1>4, <2>1 DEF DayKept
    <3>. QED  BY <1>5, <2>1, <3>1, <3>2, <3>3
  <2>3. CASE N!Pass(r, run[r].pair)
    <3>1. run[r].pair \in N!Pair
      BY <1>1, <1>2, <2>1 DEF Carries, N!Run
    <3>2. run'[r].pc \notin {"cool", "insert"}
      BY <2>3, <3>1, PassDrops
    <3>. QED  BY <1>6, <1>11, <2>1, <3>2 DEF RunMoves
  <2>. QED  BY <1>11, <2>2, <2>3 DEF N!CheckCooldown
<1>12. ASSUME NEW r \in Slots, N!InsertHistory(r) PROVE DayKept'
  <2>. DEFINE q == run[r].pair
  <2>1. q \in run[r].todo /\ q \in N!Pair /\ run[r].pc = "insert"
    BY <1>1, <1>2, <1>12 DEF N!InsertHistory, Carries, N!Run
  <2>2. run'[r].pc \notin {"cool", "insert"}
    BY <1>12, <2>1, PassDrops DEF N!InsertHistory
  <2>3. CASE UNCHANGED <<past, day>>
    BY <1>6, <1>12, <2>2, <2>3 DEF RunMoves
  <2>4. CASE ~UNCHANGED <<past, day>>
    <3>1. /\ past' = [past EXCEPT ![q] = IF @ = "none" THEN "hot" ELSE @]
          /\ day' = [day EXCEPT ![q[1]] = IF @ > Quota THEN @ ELSE @ + 1]
      BY <1>12, <2>4 DEF N!InsertHistory
    <3>2. past[q] = "none" /\ q[1] \in Readers /\ q[2] \in Articles /\ q = <<q[1], q[2]>>
      BY <1>3, <2>1 DEF HandsKept
    <3>3. Cardinality(DayRows(past, q[1])) < Quota
      BY <2>1 DEF DayKept
    <3>. HIDE DEF q
    <3>4. past'[q] = "hot" /\ \A p \in N!Pair : p # q => past'[p] = past[p]
      BY <1>1, <2>1, <3>1, <3>2 DEF TablesTyped
    <3>5. DayRows(past', q[1]) = DayRows(past, q[1]) \cup {q[2]} /\ q[2] \notin DayRows(past, q[1])
      BY <3>2, <3>4 DEF DayRows, N!Pair
    <3>6. Cardinality(DayRows(past', q[1])) = Cardinality(DayRows(past, q[1])) + 1
      BY <3>5, RowsCount, FS_AddElement
    <3>7. \A u \in Readers \ {q[1]} : DayRows(past', u) = DayRows(past, u)
      BY <3>2, <3>4 DEF DayRows, N!Pair
    <3>8. day[q[1]] <= Cardinality(DayRows(past, q[1])) /\ day[q[1]] \in Nat
          /\ Cardinality(DayRows(past, q[1])) \in Nat
      BY <1>1, <3>2, RowsCount DEF DayKept, CountsTyped
    <3>9. day'[q[1]] = day[q[1]] + 1
      BY <1>1, <3>1, <3>2, <3>3, <3>8, NewsAssumption DEF CountsTyped
    <3>10. \A u \in Readers \ {q[1]} : day'[u] = day[u]
      BY <1>1, <3>1 DEF CountsTyped
    <3>11. \A k \in Slots : run'[k].pc \notin {"cool", "insert"}
      BY <1>12, <2>2, OthersRest DEF RunMoves
    <3>12. day'[q[1]] <= Cardinality(DayRows(past', q[1])) /\ day'[q[1]] <= Quota
      BY <3>3, <3>6, <3>8, <3>9, NewsAssumption
    <3>. QED  BY <3>7, <3>10, <3>11, <3>12 DEF DayKept
  <2>. QED  BY <2>3, <2>4
<1>13. ASSUME N!Midnight PROVE DayKept'
  <2>1. \A u \in Readers : day'[u] = 0
    BY <1>13 DEF N!Midnight
  <2>2. \A u \in Readers : DayRows(past', u) = {}
    BY <1>13 DEF N!Midnight, DayRows, N!Pair
  <2>3. \A u \in Readers : Cardinality(DayRows(past', u)) = 0
    BY <2>2, FS_EmptySet
  <2>4. ASSUME NEW k \in Slots, run'[k].pc \in {"cool", "insert"}
        PROVE  run'[k].pair[1] \in Readers /\ 0 < Quota
    <3>1. run'[k].pc = run[k].pc /\ run'[k].pair = run[k].pair
      BY <1>13, MidnightKeeps
    <3>2. Cardinality(DayRows(past, run[k].pair[1])) < Quota
      BY <2>4, <3>1 DEF DayKept
    <3>3. Cardinality(DayRows(past, run[k].pair[1])) \in Nat
      BY RowsCount
    <3>. QED  BY <1>4, <2>4, <3>1, <3>2, <3>3, NewsAssumption
  <2>. QED  BY <2>1, <2>3, <2>4, NewsAssumption DEF DayKept
<1>14. ASSUME (\E a \in Articles : N!Publish(a)) \/ N!Hour \/ N!Retain PROVE DayKept'
  <2>1. UNCHANGED <<run, day>>
    BY <1>14, Zenon DEF N!Publish, N!Hour, N!Retain, N!News
  <2>2. \A p \in N!Pair : past'[p] \in {"hot", "day"} <=> past[p] \in {"hot", "day"}
    BY <1>14 DEF N!Publish, N!Hour, N!Retain, N!News
  <2>3. \A u \in Readers : DayRows(past', u) = DayRows(past, u)
    BY <2>2 DEF DayRows, N!Pair
  <2>. QED  BY <1>4, <1>5, <2>1, <2>3 DEF DayKept
<1>. QED
  BY <1>7, <1>8, <1>9, <1>10, <1>11, <1>12, <1>13, <1>14, Zenon DEF N!Next

\* The invariants together.
LEMMA NewsStep ==
    ASSUME NewsKept, N!Next \/ UNCHANGED nvars
    PROVE  NewsKept'
<1>1. CASE N!Next
  <2>1. NewsTyped' /\ PushedRests'
    BY <1>1, TablesStep, CountsStep, RunsStep, PushedStep, Zenon
    DEF NewsKept, NewsTyped, N!TypeOK, TablesTyped, CountsTyped, RunsTyped
  <2>2. ASSUME ~strayed' PROVE ~strayed
    BY <1>1, <2>2, Zenon DEF N!Next, N!Begin, N!Fetch, N!LoadUsage, N!SelectRows,
       N!SkipEnrichment, N!CallFails, N!Charge, N!PersistUsage, N!ApplyAnswer, N!PickArticles,
       N!CheckQuota, N!CheckCooldown, N!InsertHistory, N!Stop, N!Publish, N!Hour, N!Midnight,
       N!Retain
  <2>3. SweptAlone'
    BY <1>1, <2>2, AloneStep, CallsStep, HandsStep, DayStep, Zenon DEF NewsKept, SweptAlone
  <2>. QED  BY <2>1, <2>3 DEF NewsKept
<1>2. CASE UNCHANGED nvars
  <2>. USE <1>2 DEF nvars
  <2>1. NewsTyped'
    BY DEF NewsKept, NewsTyped, N!TypeOK, Carries, Metered
  <2>2. PushedRests'
    BY DEF NewsKept, PushedRests, N!InHands
  <2>3. SweptAlone'
    BY DEF NewsKept, SweptAlone, Alone, CallsMetered, Charges, HandsKept, DayKept, DayRows
  <2>. QED  BY <2>1, <2>2, <2>3 DEF NewsKept
<1>. QED  BY <1>1, <1>2

\* No news, no runs.
LEMMA InitNews == N!Init => NewsKept
<1>. SUFFICES ASSUME N!Init PROVE NewsKept
  OBVIOUS
<1>. USE DEF N!Init
<1>1. NewsTyped
  <2>1. TablesTyped
    BY DEF TablesTyped, N!Pair
  <2>2. CountsTyped
    <3>1. 0 \in 0..2 /\ 0 \in Nat
      OBVIOUS
    <3>. QED  BY <3>1, FreshMeters, Zenon DEF CountsTyped
  <2>3. RunsTyped
    BY FreshMeters DEF RunsTyped, Carries, Pushing
  <2>. QED  BY <2>1, <2>2, <2>3, NewsTypes
<1>2. \A r \in Slots : run[r] = N!NoRun /\ run[r].pc = "idle" /\ run[r].rows = {} /\ run[r].todo = {}
  BY FreshMeters
<1>3. PushedRests
  BY <1>2 DEF PushedRests, N!InHands
<1>4. Alone /\ HandsKept
  BY <1>2 DEF Alone, HandsKept
<1>5. CallsMetered
  BY <1>2 DEF CallsMetered, Charges, N!Fresh
<1>6. DayKept
  BY <1>2, RowsCount, NewsAssumption DEF DayKept
<1>. QED  BY <1>1, <1>3, <1>4, <1>5, <1>6 DEF NewsKept, SweptAlone

\* What is kept is within the limits.
LEMMA NewsWithin == NewsKept => N!PushedOnce /\ N!KeepsToLimits
<1>. SUFFICES ASSUME NewsKept PROVE N!PushedOnce /\ N!KeepsToLimits
  OBVIOUS
<1>1. N!PushedOnce
  BY DEF NewsKept, PushedRests, N!PushedOnce
<1>2. ASSUME ~strayed PROVE calls <= Cap
  <2>1. Charges(usage) <= Cap /\ \A r \in Slots : Charges(run[r].local) <= Cap
    BY NewsAssumption DEF NewsKept, NewsTyped, N!TypeOK, N!Run, N!Usage, Charges
  <2>2. calls = Charges(usage) \/ \E r \in Slots : calls = Charges(run[r].local)
    BY <1>2 DEF NewsKept, SweptAlone, CallsMetered
  <2>. QED  BY <2>1, <2>2
<1>3. ASSUME ~strayed PROVE \A u \in Readers : day[u] <= Quota
  BY <1>3 DEF NewsKept, SweptAlone, DayKept
<1>. QED  BY <1>1, <1>2, <1>3 DEF N!KeepsToLimits

\* The invariant holds.
LEMMA NewsAlways == AccountsSpec => []NewsKept
<1>1. AccountsInit => NewsKept
  BY InitNews DEF AccountsInit
<1>2. NewsKept /\ [AccountsNext]_accountsVars => NewsKept'
  <2>1. [AccountsNext]_accountsVars => N!Next \/ UNCHANGED nvars
    BY Zenon DEF AccountsNext, accountsVars
  <2>. QED  BY <2>1, NewsStep
<1>. QED  BY <1>1, <1>2, PTL DEF AccountsSpec

\* For any number of articles, readers and runs, any cap and quota: an article that was
\* never in the hands of two runs at once is pushed to a reader at most once (one that
\* was may be pushed twice: see NeverPushedTwice); and runs that do not overlap, nor end
\* or meet midnight with a charge in hand, keep to the cap and to the quota.
THEOREM NewsKeepToLimits == AccountsSpec => []NewsKeepsToLimits
<1>1. NewsKept => NewsKeepsToLimits
  BY NewsWithin DEF NewsKeepsToLimits
<1>. QED  BY <1>1, NewsAlways, PTL

-----------------------------------------------------------------------------
(* Accounts: types *)

\* The parts there are.
PartTyped ==
    part \in {"sign in", "news", "overlap", "billing", "onboarding", "survey", "reactions"}

\* For all values of the constants: the part that moves has its types, which the
\* invariants above carry: no sign-in, run, delivery, submit, ballot or tap holds
\* anything but what its statements can answer, and no amount passes its bound.
THEOREM AccountsTypeCorrect == AccountsSpec => []AccountsTypeOK
<1>1. AccountsSpec => []Identified
  BY InitIdentified, IdentifiedStep, PTL DEF AccountsSpec
<1>2. AccountsSpec => []NewsKept
  BY NewsAlways, PTL
<1>3. AccountsSpec => []AccessKept
  BY InitAccess, AccessStep, PTL DEF AccountsSpec
<1>4. AccountsSpec => []JoinsKept
  BY InitJoins, JoinsStep, PTL DEF AccountsSpec
<1>5. AccountsSpec => []VotesKept
  BY InitVotes, VotesStep, PTL DEF AccountsSpec
<1>6. AccountsSpec => []ReactionsKept
  BY InitReactions, ReactionsStep, PTL DEF AccountsSpec
<1>7. AccountsSpec => []PartTyped
  <2>1. AccountsInit => PartTyped
    BY Zenon DEF AccountsInit, PartTyped
  <2>2. PartTyped /\ [AccountsNext]_accountsVars => PartTyped'
    BY Zenon DEF AccountsNext, accountsVars, PartTyped
  <2>. QED  BY <2>1, <2>2, PTL DEF AccountsSpec
<1>8. Identified /\ NewsKept /\ AccessKept /\ JoinsKept /\ VotesKept /\ ReactionsKept /\ PartTyped
        => AccountsTypeOK
  <2>1. Identified /\ NewsKept /\ AccessKept /\ JoinsKept /\ VotesKept /\ ReactionsKept
          => S!TypeOK /\ N!TypeOK /\ W!TypeOK /\ J!TypeOK /\ V!TypeOK /\ K!TypeOK
    BY Zenon DEF Identified, NewsKept, NewsTyped, AccessKept, JoinsKept, VotesKept, ReactionsKept
  <2>. QED  BY <2>1 DEF AccountsTypeOK, PartTyped
<1>. QED  BY <1>1, <1>2, <1>3, <1>4, <1>5, <1>6, <1>7, <1>8, PTL

-----------------------------------------------------------------------------
(* The server *)

\* A behaviour of the instance is one of its halves, whichever moves: what is proved
\* of AccountsSpec and of PlatformSpec holds of the server.
THEOREM ServerIsBoth == ServerSpec => AccountsSpec /\ PlatformSpec
<1>1. ServerInit => AccountsInit /\ PlatformInit
  BY DEF ServerInit
<1>2. [ServerNext]_serverVars => [AccountsNext]_accountsVars /\ [PlatformNext]_platformVars
  BY Zenon DEF ServerNext, serverVars
<1>. QED  BY <1>1, <1>2, PTL DEF ServerSpec, AccountsSpec, PlatformSpec
=============================================================================
