-------------------------- MODULE Messaging_proofs --------------------------
(***************************************************************************)
(* What TLAPS proves of Messaging, for any number of sends and messages:   *)
(* a bar holds, a message brings its conversation back, and the reader is  *)
(* told rightly.                                                           *)
(***************************************************************************)
EXTENDS Messaging, TLAPS

-----------------------------------------------------------------------------
(* Type correctness *)

\* What TypeOK says of one send, given the kind of conversation.
SendOK(x) ==
    /\ x \in Send
    /\ x.pc \notin Gates \cup {"idle"} => x.msg \in 1..sent
    /\ group \/ x.kind # "directed"

\* A step that writes one slot and none of the other variables of TypeOK.
LEMMA SlotTyped ==
    ASSUME TypeOK, NEW s \in Sends, NEW x, SendOK(x),
           send' = [send EXCEPT ![s] = x],
           under' \in [Sends -> SUBSET Bars],
           UNCHANGED <<group, sent, bars, row, socket>>, cut' \in BOOLEAN
    PROVE  TypeOK'
BY DEF TypeOK, SendOK, row, socket, Send

LEMMA IdleOK == TypeOK => SendOK(NoSend)
BY BoundAssumption DEF TypeOK, SendOK, NoSend, Send, Kinds, Gates, Time

LEMMA DoneTyped ==
    ASSUME TypeOK, NEW s \in Sends, Done(s),
           UNCHANGED <<group, sent, bars, row, socket>>, cut' \in BOOLEAN
    PROVE  TypeOK'
<1>1. under' \in [Sends -> SUBSET Bars]
  BY DEF Done, TypeOK
<1>. QED  BY <1>1, IdleOK, SlotTyped DEF Done

\* The program counters past the insert.
After == {"unhide", "unarchive", "members", "viewing", "mute", "notify", "push"}

LEMMA MovedTyped ==
    ASSUME TypeOK, NEW s \in Sends, NEW pc \in Gates \cup After, NEW quiet \in BOOLEAN,
           pc \in Gates \/ send[s].pc \in After,
           send' = [send EXCEPT ![s].pc = pc, ![s].quiet = quiet],
           UNCHANGED <<group, sent, bars, row, socket, under, cut>>
    PROVE  TypeOK'
<1>. DEFINE x == [send[s] EXCEPT !.pc = pc, !.quiet = quiet]
<1>1. send' = [send EXCEPT ![s] = x]
  BY DEF TypeOK, Send
<1>2. SendOK(x)
  BY DEF TypeOK, SendOK, Send, Gates, After
<1>. QED  BY <1>1, <1>2, SlotTyped DEF TypeOK

LEMMA GotoTyped ==
    ASSUME TypeOK, NEW s \in Sends, NEW pc \in Gates \cup After,
           pc \in Gates \/ send[s].pc \in After, Goto(s, pc),
           UNCHANGED <<group, sent, bars, row, socket, under, cut>>
    PROVE  TypeOK'
<1>1. send' = [send EXCEPT ![s].pc = pc, ![s].quiet = send[s].quiet]
  BY DEF TypeOK, Send, Goto
<1>2. send[s].quiet \in BOOLEAN
  BY DEF TypeOK, Send
<1>. QED  BY <1>1, <1>2, MovedTyped

LEMMA GateTyped ==
    ASSUME TypeOK, NEW s \in Sends, NEW pc \in Gates, NEW bar, NEW next \in Gates,
           Gate(s, pc, bar, next)
    PROVE  TypeOK'
<1>1. cut' \in BOOLEAN
  BY DEF Gate, TypeOK
<1>2. CASE bar \in bars
  BY <1>1, <1>2, DoneTyped DEF Gate
<1>3. CASE bar \notin bars
  BY <1>3, GotoTyped DEF Gate
<1>. QED  BY <1>2, <1>3

LEMMA InsertTyped ==
    ASSUME TypeOK, NEW s \in Sends, Insert(s)
    PROVE  TypeOK'
<1>. DEFINE x == [send[s] EXCEPT !.pc = "unhide", !.msg = sent + 1]
<1>1. sent \in Nat /\ sent + 1 \in Time /\ sent' = sent + 1 /\ sent < MaxMessages
  BY BoundAssumption DEF TypeOK, Time, Insert
<1>2. 0..sent \subseteq 0..sent' /\ 1..sent \subseteq 1..sent' /\ sent' \in 1..sent'
  BY <1>1
<1>3. send' = [send EXCEPT ![s] = x]
  BY <1>1 DEF TypeOK, Send, Insert
<1>4. x \in Send /\ x.msg = sent' /\ (group \/ x.kind # "directed")
  BY <1>1 DEF TypeOK, Send
<1>5. send' \in [Sends -> Send]
  BY <1>3, <1>4 DEF TypeOK
<1>6. ASSUME NEW t \in Sends
      PROVE  /\ send'[t].pc \notin Gates \cup {"idle"} => send'[t].msg \in 1..sent'
             /\ group \/ send'[t].kind # "directed"
  <2>1. CASE t = s
    BY <2>1, <1>2, <1>3, <1>4 DEF TypeOK
  <2>2. CASE t # s
    BY <2>2, <1>2, <1>3 DEF TypeOK
  <2>. QED  BY <2>1, <2>2
<1>7. {hidden, archived, muted, left} \subseteq 0..sent' \cup {Never} /\ since \in 0..sent'
  BY <1>2 DEF TypeOK
<1>8. UNCHANGED <<group, bars, hidden, archived, muted, left, foreground, inRoom, since, under, cut>>
  BY DEF Insert, row, socket
<1>. QED  BY <1>1, <1>5, <1>6, <1>7, <1>8 DEF TypeOK

\* The state is well typed: a message that a send carries past its insert is
\* there, and no stamp of the reader's row lies ahead of the last message.
THEOREM TypeCorrect == Spec => []TypeOK
<1>1. Init => TypeOK
  <2>. SUFFICES ASSUME Init PROVE TypeOK
    OBVIOUS
  <2>1. 0 \in Time /\ NoSend \in Send /\ NoSend.pc = "idle" /\ NoSend.kind = "text"
    BY BoundAssumption DEF Time, NoSend, Send, Kinds
  <2>2. send \in [Sends -> Send] /\ under \in [Sends -> SUBSET Bars]
    BY <2>1 DEF Init
  <2>3. \A s \in Sends : send[s] = NoSend
    BY DEF Init
  <2>4. {hidden, archived, muted, left} \subseteq 0..sent \cup {Never} /\ since \in 0..sent
    BY DEF Init
  <2>. QED  BY <2>1, <2>2, <2>3, <2>4 DEF Init, TypeOK
<1>2. TypeOK /\ [Next]_vars => TypeOK'
  <2>. SUFFICES ASSUME TypeOK, [Next]_vars PROVE TypeOK'
    OBVIOUS
  <2>1. ASSUME NEW s \in Sends, NEW k \in Kinds, Arrive(s, k) PROVE TypeOK'
    <3>0. NoSend \in Send
      BY IdleOK DEF SendOK
    <3>1. SendOK([NoSend EXCEPT !.pc = "member", !.kind = k])
      BY <2>1, <3>0 DEF Arrive, SendOK, Send, Gates
    <3>2. under' \in [Sends -> SUBSET Bars] /\ cut' \in BOOLEAN
      BY <2>1 DEF Arrive, TypeOK
    <3>. QED  BY <2>1, <3>1, <3>2, SlotTyped DEF Arrive
  <2>2. ASSUME NEW s \in Sends,
               CheckMember(s) \/ CheckConvo(s) \/ CheckBlock(s) \/ CheckBan(s)
        PROVE  TypeOK'
    <3>. USE GateTyped DEF Gates
    <3>1. CASE CheckMember(s)
      BY <3>1 DEF CheckMember
    <3>2. CASE CheckConvo(s)
      BY <3>2 DEF CheckConvo
    <3>3. CASE CheckBlock(s)
      BY <3>3 DEF CheckBlock
    <3>4. CASE CheckBan(s)
      BY <3>4 DEF CheckBan
    <3>. QED  BY <2>2, <3>1, <3>2, <3>3, <3>4
  <2>3. ASSUME NEW s \in Sends, Unhide(s) \/ Unarchive(s) PROVE TypeOK'
    <3>1. PICK pc \in {"unarchive", "members"} :
            send' = [send EXCEPT ![s] = [send[s] EXCEPT !.pc = pc]]
      BY <2>3 DEF Unhide, Unarchive, Goto, TypeOK
    <3>2. SendOK([send[s] EXCEPT !.pc = pc])
      BY <2>3 DEF Unhide, Unarchive, TypeOK, SendOK, Send, Gates
    <3>3. send' \in [Sends -> Send]
          /\ \A t \in Sends : /\ send'[t].pc \notin Gates \cup {"idle"} => send'[t].msg \in 1..sent
                              /\ group \/ send'[t].kind # "directed"
      BY <3>1, <3>2 DEF TypeOK, SendOK
    <3>4. /\ {hidden', archived'} \subseteq {hidden, archived, Never}
          /\ UNCHANGED <<group, sent, bars, muted, left, foreground, inRoom, since, under, cut>>
      BY <2>3 DEF Unhide, Unarchive, socket
    <3>. QED  BY <3>3, <3>4 DEF TypeOK
  <2>4. ASSUME NEW s \in Sends, ReadMembers(s) PROVE TypeOK'
    <3>1. CASE Done(s)
      BY <2>4, <3>1, DoneTyped DEF ReadMembers, TypeOK
    <3>2. CASE ~Done(s)
      BY <2>4, <3>2, MovedTyped DEF ReadMembers, After
    <3>. QED  BY <3>1, <3>2
  <2>5. ASSUME NEW s \in Sends, CheckViewing(s) PROVE TypeOK'
    <3>1. CASE Done(s)
      BY <2>5, <3>1, DoneTyped DEF CheckViewing, TypeOK
    <3>2. CASE ~Done(s)
      BY <2>5, <3>2, GotoTyped DEF CheckViewing, After
    <3>. QED  BY <3>1, <3>2
  <2>6. ASSUME NEW s \in Sends, ReadMute(s) PROVE TypeOK'
    BY <2>6, MovedTyped DEF ReadMute, After
  <2>7. ASSUME NEW s \in Sends, Notify(s) PROVE TypeOK'
    BY <2>7, GotoTyped DEF Notify, After
  <2>8. ASSUME NEW s \in Sends, Push(s) \/ Fail(s) PROVE TypeOK'
    BY <2>8, DoneTyped DEF Push, Fail, TypeOK
  <2>9. CASE RowStep
    <3>1. sent \in 0..sent
      BY DEF TypeOK, Time
    <3>2. {hidden', archived', muted', left'} \subseteq {hidden, archived, muted, left, sent, Never}
          /\ (left' = left \/ left' = Never \/ group)
      BY <2>9 DEF RowStep, Hide, Archive, Unarchived, Mute, Unmute, Leave, Rejoin
    <3>3. UNCHANGED <<group, sent, bars, foreground, inRoom, since, send, under, cut>>
      BY <2>9 DEF RowStep, Hide, Archive, Unarchived, Mute, Unmute, Leave, Rejoin, socket
    <3>. QED  BY <3>1, <3>2, <3>3 DEF TypeOK
  <2>10. CASE SocketStep
    <3>1. /\ foreground' \in BOOLEAN /\ inRoom' \in BOOLEAN
          /\ since' \in {0, since, sent}
          /\ UNCHANGED <<group, sent, bars, hidden, archived, muted, left, send, under, cut>>
      BY <2>10 DEF SocketStep, ViewingSet, ViewingClear, AppForeground, AppBackground, SetSocket,
                   row, TypeOK
    <3>2. {0, since, sent} \subseteq 0..sent
      BY DEF TypeOK, Time
    <3>. QED  BY <3>1, <3>2 DEF TypeOK
  <2>11. ASSUME NEW b \in Bars, Raise(b) \/ Lift(b) PROVE TypeOK'
    <3>1. bars' \subseteq Bars /\ under' \in [Sends -> SUBSET Bars]
      BY <2>11 DEF Raise, Lift, TypeOK
    <3>2. UNCHANGED <<group, sent, row, socket, send, cut>>
      BY <2>11 DEF Raise, Lift
    <3>. QED  BY <3>1, <3>2 DEF TypeOK, row, socket
  <2>12. CASE UNCHANGED vars
    BY <2>12 DEF vars, TypeOK
  <2>. QED
    BY <2>1, <2>2, <2>3, <2>4, <2>5, <2>6, <2>7, <2>8, <2>9, <2>10, <2>11, <2>12, InsertTyped
       DEF Next, SendStep
<1>. QED  BY <1>1, <1>2, PTL DEF Spec

-----------------------------------------------------------------------------
(* A bar holds *)

\* A bar that has stayed up since a send arrived is one of the bars of this kind
\* of conversation, and none that the send has already been through.
Screened ==
    /\ bars \subseteq IF group THEN {"gone", "closed"} ELSE {"block", "ban"}
    /\ \A s \in Sends :
         /\ under[s] \subseteq bars
         /\ send[s].pc \in {"block", "ban"} => ~group
         /\ send[s].pc = "convo" => "gone" \notin under[s]
         /\ send[s].pc = "ban" => "block" \notin under[s]
         /\ send[s].pc \notin Gates \ {"insert"} => under[s] = {}

\* A step of one send that leaves the bars alone.
LEMMA SlotScreened ==
    ASSUME TypeOK, Screened, NEW s \in Sends, NEW x \in Send, NEW u,
           send' = [send EXCEPT ![s] = x], under' = [under EXCEPT ![s] = u],
           UNCHANGED <<group, bars>>,
           u \subseteq bars,
           x.pc \in {"block", "ban"} => ~group,
           x.pc = "convo" => "gone" \notin u,
           x.pc = "ban" => "block" \notin u,
           x.pc \notin Gates \ {"insert"} => u = {}
    PROVE  Screened'
<1>1. ASSUME NEW t \in Sends
      PROVE  /\ under'[t] \subseteq bars
             /\ send'[t].pc \in {"block", "ban"} => ~group
             /\ send'[t].pc = "convo" => "gone" \notin under'[t]
             /\ send'[t].pc = "ban" => "block" \notin under'[t]
             /\ send'[t].pc \notin Gates \ {"insert"} => under'[t] = {}
  <2>1. CASE t = s
    BY <2>1 DEF TypeOK
  <2>2. CASE t # s
    BY <2>2 DEF TypeOK, Screened
  <2>. QED  BY <2>1, <2>2
<1>. QED  BY <1>1 DEF Screened

LEMMA DoneScreened ==
    ASSUME TypeOK, Screened, NEW s \in Sends, Done(s), UNCHANGED <<group, bars>>
    PROVE  Screened'
<1>1. NoSend \in Send
  BY IdleOK DEF SendOK
<1>. QED  BY <1>1, SlotScreened DEF Done, NoSend, Gates

\* A send that is past the gates goes on.
LEMMA PastScreened ==
    ASSUME TypeOK, Screened, NEW s \in Sends, NEW x \in Send,
           send[s].pc \notin Gates \ {"insert"}, x.pc \notin Gates,
           send' = [send EXCEPT ![s] = x], UNCHANGED <<group, bars, under>>
    PROVE  Screened'
<1>1. under' = [under EXCEPT ![s] = {}] /\ {} \subseteq bars
  BY DEF Screened, TypeOK
<1>. QED  BY <1>1, SlotScreened DEF Gates

LEMMA ScreenedStep == TypeOK /\ Screened /\ [Next]_vars => Screened'
<1>. SUFFICES ASSUME TypeOK, Screened, [Next]_vars PROVE Screened'
  OBVIOUS
<1>1. ASSUME NEW s \in Sends, NEW k \in Kinds, Arrive(s, k) PROVE Screened'
  <2>1. [NoSend EXCEPT !.pc = "member", !.kind = k] \in Send
    BY IdleOK DEF SendOK, Send
  <2>2. [NoSend EXCEPT !.pc = "member", !.kind = k].pc = "member"
    BY IdleOK DEF SendOK, Send
  <2>. QED  BY <1>1, <2>1, <2>2, SlotScreened DEF Arrive, Gates
<1>2. ASSUME NEW s \in Sends, NEW pc, NEW bar, NEW next \in Gates, Gate(s, pc, bar, next),
             next \in {"block", "ban"} => ~group,
             next = "convo" => bar = "gone",
             next = "ban" => bar = "block",
             next = "insert" => under[s] \subseteq {bar}
      PROVE  Screened'
  <2>1. CASE bar \in bars
    BY <1>2, <2>1, DoneScreened DEF Gate
  <2>2. CASE bar \notin bars
    <3>. DEFINE x == [send[s] EXCEPT !.pc = next]
    <3>1. x \in Send /\ x.pc = next
      BY DEF TypeOK, Send, Gates
    <3>2. /\ under' = [under EXCEPT ![s] = under[s]]
          /\ send' = [send EXCEPT ![s] = x]
          /\ UNCHANGED <<group, bars>>
      BY <1>2, <2>2 DEF Gate, Goto, TypeOK
    <3>3. under[s] \subseteq bars /\ bar \notin under[s]
      BY <2>2 DEF Screened
    <3>. QED  BY <1>2, <3>1, <3>2, <3>3, SlotScreened DEF Gates
  <2>. QED  BY <2>1, <2>2
<1>3. ASSUME NEW s \in Sends, CheckMember(s) \/ CheckConvo(s) \/ CheckBlock(s) \/ CheckBan(s)
      PROVE  Screened'
  <2>. USE DEF Gates
  <2>1. CASE CheckMember(s)
    BY <1>2, <2>1 DEF CheckMember
  <2>2. CASE group /\ Gate(s, "convo", "closed", "insert")
    <3>1. under[s] \subseteq {"closed"}
      BY <2>2 DEF Screened, Gate
    <3>. QED  BY <1>2, <2>2, <3>1
  <2>3. CASE ~group /\ Gate(s, "convo", "closed", "block")
    BY <1>2, <2>3
  <2>4. CASE CheckBlock(s)
    BY <1>2, <2>4 DEF CheckBlock, Screened, Gate
  <2>5. CASE CheckBan(s)
    <3>1. under[s] \subseteq {"ban"}
      BY <2>5 DEF Screened, Gate, CheckBan
    <3>. QED  BY <1>2, <2>5, <3>1 DEF CheckBan
  <2>. QED  BY <1>3, <2>1, <2>2, <2>3, <2>4, <2>5 DEF CheckConvo
<1>4. ASSUME NEW s \in Sends, Insert(s) PROVE Screened'
  <2>1. sent + 1 \in Time
    BY <1>4, BoundAssumption DEF TypeOK, Time, Insert
  <2>. DEFINE x == [send[s] EXCEPT !.pc = "unhide", !.msg = sent + 1]
  <2>2. x \in Send /\ x.pc = "unhide"
    BY <2>1 DEF TypeOK, Send
  <2>3. send' = [send EXCEPT ![s] = x]
    BY <1>4 DEF Insert, TypeOK, Send
  <2>. QED  BY <1>4, <2>2, <2>3, PastScreened DEF Insert, Gates
<1>5. ASSUME NEW s \in Sends, NEW pc \in After, Goto(s, pc), send[s].pc \in After,
             UNCHANGED <<group, bars, under>>
      PROVE  Screened'
  <2>1. [send[s] EXCEPT !.pc = pc] \in Send
    BY DEF TypeOK, Send, After
  <2>. QED  BY <1>5, <2>1, PastScreened DEF Goto, Gates, Send, TypeOK, After
<1>6. ASSUME NEW s \in Sends, Unhide(s) \/ Unarchive(s) \/ Notify(s) PROVE Screened'
  BY <1>5, <1>6 DEF Unhide, Unarchive, Notify, After
<1>7. ASSUME NEW s \in Sends, ReadMute(s) PROVE Screened'
  <2>. DEFINE x == [send[s] EXCEPT !.pc = "notify", !.quiet = muted # Never]
  <2>1. x \in Send /\ x.pc = "notify"
    BY DEF TypeOK, Send
  <2>2. send' = [send EXCEPT ![s] = x]
    BY <1>7 DEF ReadMute, TypeOK, Send
  <2>. QED  BY <1>7, <2>1, <2>2, PastScreened DEF ReadMute, Gates
<1>8. ASSUME NEW s \in Sends, ReadMembers(s) PROVE Screened'
  <2>. DEFINE x == [send[s] EXCEPT !.pc = "viewing", !.quiet = ~group /\ muted # Never]
  <2>1. x \in Send /\ x.pc = "viewing"
    BY DEF TypeOK, Send
  <2>2. CASE Done(s)
    BY <1>8, <2>2, DoneScreened DEF ReadMembers
  <2>3. CASE ~Done(s)
    <3>1. send' = [send EXCEPT ![s] = x]
      BY <1>8, <2>3 DEF ReadMembers, TypeOK, Send
    <3>. QED  BY <1>8, <2>1, <2>3, <3>1, PastScreened DEF ReadMembers, Gates
  <2>. QED  BY <2>2, <2>3
<1>9. ASSUME NEW s \in Sends, CheckViewing(s) PROVE Screened'
  <2>1. CASE Done(s)
    BY <1>9, <2>1, DoneScreened DEF CheckViewing
  <2>2. CASE ~Done(s)
    BY <1>5, <1>9, <2>2 DEF CheckViewing, After
  <2>. QED  BY <2>1, <2>2
<1>10. ASSUME NEW s \in Sends, Push(s) \/ Fail(s) PROVE Screened'
  BY <1>10, DoneScreened DEF Push, Fail
<1>11. CASE RowStep \/ SocketStep \/ UNCHANGED vars
  <2>1. UNCHANGED <<group, bars, send, under>>
    BY <1>11 DEF RowStep, Hide, Archive, Unarchived, Mute, Unmute, Leave, Rejoin, SocketStep,
                 ViewingSet, ViewingClear, AppForeground, AppBackground, SetSocket, vars
  <2>. QED  BY <2>1 DEF Screened
<1>12. ASSUME NEW b \in Bars, Raise(b) PROVE Screened'
  BY <1>12 DEF Raise, Screened, Bars
<1>13. ASSUME NEW b \in Bars, Lift(b) PROVE Screened'
  BY <1>13 DEF Lift, Screened
<1>. QED
  BY <1>1, <1>3, <1>4, <1>6, <1>7, <1>8, <1>9, <1>10, <1>11, <1>12, <1>13
     DEF Next, SendStep

\* A bar that stood when a send arrived and has stayed up keeps its message out,
\* for any number of sends and whatever other bars come and go.
THEOREM BarsHold == Spec => []BarHolds
<1>1. Init => Screened
  BY DEF Init, Screened, NoSend
<1>2. Screened => BarHolds
  BY DEF Screened, BarHolds
<1>. QED  BY <1>1, <1>2, TypeCorrect, ScreenedStep, PTL DEF Spec

-----------------------------------------------------------------------------
(* A message brings its conversation back *)

\* The send that will show message m again.
Bringing(m) == \E s \in Sends : send[s].pc = "unhide" /\ send[s].msg >= m

\* A step of one send that is not its unhide, nor hides anything.
LEMMA OtherSlotBrings ==
    ASSUME TypeOK, ShownAgain, NEW s \in Sends, send[s].pc # "unhide",
           \A t \in Sends \ {s} : send'[t] = send[t],
           UNCHANGED <<sent, hidden, cut>>
    PROVE  ShownAgain'
BY DEF ShownAgain, Before

LEMMA ShownAgainStep == TypeOK /\ ShownAgain /\ [Next]_vars => ShownAgain'
<1>. SUFFICES ASSUME TypeOK, ShownAgain, [Next]_vars PROVE ShownAgain'
  OBVIOUS
<1>1. ASSUME NEW s \in Sends, NEW k \in Kinds, Arrive(s, k) PROVE ShownAgain'
  BY <1>1, OtherSlotBrings DEF Arrive, TypeOK, row
<1>2. ASSUME NEW s \in Sends,
             \/ CheckMember(s) \/ CheckConvo(s) \/ CheckBlock(s) \/ CheckBan(s)
             \/ ReadMembers(s) \/ CheckViewing(s) \/ ReadMute(s) \/ Notify(s) \/ Push(s)
      PROVE  ShownAgain'
  <2>1. send[s].pc # "unhide" /\ UNCHANGED <<sent, hidden, cut>>
    BY <1>2 DEF CheckMember, CheckConvo, CheckBlock, CheckBan, Gate, ReadMembers, CheckViewing,
                ReadMute, Notify, Push, row
  <2>2. \A t \in Sends \ {s} : send'[t] = send[t]
    BY <1>2 DEF CheckMember, CheckConvo, CheckBlock, CheckBan, Gate, ReadMembers, CheckViewing,
                ReadMute, Notify, Push, Goto, Done, TypeOK
  <2>. QED  BY <2>1, <2>2, OtherSlotBrings
<1>3. ASSUME NEW s \in Sends, Insert(s) PROVE ShownAgain'
  <2>1. sent \in Nat /\ sent' = sent + 1 /\ hidden' = hidden /\ cut' = cut
    BY <1>3 DEF Insert, TypeOK, Time, row
  <2>2. /\ send'[s].pc = "unhide" /\ send'[s].msg = sent + 1
        /\ \A t \in Sends \ {s} : send'[t] = send[t]
    BY <1>3 DEF Insert, TypeOK, Send
  <2>. SUFFICES ASSUME NEW m \in 1..sent + 1 PROVE Bringing(m)'
    BY <2>1 DEF ShownAgain, Bringing
  <2>. QED  BY <2>1, <2>2 DEF Bringing
<1>4. ASSUME NEW s \in Sends, Unarchive(s) PROVE ShownAgain'
  BY <1>4, OtherSlotBrings DEF Unarchive, Goto, TypeOK
<1>5. ASSUME NEW s \in Sends, Fail(s) PROVE ShownAgain'
  BY <1>5 DEF Fail, ShownAgain
<1>6. CASE (\E s \in Sends : Unhide(s)) \/ Rejoin
  <2>1. hidden' = Never
    BY <1>6 DEF Unhide, Rejoin
  <2>. QED  BY <2>1 DEF ShownAgain, Before
<1>7. CASE Hide
  <2>1. hidden' = sent /\ sent' = sent /\ sent \in Nat
    BY <1>7 DEF Hide, TypeOK, Time
  <2>2. \A m \in 1..sent : ~(sent < m)
    BY <2>1
  <2>. QED  BY <2>1, <2>2 DEF ShownAgain, Before
<1>8. CASE \/ Archive \/ Unarchived \/ Mute \/ Unmute \/ Leave \/ SocketStep \/ UNCHANGED vars
           \/ \E b \in Bars : Raise(b) \/ Lift(b)
  <2>1. UNCHANGED <<sent, hidden, send, cut>>
    BY <1>8 DEF Archive, Unarchived, Mute, Unmute, Leave, SocketStep, ViewingSet, ViewingClear,
                AppForeground, AppBackground, SetSocket, vars, Raise, Lift, row
  <2>. QED  BY <2>1 DEF ShownAgain, Before
<1>. QED
  BY <1>1, <1>2, <1>3, <1>4, <1>5, <1>6, <1>7, <1>8 DEF Next, SendStep, RowStep

\* Every message is in view, or a send is about to bring it there: for any number
\* of sends, and of hides and rejoins between their steps.
THEOREM MessagesAreShown == Spec => []ShownAgain
<1>1. Init => ShownAgain
  BY DEF Init, ShownAgain
<1>. QED  BY <1>1, TypeCorrect, ShownAgainStep, PTL DEF Spec

-----------------------------------------------------------------------------
(* The reader is told rightly *)

\* What a send in state x has settled for good about its message: what the
\* reader does from now on is stamped no earlier than the message.
Settled(x) ==
    /\ x.pc \in After \ {"unhide"} => ~Before(hidden, x.msg)
    /\ x.pc \in After \ {"unhide", "unarchive"} /\ x.kind # "voice" => ~Before(archived, x.msg)
    /\ x.pc \in {"viewing", "mute", "notify"} =>
         /\ ~Before(left, x.msg)
         /\ group => x.kind # "voice"
         /\ ~group /\ ~x.quiet => ~Before(muted, x.msg)
    /\ x.pc \in {"mute", "notify"} => ~(Viewing /\ since < x.msg)
    /\ x.pc = "notify" /\ group /\ x.kind = "text" /\ ~x.quiet => ~Before(muted, x.msg)

AllSettled == \A s \in Sends : Settled(send[s])

\* What the settled questions are about.
asked == <<group, row, socket>>

\* A step of one send, which may bring the conversation back into view.
LEMMA SlotSettled ==
    ASSUME TypeOK, AllSettled, NEW s \in Sends, NEW x,
           send' = [send EXCEPT ![s] = x],
           UNCHANGED <<group, muted, left, socket>>,
           hidden' \in {hidden, Never}, archived' \in {archived, Never},
           Settled(x)'
    PROVE  AllSettled'
<1>1. ASSUME NEW t \in Sends PROVE Settled(send[t])'
  <2>1. CASE t = s
    <3>1. send'[t] = x
      BY <2>1 DEF TypeOK
    <3>. QED  BY <3>1 DEF Settled
  <2>2. CASE t # s
    <3>1. send'[t] = send[t] /\ Settled(send[t])
      BY <2>2 DEF TypeOK, AllSettled
    <3>. QED  BY <3>1 DEF Settled, socket, Before, Viewing
  <2>. QED  BY <2>1, <2>2
<1>. QED  BY <1>1 DEF AllSettled

\* Before the unhide nothing is settled.
LEMMA BeforeSettled ==
    ASSUME NEW x, x.pc \in Gates \cup {"idle", "unhide"}
    PROVE  Settled(x)'
BY DEF Settled, Gates, After

LEMMA DoneSettled ==
    ASSUME TypeOK, AllSettled, NEW s \in Sends, Done(s), UNCHANGED asked
    PROVE  AllSettled'
<1>1. Settled(NoSend)'
  BY BeforeSettled DEF NoSend, Settled
<1>. QED  BY <1>1, SlotSettled DEF Done, asked, row

\* The reader acts: each stamp that is set is that of the last message.
LEMMA ReaderSettles ==
    ASSUME TypeOK, AllSettled, UNCHANGED <<group, sent, send>>,
           hidden' \in {hidden, sent, Never}, archived' \in {archived, sent, Never},
           muted' \in {muted, sent, Never}, left' \in {left, sent, Never},
           Viewing' => (Viewing /\ since' = since) \/ since' = sent
    PROVE  AllSettled'
<1>. SUFFICES ASSUME NEW s \in Sends PROVE Settled(send[s])'
  BY DEF AllSettled
<1>. DEFINE x == send[s]
<1>1. x.pc \in After => x.msg \in Nat /\ ~(sent < x.msg)
  BY BoundAssumption DEF TypeOK, Time, After, Gates
<1>2. Settled(x)
  BY DEF AllSettled
<1>3. x' = x
  OBVIOUS
<1>4. ASSUME x.pc \in After
      PROVE  /\ Before(hidden, x.msg)' => Before(hidden, x.msg)
             /\ Before(archived, x.msg)' => Before(archived, x.msg)
             /\ Before(muted, x.msg)' => Before(muted, x.msg)
             /\ Before(left, x.msg)' => Before(left, x.msg)
             /\ (Viewing /\ since < x.msg)' => Viewing /\ since < x.msg
  BY <1>1, <1>3, <1>4 DEF Before
<1>. QED  BY <1>2, <1>3, <1>4 DEF Settled, After

LEMMA SettledStep == TypeOK /\ AllSettled /\ [Next]_vars => AllSettled'
<1>. SUFFICES ASSUME TypeOK, AllSettled, [Next]_vars PROVE AllSettled'
  OBVIOUS
<1>1. ASSUME NEW s \in Sends, NEW k \in Kinds, Arrive(s, k) PROVE AllSettled'
  <2>0. PICK x : x = [NoSend EXCEPT !.pc = "member", !.kind = k]
    OBVIOUS
  <2>1. x.pc = "member"
    BY <2>0, IdleOK DEF SendOK, Send
  <2>2. Settled(x)'
    BY <2>1, BeforeSettled DEF Gates
  <2>. QED  BY <1>1, <2>0, <2>2, SlotSettled DEF Arrive, row
<1>2. ASSUME NEW s \in Sends, NEW pc, NEW bar, NEW next \in Gates, Gate(s, pc, bar, next)
      PROVE  AllSettled'
  <2>0. PICK x : x = [send[s] EXCEPT !.pc = next]
    OBVIOUS
  <2>1. x.pc = next
    BY <2>0 DEF TypeOK, Send
  <2>2. Settled(x)'
    BY <2>0, <2>1, BeforeSettled
  <2>3. UNCHANGED asked
    BY <1>2 DEF Gate, asked
  <2>. QED  BY <2>0, <1>2, <2>2, <2>3, DoneSettled, SlotSettled DEF Gate, Goto, asked, row
<1>3. ASSUME NEW s \in Sends, CheckMember(s) \/ CheckConvo(s) \/ CheckBlock(s) \/ CheckBan(s)
      PROVE  AllSettled'
  BY <1>2, <1>3 DEF CheckMember, CheckConvo, CheckBlock, CheckBan, Gates
<1>4. ASSUME NEW s \in Sends, Insert(s) PROVE AllSettled'
  <2>0. PICK x : x = [send[s] EXCEPT !.pc = "unhide", !.msg = sent + 1]
    OBVIOUS
  <2>1. send' = [send EXCEPT ![s] = x]
    BY <2>0, <1>4 DEF Insert, TypeOK, Send
  <2>2. x.pc = "unhide"
    BY <2>0 DEF TypeOK, Send
  <2>. QED  BY <2>0, <1>4, <2>1, <2>2, BeforeSettled, SlotSettled DEF Insert, asked, row
<1>5. ASSUME NEW s \in Sends, Unhide(s) PROVE AllSettled'
  <2>. DEFINE pc == IF send[s].kind = "voice" THEN "members" ELSE "unarchive"
  <2>0. PICK x : x = [send[s] EXCEPT !.pc = pc]
    OBVIOUS
  <2>1. x.pc = pc /\ x.kind = send[s].kind
    BY <2>0 DEF TypeOK, Send
  <2>2. Settled(x)'
    BY <2>0, <1>5, <2>1 DEF Unhide, Settled, Before
  <2>. QED  BY <2>0, <1>5, <2>2, SlotSettled DEF Unhide, Goto
<1>6. ASSUME NEW s \in Sends, Unarchive(s) PROVE AllSettled'
  <2>0. PICK x : x = [send[s] EXCEPT !.pc = "members"]
    OBVIOUS
  <2>1. /\ x.pc = "members" /\ x.kind = send[s].kind /\ x.msg = send[s].msg
        /\ Settled(send[s]) /\ send[s].pc = "unarchive"
    BY <2>0, <1>6 DEF TypeOK, Send, AllSettled, Unarchive
  <2>2. Settled(x)'
    BY <2>0, <1>6, <2>1 DEF Unarchive, Settled, Before, After
  <2>. QED  BY <2>0, <1>6, <2>2, SlotSettled DEF Unarchive, Goto
<1>7. ASSUME NEW s \in Sends, ReadMembers(s) PROVE AllSettled'
  <2>1. UNCHANGED asked
    BY <1>7 DEF ReadMembers, asked
  <2>2. CASE Done(s)
    BY <2>1, <2>2, DoneSettled
  <2>3. CASE ~Done(s)
    <3>0. PICK x : x = [send[s] EXCEPT !.pc = "viewing", !.quiet = ~group /\ muted # Never]
      OBVIOUS
    <3>1. /\ x.pc = "viewing" /\ x.kind = send[s].kind /\ x.msg = send[s].msg
          /\ x.quiet = (~group /\ muted # Never)
          /\ Settled(send[s]) /\ send[s].pc = "members"
      BY <3>0, <1>7 DEF TypeOK, Send, AllSettled, ReadMembers
    <3>2. left = Never /\ (group => send[s].kind # "voice") /\ send' = [send EXCEPT ![s] = x]
      BY <3>0, <1>7, <2>3 DEF ReadMembers, TypeOK, Send
    <3>3. Settled(x)'
      BY <3>0, <2>1, <3>1, <3>2 DEF Settled, Before, After, asked, row
    <3>. QED  BY <3>0, <2>1, <3>2, <3>3, SlotSettled DEF asked, row
  <2>. QED  BY <2>2, <2>3
<1>8. ASSUME NEW s \in Sends, CheckViewing(s) PROVE AllSettled'
  <2>1. UNCHANGED asked
    BY <1>8 DEF CheckViewing, asked
  <2>2. CASE Done(s)
    BY <2>1, <2>2, DoneSettled
  <2>3. CASE ~Done(s)
    <3>. DEFINE pc == IF group /\ send[s].kind = "text" THEN "mute" ELSE "notify"
    <3>0. PICK x : x = [send[s] EXCEPT !.pc = pc]
      OBVIOUS
    <3>1. /\ x.pc = pc /\ x.kind = send[s].kind /\ x.msg = send[s].msg
          /\ x.quiet = send[s].quiet
          /\ Settled(send[s]) /\ send[s].pc = "viewing"
      BY <3>0, <1>8 DEF TypeOK, Send, AllSettled, CheckViewing
    <3>2. ~Viewing /\ send' = [send EXCEPT ![s] = x]
      BY <3>0, <1>8, <2>3 DEF CheckViewing, Goto
    <3>3. Settled(x)'
      BY <3>0, <2>1, <3>1, <3>2 DEF Settled, Before, After, asked, row, socket, Viewing
    <3>. QED  BY <3>0, <2>1, <3>2, <3>3, SlotSettled DEF asked, row
  <2>. QED  BY <2>2, <2>3
<1>9. ASSUME NEW s \in Sends, ReadMute(s) PROVE AllSettled'
  <2>0. PICK x : x = [send[s] EXCEPT !.pc = "notify", !.quiet = muted # Never]
    OBVIOUS
  <2>1. /\ x.pc = "notify" /\ x.kind = send[s].kind /\ x.msg = send[s].msg
        /\ x.quiet = (muted # Never)
        /\ Settled(send[s]) /\ send[s].pc = "mute"
    BY <2>0, <1>9 DEF TypeOK, Send, AllSettled, ReadMute
  <2>2. send' = [send EXCEPT ![s] = x] /\ UNCHANGED asked
    BY <2>0, <1>9 DEF ReadMute, TypeOK, Send, asked
  <2>3. Settled(x)'
    BY <2>0, <2>1, <2>2 DEF Settled, Before, After, asked, row, socket, Viewing
  <2>. QED  BY <2>0, <2>2, <2>3, SlotSettled DEF asked, row
<1>10. ASSUME NEW s \in Sends, Notify(s) PROVE AllSettled'
  <2>0. PICK x : x = [send[s] EXCEPT !.pc = "push"]
    OBVIOUS
  <2>1. /\ x.pc = "push" /\ x.kind = send[s].kind /\ x.msg = send[s].msg
        /\ Settled(send[s]) /\ send[s].pc = "notify"
    BY <2>0, <1>10 DEF TypeOK, Send, AllSettled, Notify
  <2>2. Settled(x)'
    BY <2>0, <1>10, <2>1 DEF Notify, Settled, Before, After, row
  <2>. QED  BY <2>0, <1>10, <2>2, SlotSettled DEF Notify, Goto, row
<1>11. ASSUME NEW s \in Sends, Push(s) \/ Fail(s) PROVE AllSettled'
  BY <1>11, DoneSettled DEF Push, Fail, asked
<1>12. CASE RowStep
  <2>1. UNCHANGED <<group, sent, send, socket>>
    BY <1>12 DEF RowStep, Hide, Archive, Unarchived, Mute, Unmute, Leave, Rejoin
  <2>2. /\ hidden' \in {hidden, sent, Never} /\ archived' \in {archived, sent, Never}
        /\ muted' \in {muted, sent, Never} /\ left' \in {left, sent, Never}
    BY <1>12 DEF RowStep, Hide, Archive, Unarchived, Mute, Unmute, Leave, Rejoin
  <2>. QED  BY <2>1, <2>2, ReaderSettles DEF socket, Viewing
<1>13. CASE SocketStep
  <2>1. UNCHANGED <<group, sent, send, row>>
    BY <1>13 DEF SocketStep, ViewingSet, ViewingClear, AppForeground, AppBackground, SetSocket
  <2>2. Viewing' => (Viewing /\ since' = since) \/ since' = sent
    BY <1>13 DEF SocketStep, ViewingSet, ViewingClear, AppForeground, AppBackground, SetSocket,
                 Viewing
  <2>. QED  BY <2>1, <2>2, ReaderSettles DEF row
<1>14. CASE UNCHANGED vars \/ \E b \in Bars : Raise(b) \/ Lift(b)
  <2>1. UNCHANGED <<asked, send>>
    BY <1>14 DEF vars, Raise, Lift, asked, row, socket
  <2>. QED  BY <2>1 DEF AllSettled, Settled, asked, row, socket, Before, Viewing
<1>. QED
  BY <1>1, <1>3, <1>4, <1>5, <1>6, <1>7, <1>8, <1>9, <1>10, <1>11, <1>12, <1>13, <1>14
     DEF Next, SendStep

\* The reader is told of a message only once the conversation is listed again, and
\* never against a mute, a departure or a look older than the message, at whatever
\* moments the send's reads and the reader's writes fall.
THEOREM ReaderIsToldRightly == Spec => ToldRightly
<1>1. Init => AllSettled
  <2>1. NoSend.pc = "idle"
    BY DEF NoSend
  <2>2. Settled(NoSend)
    BY <2>1 DEF Settled, After
  <2>. QED  BY <2>2 DEF Init, AllSettled
<1>2. TypeOK /\ AllSettled /\ [Next]_vars =>
        [\A s \in Sends : Told(s) => /\ ~Before(hidden, send[s].msg)
                                     /\ send[s].kind # "voice" => ~Before(archived, send[s].msg)]_vars
  BY DEF AllSettled, Settled, Told, After
<1>3. TypeOK /\ AllSettled /\ [Next]_vars =>
        [\A s \in Sends : Told(s) =>
            /\ ~Before(left, send[s].msg)
            /\ ~(Viewing /\ since < send[s].msg)
            /\ ~send[s].quiet /\ Before(muted, send[s].msg) => send[s].kind = "directed"]_vars
  BY DEF AllSettled, Settled, Told, TypeOK, Send, Kinds
<1>. QED
  BY <1>1, <1>2, <1>3, TypeCorrect, SettledStep, PTL
     DEF Spec, ToldRightly, ListedBeforeTold, QuietIsKept

=============================================================================
