--------------------------- MODULE Records_proofs ---------------------------
(***************************************************************************)
(* Proofs about records of what happens elsewhere.                         *)
(*                                                                         *)
(* Receipts: types, and that a 1:1 conversation loses no delivery receipt, *)
(* for any number of messages, sends and connections.                      *)
(*                                                                         *)
(* MCPlatform: that the tables agree with the storage service, the shop    *)
(* and the boards (CopiesAgree), for any number of files, products, pages, *)
(* jobs and runs; PlatformKept is the inductive invariant, one conjunct    *)
(* for each piece.                                                         *)
(***************************************************************************)
EXTENDS Receipts, MCPlatform, Integers, FiniteSetTheorems, WellFoundedInduction, TLAPS

-----------------------------------------------------------------------------
(* Receipts *)


\* The state is well typed: no watermark is ahead of the messages, and every
\* handler in flight knows its sender or the message it acts for.
THEOREM TypeCorrect == ReceiptsSpec => []ReceiptsTypeOK
<1> USE BoundAssumption, SendersAssumption
<1>1. ReceiptsInit => ReceiptsTypeOK
  <2> SUFFICES ASSUME ReceiptsInit PROVE ReceiptsTypeOK
    OBVIOUS
  <2>1. sent \in Seq(Senders) /\ Len(sent) = 0
    BY DEF ReceiptsInit
  <2>2. told \in [Senders -> Time] /\ seen \in [Senders -> Time]
    BY DEF ReceiptsInit, Time
  <2>3. send \in [Sends -> Send] /\ fill \in [Connections -> Fill] /\ open \in [Opens -> Open]
    BY DEF ReceiptsInit, Time, Send, Fill, Open, NoSend, NoFill, NoOpen
  <2>4. \A h \in Sends : /\ send[h].pc # "idle" => send[h].by \in Senders
                         /\ send[h].upTo <= Len(sent)
    BY <2>1 DEF ReceiptsInit, NoSend
  <2>5. \A c \in Connections : /\ fill[c].pc \in {"advance", "fan"} => fill[c].upTo # 0
                               /\ fill[c].upTo <= Len(sent)
    BY <2>1 DEF ReceiptsInit, NoFill
  <2>6. online \in BOOLEAN
    BY DEF ReceiptsInit
  <2>7. /\ Len(sent) <= MaxMessages
        /\ delivered \in Time /\ delivered <= Len(sent)
        /\ read \in Time /\ read <= Len(sent)
        /\ lost \in Time /\ lost <= Len(sent)
    BY <2>1 DEF ReceiptsInit, Time
  <2> QED
    BY <2>1, <2>2, <2>3, <2>4, <2>5, <2>6, <2>7 DEF ReceiptsTypeOK
<1>2. ReceiptsTypeOK /\ [ReceiptsNext]_receiptsVars => ReceiptsTypeOK'
  <2> SUFFICES ASSUME ReceiptsTypeOK, [ReceiptsNext]_receiptsVars PROVE ReceiptsTypeOK'
    OBVIOUS
  <2>0. Len(sent) \in Nat /\ Len(sent) \in Time
    BY DEF ReceiptsTypeOK, Time
  <2>n. NoSend \in Send
    BY DEF NoSend, Send, Time
  <2> USE <2>0 DEF ReceiptsTypeOK, Time, Now, Later
  <2>1. ASSUME NEW h \in Sends, NEW s \in Senders, Insert(h, s) PROVE ReceiptsTypeOK'
    <3>1. /\ sent' \in Seq(Senders) /\ Len(sent') = Len(sent) + 1
          /\ Len(sent) < MaxMessages
      BY <2>1 DEF Insert
    <3>2. send' \in [Sends -> Send]
      <4>1. [NoSend EXCEPT !.pc = "check", !.by = s] \in Send
        BY <2>n DEF Send
      <4> QED
        BY <4>1, <2>1 DEF Insert
    <3>3. \A g \in Sends : /\ send'[g].pc # "idle" => send'[g].by \in Senders
                           /\ send'[g].upTo <= Len(sent')
      <4> SUFFICES ASSUME NEW g \in Sends
                   PROVE /\ send'[g].pc # "idle" => send'[g].by \in Senders
                         /\ send'[g].upTo <= Len(sent')
        OBVIOUS
      <4>1. CASE g = h
        BY <4>1, <2>1, <3>1 DEF Insert, Send, NoSend
      <4>2. CASE g # h
        <5>1. send'[g] = send[g]
          BY <4>2, <2>1 DEF Insert
        <5> QED
          BY <5>1, <3>1 DEF Send
      <4> QED
        BY <4>1, <4>2
    <3>4. \A c \in Connections : /\ fill[c].pc \in {"advance", "fan"} => fill[c].upTo # 0
                                 /\ fill[c].upTo <= Len(sent')
      BY <3>1 DEF Fill
    <3>5. UNCHANGED <<online, delivered, read, told, seen, fill, open, lost>>
      BY <2>1 DEF Insert
    <3> QED
      BY <3>1, <3>2, <3>3, <3>4, <3>5
  <2>2. ASSUME NEW h \in Sends, CheckOnline(h) PROVE ReceiptsTypeOK'
    <3>1. send' \in [Sends -> Send]
      <4>1. send[h] \in Send
        OBVIOUS
      <4>2. [send[h] EXCEPT !.pc = "stamp"] \in Send
        BY ONLY <4>1 DEF Send
      <4> QED
        BY <4>2, <2>n, <2>2 DEF CheckOnline
    <3>2. \A g \in Sends : /\ send'[g].pc # "idle" => send'[g].by \in Senders
                           /\ send'[g].upTo <= Len(sent)
      BY <2>2 DEF CheckOnline, Send, NoSend
    <3>3. UNCHANGED <<sent, online, delivered, read, told, seen, fill, open, lost>>
      BY <2>2 DEF CheckOnline
    <3> QED
      BY <3>1, <3>2, <3>3
  <2>3. ASSUME NEW h \in Sends, Stamp(h) PROVE ReceiptsTypeOK'
    <3>1. send' \in [Sends -> Send]
      BY <2>3 DEF Stamp, Send
    <3>2. \A g \in Sends : /\ send'[g].pc # "idle" => send'[g].by \in Senders
                           /\ send'[g].upTo <= Len(sent)
      BY <2>3 DEF Stamp, Send
    <3>3. UNCHANGED <<sent, online, delivered, read, told, seen, fill, open, lost>>
      BY <2>3 DEF Stamp
    <3> QED
      BY <3>1, <3>2, <3>3
  <2>4. ASSUME NEW h \in Sends, UpdateDelivered(h) PROVE ReceiptsTypeOK'
    BY <2>4 DEF UpdateDelivered, Send
  <2>5. ASSUME NEW h \in Sends, EmitDelivered(h) PROVE ReceiptsTypeOK'
    BY <2>5 DEF EmitDelivered, Send, NoSend
  <2>6. ASSUME NEW c \in Connections, Connect(c) PROVE ReceiptsTypeOK'
    BY <2>6 DEF Connect, Fill
  <2>7. CASE Disconnect
    BY <2>7 DEF Disconnect
  <2>8. ASSUME NEW c \in Connections, QueryUndelivered(c) PROVE ReceiptsTypeOK'
    BY <2>8 DEF QueryUndelivered, Fill, NoFill
  <2>9. ASSUME NEW c \in Connections, AdvanceDelivered(c) PROVE ReceiptsTypeOK'
    <3>1. fill[c].upTo \in Time /\ fill[c].upTo # 0 /\ fill[c].upTo <= Len(sent)
      BY <2>9 DEF AdvanceDelivered, Fill
    <3>2. delivered' \in Time /\ delivered' <= Len(sent)
      BY <3>1, <2>9 DEF AdvanceDelivered
    <3>3. /\ fill' \in [Connections -> Fill]
          /\ \A d \in Connections : /\ fill'[d].pc \in {"advance", "fan"} => fill'[d].upTo # 0
                                    /\ fill'[d].upTo <= Len(sent)
      BY <3>1, <2>9 DEF AdvanceDelivered, Fill
    <3>4. UNCHANGED <<sent, online, read, told, seen, send, open, lost>>
      BY <2>9 DEF AdvanceDelivered
    <3> QED
      BY <3>2, <3>3, <3>4
  <2>10. ASSUME NEW c \in Connections, FanDelivered(c) PROVE ReceiptsTypeOK'
    BY <2>10 DEF FanDelivered, Fill, NoFill
  <2>11. ASSUME NEW o \in Opens, MarkRead(o) PROVE ReceiptsTypeOK'
    <3>1. read' = Len(sent) /\ open' \in [Opens -> Open]
      BY <2>11 DEF MarkRead, Open
    <3>2. UNCHANGED <<sent, online, delivered, told, seen, send, fill, lost>>
      BY <2>11 DEF MarkRead
    <3> QED
      BY <3>1, <3>2
  <2>12. ASSUME NEW o \in Opens, ClaimRead(o) PROVE ReceiptsTypeOK'
    BY <2>12 DEF ClaimRead, Open
  <2>13. ASSUME NEW o \in Opens, EmitRead(o) PROVE ReceiptsTypeOK'
    BY <2>13 DEF EmitRead, Open, NoOpen
  <2>14. ASSUME NEW h \in Sends, SendFails(h) PROVE ReceiptsTypeOK'
    <3>1. /\ send' \in [Sends -> Send] /\ lost' = Len(sent)
          /\ \A g \in Sends : /\ send'[g].pc # "idle" => send'[g].by \in Senders
                              /\ send'[g].upTo <= Len(sent)
      BY <2>14, <2>n DEF SendFails, NoSend
    <3>2. UNCHANGED <<sent, online, delivered, read, told, seen, fill, open>>
      BY <2>14 DEF SendFails
    <3> QED
      BY <3>1, <3>2
  <2>16. ASSUME NEW c \in Connections, FillFails(c) PROVE ReceiptsTypeOK'
    BY <2>16 DEF FillFails, Fill, NoFill
  <2>17. ASSUME NEW o \in Opens, OpenFails(o) PROVE ReceiptsTypeOK'
    BY <2>17 DEF OpenFails, Open, NoOpen
  <2>15. CASE UNCHANGED receiptsVars
    BY <2>15 DEF receiptsVars
  <2> QED
    BY <2>1, <2>2, <2>3, <2>4, <2>5, <2>6, <2>7, <2>8, <2>9, <2>10, <2>11,
       <2>12, <2>13, <2>14, <2>15, <2>16, <2>17 DEF ReceiptsNext, SendStep, FillStep, OpenStep
<1> QED
  BY <1>1, <1>2, PTL DEF ReceiptsSpec

-----------------------------------------------------------------------------
(* The watermark itself is no invariant: it goes back when a handler writes *)
(* what it read before a later message.  What stays is that somebody still  *)
(* carries the last message, or that everybody knows it already.            *)

ToldAll == \A s \in Senders : told[s] >= Now

Carried ==
    \/ \E h \in Sends : send[h].pc \in {"update", "emit"} /\ send[h].upTo = Now
    \/ \E c \in Connections : fill[c].pc \in {"advance", "fan"} /\ fill[c].upTo = Now

\* Nothing in flight is going to move the watermark back.
Fresh ==
    /\ \A h \in Sends : send[h].pc = "update" => send[h].upTo = Now
    /\ \A c \in Connections : fill[c].pc = "advance" => fill[c].upTo = Now

Coming ==
    \/ \E h \in Sends : send[h].pc \in {"check", "stamp"}
    \/ \E c \in Connections : fill[c].pc = "query"

Last ==
    /\ delivered = Now => ToldAll \/ Carried \/ Fresh
    /\ online => ToldAll \/ delivered = Now \/ Carried \/ Coming

\* A write of an older message cannot take the last one out of sight.
LEMMA OlderWrite ==
    ASSUME ReceiptsTypeOK, Last, NEW u \in Nat, u < Now,
           delivered' # Now, UNCHANGED <<sent, told, online>>,
           Carried => Carried', Coming => Coming', ~Fresh
    PROVE  Last'
  BY DEF Last, ToldAll, Now

LEMMA LastInit == ReceiptsInit => Last
  BY DEF ReceiptsInit, Last, Fresh, ToldAll, Carried, Coming, Now, NoSend, NoFill

\* Of a step that is no failure.
LEMMA LastStep ==
    ASSUME Direct, ReceiptsTypeOK, Last, [ReceiptsNext]_receiptsVars,
           \A h \in Sends : ~SendFails(h), \A c \in Connections : ~FillFails(c)
    PROVE  Last'
<1>0. Len(sent) \in Nat /\ delivered \in Nat /\ delivered <= Len(sent)
  BY BoundAssumption DEF ReceiptsTypeOK, Time
<1>t. \A s \in Senders : told[s] \in Nat
  BY BoundAssumption DEF ReceiptsTypeOK, Time
<1>u. /\ \A h \in Sends : send[h].upTo \in Nat /\ send[h].upTo <= Len(sent)
      /\ \A c \in Connections : fill[c].upTo \in Nat /\ fill[c].upTo <= Len(sent)
  BY BoundAssumption DEF ReceiptsTypeOK, Time, Send, Fill
<1>s. send \in [Sends -> Send] /\ fill \in [Connections -> Fill] /\ told \in [Senders -> Time]
  BY DEF ReceiptsTypeOK
<1> USE <1>0, <1>t, <1>u, <1>s DEF Now
<1>1. ASSUME NEW h \in Sends, NEW s \in Senders, Insert(h, s) PROVE Last'
  <2>1. Len(sent') = Len(sent) + 1
    BY <1>1 DEF Insert, ReceiptsTypeOK
  <2>2. delivered' # Len(sent')
    BY <2>1, <1>1 DEF Insert
  <2>3. Coming'
    BY <1>1 DEF Insert, Coming, NoSend, Send
  <2> QED
    BY <2>2, <2>3 DEF Last
<1>2. ASSUME NEW h \in Sends, CheckOnline(h) PROVE Last'
  <2>1. UNCHANGED <<sent, online, delivered, told, fill>>
    BY <1>2 DEF CheckOnline
  <2>2. online => Coming'
    BY <1>2 DEF CheckOnline, Coming, Send
  <2>3. \A g \in Sends : send'[g].pc \in {"update", "emit"}
                         <=> send[g].pc \in {"update", "emit"}
    BY <1>2 DEF CheckOnline, NoSend, Send
  <2>4. \A g \in Sends : send[g].pc \in {"update", "emit"} => send'[g] = send[g]
    BY <1>2 DEF CheckOnline, NoSend, Send
  <2>5. Carried => Carried'
    BY <2>1, <2>3, <2>4 DEF Carried
  <2>6. Fresh => Fresh'
    <3>1. \A g \in Sends : send'[g].pc = "update" => send'[g] = send[g]
      BY <1>2 DEF CheckOnline, NoSend, Send
    <3> QED
      BY <3>1, <2>1 DEF Fresh
  <2> QED
    BY <2>1, <2>2, <2>5, <2>6 DEF Last, ToldAll
<1>3. ASSUME NEW h \in Sends, Stamp(h) PROVE Last'
  <2>1. UNCHANGED <<sent, delivered>>
    BY <1>3 DEF Stamp
  <2>2. Carried'
    BY <1>3 DEF Stamp, Carried, Send
  <2> QED
    BY <2>1, <2>2 DEF Last
<1>4. ASSUME NEW h \in Sends, UpdateDelivered(h) PROVE Last'
  <2>1. UNCHANGED <<sent, online, told, fill>> /\ delivered' = send[h].upTo
    BY <1>4 DEF UpdateDelivered
  <2>2. CASE send[h].upTo = Now
    <3>1. Carried'
      BY <1>4, <2>2 DEF UpdateDelivered, Carried, Send
    <3> QED
      BY <3>1 DEF Last
  <2>3. CASE send[h].upTo < Now
    <3>1. ~Fresh
      BY <1>4, <2>3 DEF UpdateDelivered, Fresh
    <3>2. \A g \in Sends : g # h => send'[g] = send[g]
      BY <1>4 DEF UpdateDelivered
    <3>3. Carried => Carried'
      BY <3>2, <2>1, <2>3 DEF Carried
    <3>4. Coming => Coming'
      BY <3>2, <2>1, <1>4 DEF Coming, UpdateDelivered
    <3> QED
      BY <3>1, <3>3, <3>4, <2>1, <2>3, OlderWrite
  <2> QED
    BY <2>2, <2>3
<1>5. ASSUME NEW h \in Sends, EmitDelivered(h) PROVE Last'
  <2>1. UNCHANGED <<sent, online, delivered, fill>>
    BY <1>5 DEF EmitDelivered
  <2>2. \A s \in Senders : told'[s] \in Nat /\ told'[s] >= told[s]
    BY <1>5 DEF EmitDelivered, Later
  <2>3. \A g \in Sends : g # h => send'[g] = send[g]
    BY <1>5 DEF EmitDelivered
  <2>4. send[h].pc = "emit" /\ send'[h].pc = "idle"
    BY <1>5 DEF EmitDelivered, NoSend
  <2>5. ToldAll => ToldAll'
    BY <2>1, <2>2 DEF ToldAll
  <2>6. Fresh => Fresh'
    BY <2>1, <2>3, <2>4 DEF Fresh
  <2>7. Coming => Coming'
    BY <2>1, <2>3, <2>4 DEF Coming
  <2>8. Carried => Carried' \/ ToldAll'
    <3>1. CASE send[h].upTo = Now
      <4>1. send[h].by \in Senders
        BY <2>4 DEF ReceiptsTypeOK
      <4>2. told'[send[h].by] >= Now
        BY <3>1, <4>1, <1>5 DEF EmitDelivered, Later
      <4>3. \A s \in Senders : s = send[h].by
        BY <4>1 DEF Direct
      <4> QED
        BY <4>2, <4>3, <2>1 DEF ToldAll
    <3>2. CASE send[h].upTo # Now
      BY <3>2, <2>1, <2>3 DEF Carried
    <3> QED
      BY <3>1, <3>2
  <2> QED
    BY <2>1, <2>5, <2>6, <2>7, <2>8 DEF Last
<1>6. ASSUME NEW c \in Connections, Connect(c) PROVE Last'
  <2>1. UNCHANGED <<sent, delivered, told, send>>
    BY <1>6 DEF Connect
  <2>2. Coming'
    BY <1>6 DEF Connect, Coming, Fill
  <2>3. \A d \in Connections : /\ fill'[d].pc \in {"advance", "fan"} => fill'[d] = fill[d]
                               /\ fill[d].pc \in {"advance", "fan"} => fill'[d] = fill[d]
    BY <1>6 DEF Connect, Fill
  <2>4. (Carried => Carried') /\ (Fresh => Fresh')
    BY <2>1, <2>3 DEF Carried, Fresh
  <2> QED
    BY <2>1, <2>2, <2>4 DEF Last, ToldAll
<1>7. CASE Disconnect
  BY <1>7 DEF Disconnect, Last, ToldAll, Carried, Fresh
<1>8. ASSUME NEW c \in Connections, QueryUndelivered(c) PROVE Last'
  <2>1. UNCHANGED <<sent, online, delivered, told, send>>
    BY <1>8 DEF QueryUndelivered
  <2>2. CASE Now > delivered
    <3>1. Carried'
      BY <1>8, <2>1, <2>2 DEF QueryUndelivered, Carried
    <3> QED
      BY <3>1 DEF Last
  <2>3. CASE ~(Now > delivered)
    <3>1. delivered' = Len(sent')
      BY <2>1, <2>3
    <3>2. \A d \in Connections : fill'[d].pc # "query" => (fill'[d] = fill[d] \/ fill'[d] = NoFill)
      BY <1>8, <2>3 DEF QueryUndelivered
    <3>3. \A d \in Connections : fill[d].pc \in {"advance", "fan"} => fill'[d] = fill[d]
      BY <1>8, <2>3 DEF QueryUndelivered
    <3>4. (Carried => Carried') /\ (Fresh => Fresh')
      BY <2>1, <3>2, <3>3 DEF Carried, Fresh, NoFill
    <3> QED
      BY <2>1, <3>1, <3>4 DEF Last, ToldAll
  <2> QED
    BY <2>2, <2>3
<1>9. ASSUME NEW c \in Connections, AdvanceDelivered(c) PROVE Last'
  <2>1. UNCHANGED <<sent, online, told, send>> /\ delivered' = fill[c].upTo - 1
    BY <1>9 DEF AdvanceDelivered
  <2>2. CASE fill[c].upTo = Now
    <3>1. Carried'
      BY <1>9, <2>2 DEF AdvanceDelivered, Carried, Fill
    <3> QED
      BY <3>1 DEF Last
  <2>3. CASE fill[c].upTo < Now
    <3>1. ~Fresh
      BY <1>9, <2>3 DEF AdvanceDelivered, Fresh
    <3>2. \A d \in Connections : d # c => fill'[d] = fill[d]
      BY <1>9 DEF AdvanceDelivered
    <3>3. Carried => Carried'
      BY <3>2, <2>1, <2>3 DEF Carried
    <3>4. Coming => Coming'
      BY <3>2, <2>1, <1>9 DEF Coming, AdvanceDelivered
    <3> QED
      BY <3>1, <3>3, <3>4, <2>1, <2>3, OlderWrite
  <2> QED
    BY <2>2, <2>3
<1>10. ASSUME NEW c \in Connections, FanDelivered(c) PROVE Last'
  <2>1. UNCHANGED <<sent, online, delivered, send>>
    BY <1>10 DEF FanDelivered
  <2>2. \A s \in Senders : /\ told'[s] \in Nat /\ told'[s] >= told[s]
                           /\ told'[s] >= fill[c].upTo
    BY <1>10 DEF FanDelivered, Later
  <2>3. \A d \in Connections : d # c => fill'[d] = fill[d]
    BY <1>10 DEF FanDelivered
  <2>4. fill[c].pc = "fan" /\ fill'[c].pc = "idle"
    BY <1>10 DEF FanDelivered, NoFill
  <2>5. ToldAll => ToldAll'
    BY <2>1, <2>2 DEF ToldAll
  <2>6. Fresh => Fresh'
    BY <2>1, <2>3, <2>4 DEF Fresh
  <2>7. Coming => Coming'
    BY <2>1, <2>3, <2>4 DEF Coming
  <2>8. Carried => Carried' \/ ToldAll'
    <3>1. CASE fill[c].upTo = Now
      BY <3>1, <2>1, <2>2 DEF ToldAll
    <3>2. CASE fill[c].upTo # Now
      BY <3>2, <2>1, <2>3 DEF Carried
    <3> QED
      BY <3>1, <3>2
  <2> QED
    BY <2>1, <2>5, <2>6, <2>7, <2>8 DEF Last
<1>11. ASSUME NEW o \in Opens, MarkRead(o) \/ OpenStep(o) PROVE Last'
  <2>1. UNCHANGED <<sent, online, delivered, told, send, fill>>
    BY <1>11 DEF MarkRead, OpenStep, ClaimRead, EmitRead, OpenFails
  <2> QED
    BY <2>1 DEF Last, ToldAll, Carried, Coming, Fresh
<1>13. CASE UNCHANGED receiptsVars
  BY <1>13 DEF receiptsVars, Last, ToldAll, Carried, Coming, Fresh
<1> QED
  BY <1>1, <1>2, <1>3, <1>4, <1>5, <1>6, <1>7, <1>8, <1>9, <1>10, <1>11,
     <1>13 DEF ReceiptsNext, SendStep, FillStep

\* The invariant: of the last message, unless a failure came after it.
Kept == lost = Now \/ Last

LEMMA KeptStep == ASSUME Direct, ReceiptsTypeOK, Kept, [ReceiptsNext]_receiptsVars PROVE Kept'
<1>0. Len(sent) \in Nat /\ delivered \in Nat /\ delivered <= Len(sent)
  BY BoundAssumption DEF ReceiptsTypeOK, Time
<1>1. CASE (\E h \in Sends : SendFails(h)) \/ \E c \in Connections : FillFails(c)
  <2>1. lost' = Now /\ sent' = sent
    BY <1>1 DEF SendFails, FillFails
  <2> QED
    BY <2>1 DEF Kept, Now
<1>2. CASE \E h \in Sends, s \in Senders : Insert(h, s)
  <2>1. PICK h \in Sends, s \in Senders : Insert(h, s)
    BY <1>2
  <2>2. Len(sent') = Len(sent) + 1 /\ delivered' = delivered
    BY <2>1 DEF Insert, ReceiptsTypeOK
  <2>3. Coming'
    BY <2>1 DEF Insert, Coming, NoSend, Send, ReceiptsTypeOK
  <2> QED
    BY <1>0, <2>2, <2>3 DEF Kept, Last, Now
<1>3. CASE \E c \in Connections : Connect(c) /\ AtRest
  <2>1. PICK c \in Connections : Connect(c) /\ AtRest
    BY <1>3
  <2>2. send' = send /\ \A d \in Connections : fill'[d].pc \in {"idle", "query"}
    BY <2>1 DEF Connect, AtRest, Fill, ReceiptsTypeOK
  <2>3. Fresh'
    BY <2>1, <2>2 DEF Fresh, AtRest
  <2>4. Coming'
    BY <2>1 DEF Connect, Coming, Fill, ReceiptsTypeOK
  <2> QED
    BY <2>3, <2>4 DEF Kept, Last
<1>4. CASE /\ ~\E h \in Sends : SendFails(h) \/ \E s \in Senders : Insert(h, s)
           /\ ~\E c \in Connections : FillFails(c) \/ (Connect(c) /\ AtRest)
  <2>1. UNCHANGED <<sent, lost>>
    BY <1>4 DEF ReceiptsNext, receiptsVars, SendStep, FillStep, OpenStep, CheckOnline, Stamp,
       UpdateDelivered, EmitDelivered, Connect, QueryUndelivered, AdvanceDelivered,
       FanDelivered, Disconnect, MarkRead, ClaimRead, EmitRead, OpenFails
  <2>2. CASE Last
    <3>1. Last'
      BY <1>4, <2>2, LastStep
    <3> QED
      BY <3>1 DEF Kept
  <2>3. CASE lost = Now
    BY <2>1, <2>3 DEF Kept, Now
  <2> QED
    BY <2>2, <2>3 DEF Kept
<1> QED
  BY <1>1, <1>2, <1>3, <1>4

\* In every 1:1 conversation, when nothing is in flight and the reader is
\* connected, each message is known to be delivered, by event or by watermark,
\* but for those sent by the time of the last failure, and for those only until
\* a connection of the reader with no send or back-fill under way.
THEOREM NoReceiptLost == ASSUME Direct PROVE ReceiptsSpec => []DeliveryKept
<1>1. ReceiptsTypeOK /\ Kept => DeliveryKept
  <2> SUFFICES ASSUME ReceiptsTypeOK, Kept, AtRest, online, NEW m \in (lost + 1)..Now
               PROVE  told[sent[m]] >= m \/ delivered >= m
    BY DEF DeliveryKept
  <2>0. Len(sent) \in Nat /\ lost \in Nat
    BY BoundAssumption DEF ReceiptsTypeOK, Time
  <2>4. m \in 1..Now /\ lost # Now
    BY <2>0 DEF Now
  <2>1. ToldAll \/ delivered = Now
    BY <2>4 DEF Kept, Last, AtRest, Carried, Coming
  <2>2. sent[m] \in Senders
    BY <2>4 DEF ReceiptsTypeOK, Now
  <2>3. told[sent[m]] \in Nat
    BY <2>2, BoundAssumption DEF ReceiptsTypeOK, Time
  <2> QED
    BY <2>0, <2>1, <2>2, <2>3, <2>4 DEF ToldAll, Now
<1>2. Direct /\ ReceiptsTypeOK /\ Kept /\ [ReceiptsNext]_receiptsVars => Kept'
  BY KeptStep
<1>3. ReceiptsInit => Kept
  BY LastInit DEF Kept
<1> QED
  BY <1>1, <1>2, <1>3, TypeCorrect, PTL DEF ReceiptsSpec

-----------------------------------------------------------------------------
(* Files *)

\* The steps of a confirm whose picture is public.
Granted == {"old", "delete", "write"}

\* What a confirm carries belongs to the step it is at.
Confirming(x) ==
    /\ x.pc # "idle" => x.key \in U!Handed
    /\ x.pc = "publish" => x.key \in fit
    /\ x.pc \in Granted => kind[x.key] = "picture"
    /\ x.pc = "delete" => x.old # 0
    /\ x.old # 0 => x.old \in U!Handed /\ kind[x.old] = "picture"

\* Only files that fit are public, and what a takedown has yet to move is still named.
FilesTyped ==
    /\ U!TypeOK
    /\ \A c \in Slots : Confirming(confirm[c])
    /\ public \subseteq fit
    /\ \A k \in stored : kind[k] = "picture" => k \in fit
    /\ removal.todo \subseteq attached
    /\ IF removal.pc = "idle" THEN removal.todo = {} ELSE attached # {}

Picturing(c) == confirm[c].pc # "idle" /\ kind[confirm[c].key] = "picture"

\* One confirm at a time has a picture that the row does not name yet; and a file that
\* a takedown began on is in the bucket no more, unless the bucket kept it or it is yet
\* to be moved.
PictureKept ==
    /\ \A c, d \in Slots : Picturing(c) /\ Picturing(d) => c = d
    /\ \A c \in Slots : Picturing(c) =>
         /\ confirm[c].key # url
         /\ confirm[c].pc \in {"head", "publish"} => confirm[c].key \notin public \ spared
         /\ confirm[c].pc \in Granted => confirm[c].key \in public
         /\ confirm[c].pc \in {"delete", "write"} => confirm[c].old = url
         /\ confirm[c].pc = "write" => confirm[c].old \notin public \ spared
    /\ url # 0 => url \in public \/ \E c \in Slots : Picturing(c) /\ confirm[c].pc = "write"
    /\ \A k \in public \ spared : kind[k] = "picture" =>
         k = url \/ \E c \in Slots : Picturing(c) /\ confirm[c].key = k
    /\ (downed \cap stored) \ spared \subseteq removal.todo

FilesKept == FilesTyped /\ (clumsy \/ PictureKept)

-----------------------------------------------------------------------------
(* The catalogue *)

\* Rows are numbered apart, in the order they were made.
Listed(t) == {p \in Products : t[p].id # 0}
Numbered(t) ==
    /\ \A p \in Products : t[p].id <= Cardinality(Listed(t))
    /\ \A p, q \in Listed(t) : t[p].id = t[q].id => p = q

\* A run has fetched no more than it has turned pages, and a calm one what the shop has.
Fetched(x) ==
    /\ x.at = "fetch" => Len(x.seen) < x.page
    /\ x.calm /\ x.at # "idle" =>
         /\ Len(x.seen) <= Len(shop)
         /\ \A i \in 1..Len(x.seen) : x.seen[i] = shop[i]
         /\ x.fit = C!ToSet(x.seen) \ sold
    /\ x.calm /\ x.at = "fetch" => Len(x.seen) = x.page - 1
    /\ x.calm /\ x.at \in {"upsert", "reconcile"} =>
         Len(x.seen) \in {Len(shop), PageBound}
    /\ x.calm /\ x.at = "reconcile" =>
         \A p \in C!ToSet(x.seen) :
           product[p].id # 0 /\ ~product[p].delisted /\ (product[p].available <=> p \in x.fit)

\* What a reader has yet to see lies behind the cursor, what they saw does not.
Walked(v) ==
    /\ C!IsInjective(v.got)
    /\ v.steady \subseteq C!OnSale(product)
    /\ \A p \in C!ToSet(v.got) : product[p].id # 0 /\ product[p].id >= v.cursor
    /\ v.at = "more" =>
         /\ v.cursor # 0
         /\ \A p \in v.steady \ C!ToSet(v.got) : product[p].id < v.cursor
    /\ v.at = "done" => v.steady \subseteq C!ToSet(v.got)

CatalogKept ==
    C!TypeOK /\ Numbered(product) /\ (\A s \in Slots : Fetched(sync[s])) /\ Walked(reader) /\ C!CatalogFollowsShop

-----------------------------------------------------------------------------
(* The jobs *)

Posted == {j \in Options : posting[j].id # 0}

PostedApart ==
    /\ \A j \in Options : posting[j].id <= Cardinality(Posted)
    /\ \A j, k \in Posted : posting[j].id = posting[k].id => j = k

\* Of what has stood still, a reader saw what does not come before the cursor.
JobsWalked(w) ==
    /\ \A j \in w.still : F!InFeed(j)
    /\ w.still \cap w.twice = {}
    /\ \A j \in w.still \cap w.got : ~F!Before(posting[j], w.last)
    /\ w.at = "more" =>
         w.last.id # 0 /\ \A j \in w.still \ w.got : F!Before(posting[j], w.last)
    /\ w.at = "done" => w.still \subseteq w.got

JobsKept == F!TypeOK /\ PostedApart /\ JobsWalked(walk)


-----------------------------------------------------------------------------
(* The process *)

\* Once the pool is closed, no query is left.
ProcessKept ==
    /\ P!TypeOK
    /\ step = "exit" \/ process = "clean" =>
         pool = "closed" /\ \A w \in Slots : work[w] # "query"

-----------------------------------------------------------------------------
(* All of it *)

PlatformKept ==
    /\ piece \in {"uploads", "catalog", "sync overlap", "jobs", "process"}
    /\ FilesKept /\ CatalogKept /\ JobsKept /\ ProcessKept

-----------------------------------------------------------------------------
(* Proofs about the files *)

\* No files, no confirms.
LEMMA InitFiles == U!Init => FilesKept
<1>. SUFFICES ASSUME U!Init PROVE FilesKept
  OBVIOUS
<1>1. U!NoConfirm \in U!Confirm
  BY SizesAssumption DEF U!NoConfirm, U!Confirm
<1>2. U!TypeOK
  <2>1. 0 \in 0..HourBound /\ confirm \in [Slots -> U!Confirm]
    BY <1>1, SizesAssumption DEF U!Init
  <2>2. kind \in [U!Keys -> U!Kind \cup {"none"}]
    BY DEF U!Init
  <2>. QED  BY <2>1, <2>2, Zenon DEF U!Init, U!TypeOK
<1>3. \A c \in Slots : confirm[c] = U!NoConfirm /\ U!NoConfirm.pc = "idle" /\ U!NoConfirm.old = 0
  BY DEF U!Init, U!NoConfirm
<1>4. FilesTyped
  BY <1>2, <1>3 DEF U!Init, FilesTyped, Confirming, Granted
<1>5. PictureKept
  BY <1>3 DEF U!Init, PictureKept, Picturing
<1>. QED  BY <1>4, <1>5 DEF FilesKept

\* A confirm that goes on, and the one that ends.
LEMMA ConfirmSteps ==
    ASSUME confirm \in [Slots -> U!Confirm], NEW c \in Slots
    PROVE  /\ U!NoConfirm \in U!Confirm /\ U!NoConfirm.pc = "idle" /\ U!NoConfirm.old = 0
           /\ U!NoConfirm.key = 0
           /\ U!Close(c) => /\ confirm' \in [Slots -> U!Confirm] /\ confirm'[c] = U!NoConfirm
                            /\ \A d \in Slots \ {c} : confirm'[d] = confirm[d]
           /\ \A pc \in {"head", "publish", "old", "delete", "write"} :
                U!Goto(c, pc) => /\ confirm' \in [Slots -> U!Confirm]
                                 /\ confirm'[c].pc = pc /\ confirm'[c].key = confirm[c].key
                                 /\ confirm'[c].old = confirm[c].old
                                 /\ \A d \in Slots \ {c} : confirm'[d] = confirm[d]
<1>1. U!NoConfirm \in U!Confirm /\ U!NoConfirm.pc = "idle" /\ U!NoConfirm.old = 0 /\ U!NoConfirm.key = 0
  BY SizesAssumption DEF U!NoConfirm, U!Confirm
<1>. QED  BY <1>1 DEF U!Close, U!Goto, U!Confirm

\* The steps that leave the confirms alone.
LEMMA FilesRest ==
    ASSUME FilesTyped, UNCHANGED confirm,
           \/ \E k \in U!Keys : \E what \in U!Kind : U!Presign(k, what)
           \/ \E k \in U!Keys, fits \in BOOLEAN : U!Put(k, fits)
           \/ \E k \in U!Keys : U!Attach(k) \/ U!Quarantine(k)
           \/ U!NextHour \/ U!StartTakedown \/ U!FinishTakedown
    PROVE  FilesTyped'
<1>1. ASSUME NEW k \in U!Keys, NEW what \in U!Kind, U!Presign(k, what) PROVE FilesTyped'
  BY <1>1, SizesAssumption DEF U!Presign, FilesTyped, U!TypeOK, U!Handed, U!Keys, U!Kind, Confirming, Granted
<1>2. ASSUME NEW k \in U!Keys, NEW fits \in BOOLEAN, U!Put(k, fits) PROVE FilesTyped'
  BY <1>2 DEF U!Put, FilesTyped, U!TypeOK, U!Handed, U!Keys, U!Kind, Confirming, Granted
<1>3. ASSUME NEW k \in U!Keys, U!Attach(k) PROVE FilesTyped'
  BY <1>3 DEF U!Attach, FilesTyped, U!TypeOK, U!Handed, U!Keys, U!Kind, Confirming, Granted
<1>4. ASSUME NEW k \in U!Keys, U!Quarantine(k) PROVE FilesTyped'
  BY <1>4 DEF U!Quarantine, FilesTyped, U!TypeOK, U!Handed, U!Keys, U!Kind, Confirming, Granted
<1>5. ASSUME U!NextHour PROVE FilesTyped'
  BY <1>5, SizesAssumption DEF U!NextHour, FilesTyped, U!TypeOK, U!Handed, Confirming, Granted
<1>6. ASSUME U!StartTakedown PROVE FilesTyped'
  <2>1. /\ attached # {} /\ removal' = [pc |-> "move", todo |-> attached] /\ downed' = downed \cup attached
        /\ attached \subseteq U!Keys
        /\ UNCHANGED <<kind, fit, stored, public, url, attached, started, confirm, spared, clumsy>>
    BY <1>6 DEF U!StartTakedown, FilesTyped, U!TypeOK
  <2>2. /\ removal' \in [pc : {"idle", "move"}, todo : SUBSET U!Keys]
        /\ removal'.pc = "move" /\ removal'.todo = attached
    BY <2>1
  <2>3. spared' \cup downed' \subseteq U!Keys
    BY <2>1 DEF FilesTyped, U!TypeOK
  <2>4. \A c \in Slots : Confirming(confirm[c])'
    BY <2>1 DEF FilesTyped, Confirming, U!Handed
  <2>. QED  BY <2>1, <2>2, <2>3, <2>4 DEF FilesTyped, U!TypeOK, U!Handed
<1>7. ASSUME U!FinishTakedown PROVE FilesTyped'
  BY <1>7 DEF U!FinishTakedown, FilesTyped, U!TypeOK, U!Handed, U!Keys, U!Kind, Confirming, Granted
<1>. QED  BY <1>1, <1>2, <1>3, <1>4, <1>5, <1>6, <1>7

\* A confirm begins.
LEMMA StartTypes ==
    ASSUME FilesTyped, NEW c \in Slots, NEW k \in U!Keys, U!StartConfirm(c, k)
    PROVE  FilesTyped'
<1>. DEFINE x == [U!NoConfirm EXCEPT !.pc = "head", !.key = k]
<1>1. x \in U!Confirm /\ x.pc = "head" /\ x.key = k /\ x.old = 0
  <2>1. U!NoConfirm \in U!Confirm /\ k \in 0..KeyBound /\ U!NoConfirm.old = 0
    BY SizesAssumption DEF U!NoConfirm, U!Confirm, U!Keys
  <2>. QED  BY <2>1 DEF U!Confirm
<1>2. confirm' = [confirm EXCEPT ![c] = x]
  BY Zenon DEF U!StartConfirm
<1>. HIDE DEF x
<1>3. confirm' \in [Slots -> U!Confirm] /\ confirm'[c] = x
      /\ \A d \in Slots \ {c} : confirm'[d] = confirm[d]
  BY <1>1, <1>2 DEF FilesTyped, U!TypeOK
<1>4. \A d \in Slots : Confirming(confirm[d])'
  BY <1>1, <1>3 DEF U!StartConfirm, FilesTyped, Confirming, Granted, U!Handed
<1>5. clumsy' \in BOOLEAN
  BY DEF U!StartConfirm, FilesTyped, U!TypeOK
<1>. QED  BY <1>3, <1>4, <1>5 DEF U!StartConfirm, FilesTyped, U!TypeOK, U!Handed

\* A confirm goes on.
LEMMA ConfirmTypes ==
    ASSUME FilesTyped, NEW c \in Slots,
           U!CheckHead(c) \/ U!Publish(c) \/ U!ReadOld(c) \/ U!DeleteOld(c) \/ U!WriteUrl(c)
    PROVE  FilesTyped'
<1>. DEFINE k == confirm[c].key
            o == confirm[c].old
<1>1. /\ confirm \in [Slots -> U!Confirm] /\ confirm[c] \in U!Confirm
      /\ \A d \in Slots : Confirming(confirm[d])
      /\ kind \in [U!Keys -> U!Kind \cup {"none"}]
  BY DEF FilesTyped, U!TypeOK
<1>2. ASSUME U!CheckHead(c) PROVE FilesTyped'
  <2>1. \/ k \notin stored /\ U!Close(c) /\ UNCHANGED <<stored, public, spared>>
        \/ k \in fit /\ U!Goto(c, "publish") /\ UNCHANGED <<stored, public, spared>>
        \/ k \notin fit /\ U!Close(c) /\ UNCHANGED <<stored, public, spared>>
        \/ /\ k \notin fit /\ U!Close(c)
           /\ \/ stored' = stored \ {k} /\ public' = public \ {k} /\ UNCHANGED spared
              \/ spared' = spared \cup {k} /\ UNCHANGED <<stored, public>>
    BY <1>1, <1>2 DEF U!CheckHead, FilesTyped, Confirming, U!Handed, U!Kind
  <2>2. confirm[c].pc = "head" /\ k \in U!Handed
        /\ UNCHANGED <<kind, fit, url, attached, started, removal, downed, clumsy>>
    BY <1>1, <1>2 DEF U!CheckHead, Confirming
  <2>3. confirm' \in [Slots -> U!Confirm] /\ \A d \in Slots : Confirming(confirm[d])'
    BY <1>1, <2>1, <2>2, ConfirmSteps DEF Confirming, Granted, U!Handed
  <2>. QED  BY <2>1, <2>2, <2>3 DEF FilesTyped, U!TypeOK, U!Handed
<1>3. ASSUME U!Publish(c) PROVE FilesTyped'
  <2>1. confirm[c].pc = "publish" /\ k \in fit
        /\ public' = public \cup ({k} \cap stored)
        /\ UNCHANGED <<kind, fit, stored, url, attached, started, removal, spared, downed, clumsy>>
        /\ ((kind[k] = "picture" /\ k \in stored /\ U!Goto(c, "old")) \/ U!Close(c))
    BY <1>1, <1>3 DEF U!Publish, Confirming
  <2>2. confirm' \in [Slots -> U!Confirm] /\ \A d \in Slots : Confirming(confirm[d])'
    BY <1>1, <2>1, ConfirmSteps DEF Confirming, Granted, U!Handed
  <2>. QED  BY <2>1, <2>2 DEF FilesTyped, U!TypeOK, U!Handed
<1>4. ASSUME U!ReadOld(c) PROVE FilesTyped'
  <2>. DEFINE x == [confirm[c] EXCEPT !.old = url, !.pc = IF url = 0 THEN "write" ELSE "delete"]
  <2>1. x \in U!Confirm /\ x.key = k /\ x.old = url
        /\ x.pc = (IF url = 0 THEN "write" ELSE "delete")
    <3>1. url \in 0..KeyBound
      BY SizesAssumption DEF FilesTyped, U!TypeOK, U!Keys
    <3>. QED  BY <1>1, <3>1 DEF U!Confirm
  <2>2. confirm[c].pc = "old" /\ confirm' = [confirm EXCEPT ![c] = x]
        /\ UNCHANGED <<kind, fit, stored, public, url, attached, started, removal, spared, downed, clumsy>>
    BY <1>4 DEF U!ReadOld
  <2>. HIDE DEF x
  <2>3. confirm' \in [Slots -> U!Confirm] /\ confirm'[c] = x
        /\ \A d \in Slots \ {c} : confirm'[d] = confirm[d]
    BY <1>1, <2>1, <2>2
  <2>4. \A d \in Slots : Confirming(confirm[d])'
    BY <1>1, <2>1, <2>2, <2>3 DEF Confirming, Granted, U!Handed, FilesTyped, U!TypeOK, U!Keys
  <2>. QED  BY <2>2, <2>3, <2>4 DEF FilesTyped, U!TypeOK, U!Handed
<1>5. ASSUME U!DeleteOld(c) PROVE FilesTyped'
  <2>1. confirm[c].pc = "delete" /\ U!Goto(c, "write") /\ o \in U!Handed
        /\ UNCHANGED <<kind, fit, url, attached, started, removal, downed, clumsy>>
        /\ \/ stored' = stored \ {o} /\ public' = public \ {o} /\ UNCHANGED spared
           \/ spared' = spared \cup {o} /\ UNCHANGED <<stored, public>>
    BY <1>1, <1>5 DEF U!DeleteOld, Confirming
  <2>2. confirm' \in [Slots -> U!Confirm] /\ \A d \in Slots : Confirming(confirm[d])'
    BY <1>1, <2>1, ConfirmSteps DEF Confirming, Granted, U!Handed
  <2>. QED  BY <2>1, <2>2 DEF FilesTyped, U!TypeOK, U!Handed
<1>6. ASSUME U!WriteUrl(c) PROVE FilesTyped'
  <2>1. confirm[c].pc = "write" /\ U!Close(c) /\ url' = k /\ kind[k] = "picture" /\ k \in U!Keys
        /\ UNCHANGED <<kind, fit, stored, public, attached, started, removal, spared, downed, clumsy>>
    BY <1>1, <1>6 DEF U!WriteUrl, Confirming, Granted, U!Handed
  <2>2. confirm' \in [Slots -> U!Confirm] /\ \A d \in Slots : Confirming(confirm[d])'
    BY <1>1, <2>1, ConfirmSteps DEF Confirming, Granted, U!Handed
  <2>. QED  BY <2>1, <2>2 DEF FilesTyped, U!TypeOK, U!Handed
<1>. QED  BY <1>2, <1>3, <1>4, <1>5, <1>6

\* The process stops.
LEMMA StopTypes == FilesTyped /\ U!Stop => FilesTyped'
<1>. SUFFICES ASSUME FilesTyped, U!Stop PROVE FilesTyped'
  OBVIOUS
<1>1. U!NoConfirm \in U!Confirm /\ U!NoConfirm.pc = "idle" /\ U!NoConfirm.old = 0
  BY SizesAssumption DEF U!NoConfirm, U!Confirm
<1>2. confirm' \in [Slots -> U!Confirm] /\ \A c \in Slots : confirm'[c] = U!NoConfirm
  BY <1>1 DEF U!Stop
<1>3. \A c \in Slots : Confirming(confirm[c])'
  BY <1>1, <1>2 DEF Confirming, Granted
<1>4. removal' \in [pc : {"idle", "move"}, todo : SUBSET U!Keys] /\ removal'.pc = "idle" /\ removal'.todo = {}
  BY DEF U!Stop
<1>5. started' \in 0..HourBound /\ clumsy' \in BOOLEAN
  BY SizesAssumption DEF U!Stop, FilesTyped, U!TypeOK
<1>. QED  BY <1>2, <1>3, <1>4, <1>5 DEF U!Stop, FilesTyped, U!TypeOK, U!Handed

\* The types of files are kept.
LEMMA FilesTypedStep == FilesTyped /\ [U!Next]_uvars => FilesTyped'
<1>. SUFFICES ASSUME FilesTyped, [U!Next]_uvars PROVE FilesTyped'
  OBVIOUS
<1>1. CASE U!Stop
  BY <1>1, StopTypes
<1>2. CASE \E c \in Slots, k \in U!Keys : U!StartConfirm(c, k)
  BY <1>2, StartTypes
<1>3. CASE \E c \in Slots :
             U!CheckHead(c) \/ U!Publish(c) \/ U!ReadOld(c) \/ U!DeleteOld(c) \/ U!WriteUrl(c)
  BY <1>3, ConfirmTypes, Zenon
<1>4. CASE /\ UNCHANGED confirm
           /\ \/ \E k \in U!Keys : \E what \in U!Kind : U!Presign(k, what)
              \/ \E k \in U!Keys, fits \in BOOLEAN : U!Put(k, fits)
              \/ \E k \in U!Keys : U!Attach(k) \/ U!Quarantine(k)
              \/ U!NextHour \/ U!StartTakedown \/ U!FinishTakedown
  BY <1>4, FilesRest
<1>5. CASE UNCHANGED uvars
  BY <1>5 DEF uvars, FilesTyped, U!TypeOK, U!Handed, Confirming
<1>. QED
  BY <1>1, <1>2, <1>3, <1>4, <1>5, Zenon DEF U!Next, U!Presign, U!Put, U!Attach, U!Quarantine,
     U!NextHour, U!StartTakedown, U!FinishTakedown

\* A picture that is not confirmed rests.
LEMMA PictureRest ==
    ASSUME FilesTyped, PictureKept, UNCHANGED confirm,
           \/ \E k \in U!Keys : \E what \in U!Kind : U!Presign(k, what)
           \/ \E k \in U!Keys, fits \in BOOLEAN : U!Put(k, fits)
           \/ \E k \in U!Keys : U!Attach(k) \/ U!Quarantine(k)
           \/ U!NextHour \/ U!StartTakedown \/ U!FinishTakedown
    PROVE  PictureKept'
<1>0. \A c \in Slots : (confirm[c].pc # "idle" => confirm[c].key \in U!Handed) /\ (confirm[c].old # 0 => kind[confirm[c].old] = "picture")
  BY DEF FilesTyped, Confirming
<1>1. ASSUME NEW k \in U!Keys, NEW what \in U!Kind, U!Presign(k, what) PROVE PictureKept'
  <2>1. kind' = [kind EXCEPT ![k] = what] /\ kind[k] = "none"
        /\ UNCHANGED <<fit, stored, public, url, attached, confirm, removal, spared, downed, clumsy>>
    BY <1>1, SizesAssumption DEF U!Presign, U!Keys
  <2>2. \A j \in U!Handed : kind'[j] = kind[j]
    BY <2>1 DEF FilesTyped, U!TypeOK, U!Handed
  <2>3. public \subseteq U!Handed
    BY DEF FilesTyped, U!TypeOK
  <2>4. \A c \in Slots : Picturing(c)' <=> Picturing(c)
    BY <1>0, <2>1, <2>2 DEF Picturing
  <2>. QED  BY <2>1, <2>2, <2>3, <2>4 DEF PictureKept
<1>2. ASSUME NEW k \in U!Keys, NEW fits \in BOOLEAN, U!Put(k, fits) PROVE PictureKept'
  BY <1>2 DEF U!Put, PictureKept, Picturing
<1>3. ASSUME NEW k \in U!Keys, U!Attach(k) PROVE PictureKept'
  BY <1>3 DEF U!Attach, PictureKept, Picturing
<1>4. ASSUME NEW k \in U!Keys, U!Quarantine(k) PROVE PictureKept'
  <2>1. kind[k] = "document" /\ removal.pc = "move" /\ removal'.pc = "move"
    BY <1>4 DEF U!Quarantine, FilesTyped, U!TypeOK
  <2>2. url # k /\ \A c \in Slots : Picturing(c) => confirm[c].key # k /\ confirm[c].old # k
    BY <1>0, <2>1, SizesAssumption DEF Picturing, FilesTyped, U!TypeOK, U!Keys
  <2>3. /\ UNCHANGED <<kind, url, attached, confirm>>
        /\ public \ {k} \subseteq public' /\ public' \ spared' \subseteq public \ spared
        /\ downed' = downed /\ stored' \ spared' \subseteq stored \ (spared \cup {k})
        /\ removal'.todo = removal.todo \ {k}
    BY <1>4 DEF U!Quarantine, FilesTyped, U!TypeOK
  <2>. QED  BY <2>1, <2>2, <2>3 DEF PictureKept, Picturing
<1>5. ASSUME U!NextHour \/ U!FinishTakedown PROVE PictureKept'
  BY <1>5 DEF U!NextHour, U!FinishTakedown, PictureKept, Picturing
<1>6. ASSUME U!StartTakedown PROVE PictureKept'
  <2>1. /\ removal.todo = {} /\ removal'.todo = attached /\ downed' = downed \cup attached
        /\ UNCHANGED <<kind, stored, public, url, confirm, spared>>
    BY <1>6 DEF U!StartTakedown, FilesTyped
  <2>. QED  BY <2>1 DEF PictureKept, Picturing
<1>. QED  BY <1>1, <1>2, <1>3, <1>4, <1>5, <1>6

\* A confirm begins on a picture that the row does not name, or is clumsy.
LEMMA PictureStarts ==
    ASSUME FilesTyped, PictureKept, ~clumsy', NEW c \in Slots, NEW k \in U!Keys, U!StartConfirm(c, k)
    PROVE  PictureKept'
<1>. DEFINE x == [U!NoConfirm EXCEPT !.pc = "head", !.key = k]
<1>1. x.pc = "head" /\ x.key = k
  BY DEF U!NoConfirm
<1>2. confirm' = [confirm EXCEPT ![c] = x] /\ confirm[c].pc = "idle"
      /\ UNCHANGED <<kind, fit, stored, public, url, attached, started, removal, spared, downed>>
  BY Zenon DEF U!StartConfirm
<1>. HIDE DEF x
<1>3. confirm'[c] = x /\ \A d \in Slots \ {c} : confirm'[d] = confirm[d]
  BY <1>1, <1>2 DEF FilesTyped, U!TypeOK
<1>4. kind[k] = "picture" => k # url /\ \A d \in Slots : confirm[d].pc = "idle"
  BY DEF U!StartConfirm
<1>5. \A d \in Slots : Picturing(d)' <=> IF d = c THEN kind[k] = "picture" ELSE Picturing(d)
  BY <1>1, <1>2, <1>3 DEF Picturing
<1>6. ~Picturing(c) /\ (kind[k] = "picture" => \A d \in Slots : ~Picturing(d))
  BY <1>2, <1>4 DEF Picturing
<1>7. CASE kind[k] = "picture"
  BY <1>1, <1>2, <1>3, <1>4, <1>5, <1>6, <1>7 DEF PictureKept, Granted
<1>8. CASE kind[k] # "picture"
  <2>1. \A d \in Slots : Picturing(d)' => d # c /\ Picturing(d) /\ confirm'[d] = confirm[d]
    BY <1>3, <1>5, <1>8
  <2>2. \A d \in Slots : Picturing(d) => Picturing(d)' /\ confirm'[d] = confirm[d]
    BY <1>3, <1>5, <1>6, <1>8
  <2>. QED  BY <1>2, <2>1, <2>2 DEF PictureKept, Granted
<1>. QED  BY <1>7, <1>8

\* A confirm that reads and publishes keeps its picture its own.
LEMMA PicturePublished ==
    ASSUME FilesTyped, PictureKept, NEW c \in Slots, U!CheckHead(c) \/ U!Publish(c) \/ U!ReadOld(c)
    PROVE  PictureKept'
<1>. DEFINE k == confirm[c].key
<1>1. /\ confirm \in [Slots -> U!Confirm] /\ confirm[c] \in U!Confirm
      /\ \A d \in Slots : Confirming(confirm[d])
      /\ kind \in [U!Keys -> U!Kind \cup {"none"}]
      /\ public \subseteq stored
  BY DEF FilesTyped, U!TypeOK
<1>2. ASSUME U!CheckHead(c) PROVE PictureKept'
  <2>1. confirm[c].pc = "head" /\ k \in U!Handed
        /\ UNCHANGED <<kind, fit, url, attached, started, removal, downed, clumsy>>
    BY <1>1, <1>2 DEF U!CheckHead, Confirming
  <2>2. \/ k \notin stored /\ U!Close(c) /\ UNCHANGED <<stored, public, spared>>
        \/ U!Goto(c, "publish") /\ UNCHANGED <<stored, public, spared>>
        \/ /\ kind[k] # "picture" /\ k \notin fit /\ U!Close(c)
           /\ public \ {k} \subseteq public' /\ public' \ spared' \subseteq public \ spared
           /\ stored' \ spared' \subseteq stored \ spared
    BY <1>1, <1>2 DEF U!CheckHead, FilesTyped, Confirming, U!Handed, U!Kind
  <2>3. \A d \in Slots \ {c} : confirm'[d] = confirm[d] /\ (Picturing(d)' <=> Picturing(d))
    BY <1>1, <2>1, <2>2, ConfirmSteps DEF Picturing
  <2>4. CASE k \notin stored /\ U!Close(c) /\ UNCHANGED <<stored, public, spared>>
    <3>1. ~Picturing(c)'
      BY <1>1, <2>4, ConfirmSteps DEF Picturing
    <3>. QED  BY <1>1, <2>1, <2>3, <2>4, <3>1 DEF PictureKept, Granted
  <2>5. CASE U!Goto(c, "publish") /\ UNCHANGED <<stored, public, spared>>
    <3>1. confirm'[c].pc = "publish" /\ confirm'[c].key = k /\ (Picturing(c)' <=> Picturing(c))
      BY <1>1, <2>1, <2>5, ConfirmSteps DEF Picturing
    <3>. QED  BY <1>1, <2>1, <2>3, <2>5, <3>1 DEF PictureKept, Granted
  <2>6. CASE /\ kind[k] # "picture" /\ k \notin fit /\ U!Close(c)
             /\ public \ {k} \subseteq public' /\ public' \ spared' \subseteq public \ spared
             /\ stored' \ spared' \subseteq stored \ spared
    <3>1. ~Picturing(c)' /\ ~Picturing(c)
      BY <1>1, <2>6, ConfirmSteps DEF Picturing
    <3>2. k \notin public
      BY <2>6 DEF FilesTyped
    <3>3. stored' \ spared' \subseteq stored \ spared
      BY <2>6
    <3>. QED  BY <1>1, <2>1, <2>3, <2>6, <3>1, <3>2, <3>3 DEF PictureKept, Granted
  <2>. QED  BY <2>2, <2>4, <2>5, <2>6
<1>3. ASSUME U!Publish(c) PROVE PictureKept'
  <2>1. confirm[c].pc = "publish"
        /\ public' = public \cup ({k} \cap stored)
        /\ UNCHANGED <<kind, fit, stored, url, attached, started, removal, spared, downed, clumsy>>
        /\ IF k \in stored /\ kind[k] = "picture" THEN U!Goto(c, "old") ELSE U!Close(c)
    BY <1>3, Zenon DEF U!Publish
  <2>2. \A d \in Slots \ {c} : confirm'[d] = confirm[d] /\ (Picturing(d)' <=> Picturing(d))
    BY <1>1, <2>1, ConfirmSteps DEF Picturing
  <2>3. CASE k \in stored /\ kind[k] = "picture"
    <3>1. confirm'[c].pc = "old" /\ confirm'[c].key = k /\ Picturing(c)' /\ Picturing(c)
      BY <1>1, <2>1, <2>3, ConfirmSteps DEF Picturing
    <3>. QED  BY <1>1, <2>1, <2>2, <2>3, <3>1 DEF PictureKept, Granted
  <2>4. CASE ~(k \in stored /\ kind[k] = "picture")
    <3>1. ~Picturing(c)'
      BY <1>1, <2>1, <2>4, ConfirmSteps DEF Picturing
    <3>2. Picturing(c) => public' = public /\ k \notin public
      BY <1>1, <2>1, <2>4 DEF Picturing
    <3>3. \A j \in public' : j \in public \/ kind[j] # "picture"
      BY <1>1, <2>1, <2>4
    <3>4. ~Picturing(c) => kind[k] # "picture"
      BY <2>1 DEF Picturing
    <3>5. CASE Picturing(c)
      <4>1. public' = public /\ k \notin public /\ \A d \in Slots : ~Picturing(d)'
        BY <2>2, <3>1, <3>2, <3>5 DEF PictureKept
      <4>2. url # 0 => url \in public
        BY <2>1, <3>5 DEF PictureKept
      <4>3. \A j \in public \ spared : kind[j] = "picture" => j = url
        BY <3>5, <4>1 DEF PictureKept
      <4>. QED  BY <2>1, <4>1, <4>2, <4>3 DEF PictureKept
    <3>6. CASE ~Picturing(c)
      <4>1. \A d \in Slots : (Picturing(d)' <=> Picturing(d)) /\ (Picturing(d) => confirm'[d] = confirm[d])
        BY <2>2, <3>1, <3>6
      <4>2. public \subseteq public' /\ \A d \in Slots : Picturing(d) => confirm[d].key # k
        BY <2>1, <3>4, <3>6 DEF Picturing
      <4>3. \A d \in Slots : confirm[d].old # 0 => confirm[d].old # k
        BY <1>1, <3>4, <3>6 DEF Confirming
      <4>4. 0 \notin public' /\ public' \subseteq public \cup {k}
        BY <1>1, <2>1, SizesAssumption DEF FilesTyped, U!TypeOK, U!Handed, U!Keys
      <4>. QED  BY <2>1, <3>3, <4>1, <4>2, <4>3, <4>4 DEF PictureKept
    <3>. QED  BY <3>5, <3>6
  <2>. QED  BY <2>3, <2>4
<1>4. ASSUME U!ReadOld(c) PROVE PictureKept'
  <2>1. /\ confirm[c].pc = "old" /\ confirm'[c].key = k /\ confirm'[c].old = url
        /\ confirm'[c].pc = (IF url = 0 THEN "write" ELSE "delete")
        /\ UNCHANGED <<kind, fit, stored, public, url, attached, started, removal, spared, downed, clumsy>>
    BY <1>1, <1>4 DEF U!ReadOld, U!Confirm
  <2>2. \A d \in Slots \ {c} : confirm'[d] = confirm[d] /\ (Picturing(d)' <=> Picturing(d))
    BY <1>1, <1>4, <2>1 DEF U!ReadOld, Picturing
  <2>3. Picturing(c)' /\ Picturing(c)
    BY <1>1, <2>1 DEF Picturing, Confirming, Granted
  <2>4. 0 \notin public
    BY <1>1, SizesAssumption DEF FilesTyped, U!TypeOK, U!Handed, U!Keys
  <2>. QED  BY <1>1, <2>1, <2>2, <2>3, <2>4 DEF PictureKept, Granted
<1>. QED  BY <1>2, <1>3, <1>4

\* The last picture goes, and the row names the next.
LEMMA PictureWritten ==
    ASSUME FilesTyped, PictureKept, NEW c \in Slots, U!DeleteOld(c) \/ U!WriteUrl(c)
    PROVE  PictureKept'
<1>. DEFINE k == confirm[c].key
            o == confirm[c].old
<1>1. /\ confirm \in [Slots -> U!Confirm] /\ confirm[c] \in U!Confirm
      /\ \A d \in Slots : Confirming(confirm[d])
      /\ \A j \in attached : kind[j] = "document"
  BY DEF FilesTyped, U!TypeOK
<1>2. ASSUME U!DeleteOld(c) PROVE PictureKept'
  <2>1. confirm[c].pc = "delete" /\ U!Goto(c, "write") /\ kind[o] = "picture"
        /\ UNCHANGED <<kind, fit, url, attached, started, removal, downed, clumsy>>
        /\ \/ stored' = stored \ {o} /\ public' = public \ {o} /\ UNCHANGED spared
           \/ spared' = spared \cup {o} /\ UNCHANGED <<stored, public>>
    BY <1>1, <1>2 DEF U!DeleteOld, Confirming
  <2>2. \A d \in Slots \ {c} : confirm'[d] = confirm[d] /\ ~Picturing(d) /\ ~Picturing(d)'
    BY <1>1, <2>1, ConfirmSteps DEF Picturing, PictureKept, Confirming, Granted
  <2>3. confirm'[c].pc = "write" /\ confirm'[c].key = k /\ confirm'[c].old = o
        /\ Picturing(c)' /\ Picturing(c)
    BY <1>1, <2>1, ConfirmSteps DEF Picturing, Confirming, Granted
  <2>4. o = url /\ k # url /\ k \in public
    BY <2>1, <2>3 DEF PictureKept, Granted
  <2>5. /\ public \ {o} \subseteq public' /\ public' \ spared' \subseteq public \ spared
        /\ o \notin public' \ spared' /\ o \notin attached
    BY <1>1, <2>1
  <2>. QED  BY <2>1, <2>2, <2>3, <2>4, <2>5 DEF PictureKept, Granted
<1>3. ASSUME U!WriteUrl(c) PROVE PictureKept'
  <2>1. confirm[c].pc = "write" /\ U!Close(c) /\ url' = k
        /\ UNCHANGED <<kind, fit, stored, public, attached, started, removal, spared, downed, clumsy>>
    BY <1>3 DEF U!WriteUrl
  <2>2. Picturing(c)
    BY <1>1, <2>1 DEF Picturing, Confirming, Granted
  <2>3. \A d \in Slots : ~Picturing(d)'
    BY <1>1, <2>1, <2>2, ConfirmSteps DEF Picturing, PictureKept
  <2>4. k \in public /\ o = url /\ o \notin public \ spared
    BY <2>1, <2>2 DEF PictureKept, Granted
  <2>5. \A j \in public \ spared : kind[j] = "picture" => j = k
    BY <2>2, <2>4 DEF PictureKept
  <2>. QED  BY <2>1, <2>3, <2>4, <2>5 DEF PictureKept
<1>. QED  BY <1>2, <1>3

\* The files keep, whatever comes, and what is kept is served.
LEMMA FilesStep == FilesKept /\ [U!Next]_uvars => FilesKept'
<1>. SUFFICES ASSUME FilesTyped, clumsy \/ PictureKept, [U!Next]_uvars PROVE FilesKept'
  BY DEF FilesKept
<1>1. FilesTyped'
  BY FilesTypedStep
<1>2. clumsy \in BOOLEAN /\ clumsy' \in BOOLEAN
  BY <1>1 DEF FilesTyped, U!TypeOK
<1>3. clumsy => clumsy'
  BY <1>2 DEF U!Next, uvars, U!Presign, U!Put, U!Attach, U!Quarantine, U!StartConfirm, U!CheckHead,
     U!Publish, U!ReadOld, U!DeleteOld, U!WriteUrl, U!NextHour, U!StartTakedown, U!FinishTakedown, U!Stop
<1>4. ASSUME ~clumsy', PictureKept PROVE PictureKept'
  <2>1. CASE U!Stop
    <3>0. UNCHANGED <<kind, public, url, attached, spared>> /\ U!NoConfirm.pc = "idle"
          /\ \A c \in Slots : confirm'[c] = U!NoConfirm
      BY <2>1 DEF U!Stop, U!NoConfirm
    <3>1. removal.pc # "move" /\ \A c \in Slots : confirm[c].pc \notin Granted
      BY <1>4, <2>1 DEF U!Stop, Granted
    <3>2. \A c \in Slots : ~Picturing(c)'
      BY <3>0 DEF Picturing
    <3>3. \A j \in public \ spared : kind[j] = "picture" => j = url
      <4>1. \A c \in Slots : Picturing(c) => confirm[c].key \notin public \ spared
        <5>1. \A c \in Slots : Picturing(c) => confirm[c].pc \in {"head", "publish"}
          BY <3>1 DEF Picturing, Granted, FilesTyped, U!TypeOK, U!Confirm
        <5>. QED  BY <1>4, <5>1 DEF PictureKept
      <4>. QED  BY <1>4, <4>1 DEF PictureKept
    <3>4. url # 0 => url \in public
      BY <1>4, <3>1 DEF PictureKept, Granted
    <3>5. (downed \cap stored) \ spared = {} /\ UNCHANGED <<downed, stored>>
      BY <1>4, <2>1, <3>1 DEF U!Stop, PictureKept, FilesTyped, U!TypeOK
    <3>. QED  BY <3>0, <3>2, <3>3, <3>4, <3>5 DEF PictureKept
  <2>2. CASE \E c \in Slots, k \in U!Keys : U!StartConfirm(c, k)
    BY <1>4, <2>2, PictureStarts
  <2>3. CASE \E c \in Slots : U!CheckHead(c) \/ U!Publish(c) \/ U!ReadOld(c)
    BY <1>4, <2>3, PicturePublished
  <2>4. CASE \E c \in Slots : U!DeleteOld(c) \/ U!WriteUrl(c)
    BY <1>4, <2>4, PictureWritten
  <2>5. CASE /\ UNCHANGED confirm
             /\ \/ \E k \in U!Keys : \E what \in U!Kind : U!Presign(k, what)
                \/ \E k \in U!Keys, fits \in BOOLEAN : U!Put(k, fits)
                \/ \E k \in U!Keys : U!Attach(k) \/ U!Quarantine(k)
                \/ U!NextHour \/ U!StartTakedown \/ U!FinishTakedown
    BY <1>4, <2>5, PictureRest
  <2>6. CASE UNCHANGED uvars
    BY <1>4, <2>6 DEF uvars, PictureKept, Picturing
  <2>. QED
    BY <2>1, <2>2, <2>3, <2>4, <2>5, <2>6, Zenon DEF U!Next, U!Presign, U!Put, U!Attach, U!Quarantine,
       U!NextHour, U!StartTakedown, U!FinishTakedown
<1>. QED  BY <1>1, <1>2, <1>3, <1>4 DEF FilesKept

\* What is kept is served, and what is public is named.
LEMMA FilesAgree == FilesKept => U!TypeOK /\ U!NamedIsServed /\ U!PublicIsNamed
<1>. SUFFICES ASSUME FilesTyped, PictureKept PROVE U!NamedIsServed /\ U!PublicIsNamed
  BY DEF FilesKept, FilesTyped, U!NamedIsServed, U!PublicIsNamed
<1>1. U!NamedIsServed
  BY DEF PictureKept, U!NamedIsServed, Granted
<1>2. ASSUME NEW k \in public \ spared
      PROVE  \/ k = url \/ k \in attached
             \/ kind[k] # "picture" /\ k \notin downed
             \/ \E c \in Slots : confirm[c].key = k
  BY DEF FilesTyped, U!TypeOK, PictureKept
<1>. QED  BY <1>1, <1>2 DEF U!PublicIsNamed

-----------------------------------------------------------------------------
(* Proofs about the catalogue *)

\* A sequence of at most n of S.
LEMMA SeqOfIs ==
    ASSUME NEW S, NEW n \in Nat, NEW s
    PROVE  s \in C!SeqOf(S, n) <=> s \in Seq(S) /\ Len(s) <= n
<1>1. ASSUME s \in C!SeqOf(S, n) PROVE s \in Seq(S) /\ Len(s) <= n
  <2>1. PICK m \in 0..n : s \in [1..m -> S]
    BY <1>1 DEF C!SeqOf
  <2>2. s \in Seq(S) /\ Len(s) = m
    BY <2>1
  <2>. QED  BY <2>1, <2>2
<1>2. ASSUME s \in Seq(S), Len(s) <= n PROVE s \in C!SeqOf(S, n)
  <2>1. Len(s) \in 0..n /\ s \in [1..Len(s) -> S]
    BY <1>2
  <2>. QED  BY <2>1 DEF C!SeqOf
<1>. QED  BY <1>1, <1>2

\* The instances count as everyone does.
LEMMA CountsAlike ==
    ASSUME NEW S
    PROVE  C!Cardinality(S) = Cardinality(S) /\ F!Cardinality(S) = Cardinality(S)
BY DEF C!Cardinality, F!Cardinality, Cardinality, C!IsFiniteSet, F!IsFiniteSet, IsFiniteSet

\* What is in a sequence without repetitions is no more than what there is.
LEMMA InjectiveFits ==
    ASSUME NEW S, IsFiniteSet(S), NEW s \in Seq(S), C!IsInjective(s)
    PROVE  Len(s) <= Cardinality(S)
<1>1. s \in Injection(1..Len(s), S)
  BY DEF C!IsInjective, Injection, IsInjective
<1>2. Cardinality(1..Len(s)) <= Cardinality(S)
  BY <1>1, FS_Injection, Zenon
<1>3. Cardinality(1..Len(s)) = Len(s)
  <2>1. 1 \in Int /\ Len(s) \in Int /\ Len(s) >= 0
    OBVIOUS
  <2>2. Cardinality(1..Len(s)) = IF 1 > Len(s) THEN 0 ELSE Len(s) - 1 + 1
    BY <2>1, FS_Interval, Zenon
  <2>. QED  BY <2>1, <2>2
<1>. QED  BY <1>2, <1>3

\* The shop puts a product in front, or takes one out.
LEMMA ShopShifts ==
    ASSUME NEW S, NEW s \in Seq(S), C!IsInjective(s)
    PROVE  /\ \A p \in S \ C!ToSet(s) : <<p>> \o s \in Seq(S) /\ C!IsInjective(<<p>> \o s)
           /\ \A i \in DOMAIN s : C!RemoveAt(s, i) \in Seq(S) /\ C!IsInjective(C!RemoveAt(s, i))
<1>1. ASSUME NEW p \in S \ C!ToSet(s) PROVE <<p>> \o s \in Seq(S) /\ C!IsInjective(<<p>> \o s)
  <2>. DEFINE t == <<p>> \o s
  <2>1. t \in Seq(S) /\ Len(t) = Len(s) + 1 /\ t[1] = p
    OBVIOUS
  <2>3. \A i \in 2..Len(t) : i - 1 \in 1..Len(s) /\ t[i] = s[i - 1]
    OBVIOUS
  <2>2. \A i \in 1..Len(s) : s[i] # p
    BY DEF C!ToSet
  <2>. HIDE DEF t
  <2>4. DOMAIN t = 1..Len(t) /\ DOMAIN s = 1..Len(s)
    BY <2>1
  <2>. QED  BY <2>1, <2>2, <2>3, <2>4 DEF C!IsInjective
<1>2. ASSUME NEW i \in DOMAIN s
      PROVE  C!RemoveAt(s, i) \in Seq(S) /\ C!IsInjective(C!RemoveAt(s, i))
  <2>. DEFINE a == SubSeq(s, 1, i - 1)
              b == SubSeq(s, i + 1, Len(s))
              t == a \o b
  <2>0. i \in 1..Len(s) /\ DOMAIN s = 1..Len(s) /\ Len(s) \in Nat
    OBVIOUS
  <2>1. a \in Seq(S) /\ Len(a) = i - 1 /\ \A j \in 1..i - 1 : a[j] = s[j]
    BY <2>0
  <2>2. b \in Seq(S) /\ Len(b) = Len(s) - i
    BY <2>0
  <2>3. \A j \in 1..Len(s) - i : b[j] = s[i + j]
    BY <2>0
  <2>4. C!RemoveAt(s, i) = t
    BY DEF C!RemoveAt
  <2>. HIDE DEF a, b
  <2>5. t \in Seq(S) /\ Len(t) = Len(s) - 1
    <3>1. t \in Seq(S)
      BY <2>1, <2>2
    <3>2. Len(t) = Len(a) + Len(b)
      BY <2>1, <2>2
    <3>. QED  BY <3>1, <3>2, <2>0, <2>1, <2>2
  <2>6. \A j \in 1..Len(t) : t[j] = IF j < i THEN s[j] ELSE s[j + 1]
    <3>1. ASSUME NEW j \in 1..Len(t), j < i PROVE t[j] = s[j]
      <4>1. j \in 1..i - 1 /\ j \in 1..Len(a)
        BY <3>1, <2>0, <2>1
      <4>2. a \in Seq(S) /\ b \in Seq(S) /\ j \in 1..Len(a) + Len(b)
        BY <4>1, <2>1, <2>2, <2>0
      <4>3. (a \o b)[j] = IF j <= Len(a) THEN a[j] ELSE b[j - Len(a)]
        BY <4>2
      <4>4. t[j] = a[j]
        BY <4>1, <4>3, <2>0, <2>1 DEF t
      <4>. QED  BY <4>1, <4>4, <2>1
    <3>2. ASSUME NEW j \in 1..Len(t), ~(j < i) PROVE t[j] = s[j + 1]
      <4>1. j > Len(a) /\ j <= Len(a) + Len(b) /\ j - Len(a) \in 1..Len(b)
        BY <3>2, <2>0, <2>1, <2>2, <2>5
      <4>4. a \in Seq(S) /\ b \in Seq(S) /\ j \in 1..Len(a) + Len(b)
        BY <4>1, <2>1, <2>2, <2>0
      <4>5. (a \o b)[j] = IF j <= Len(a) THEN a[j] ELSE b[j - Len(a)]
        BY <4>4
      <4>2. t[j] = b[j - Len(a)]
        BY <4>1, <4>4, <4>5, <2>1, <2>2 DEF t
      <4>3. j - Len(a) \in 1..Len(s) - i /\ i + (j - Len(a)) = j + 1
        BY <4>1, <2>0, <2>1, <2>2
      <4>. QED  BY <4>2, <4>3, <2>3
    <3>. QED  BY <3>1, <3>2
  <2>. HIDE DEF t
  <2>7. DOMAIN t = 1..Len(t)
    BY <2>5
  <2>8. C!IsInjective(t)
    BY <2>0, <2>5, <2>6, <2>7 DEF C!IsInjective
  <2>. QED  BY <2>4, <2>5, <2>8
<1>. QED  BY <1>1, <1>2

\* The types of the catalogue, in words the provers know.
N == Cardinality(Products)
Rows == [Products -> [id : 0..N, available : BOOLEAN, delisted : BOOLEAN]]
Runs == [at : {"idle", "fetch", "upsert", "reconcile"}, page : 1..PageBound,
         seen : Seq(Products), fit : SUBSET Products, calm : BOOLEAN]
Readers == [at : {"idle", "more", "done"}, cursor : 0..N, got : Seq(Products),
            steady : SUBSET Products]

LEMMA NIsNat == IsFiniteSet(Products) /\ N \in Nat
BY FiniteAssumption, FS_CardinalityType DEF N

LEMMA RunIs ==
    ASSUME NEW x
    PROVE  x \in C!Sync <=> x \in Runs /\ Len(x.seen) <= PageBound
<1>. PageBound \in Nat
  BY SizesAssumption
<1>1. ASSUME x \in C!Sync PROVE x \in Runs /\ Len(x.seen) <= PageBound
  <2>1. x.seen \in C!SeqOf(Products, PageBound)
    BY <1>1 DEF C!Sync
  <2>2. x.seen \in Seq(Products) /\ Len(x.seen) <= PageBound
    BY <2>1, SeqOfIs
  <2>. QED  BY <1>1, <2>2 DEF C!Sync, Runs
<1>2. ASSUME x \in Runs, Len(x.seen) <= PageBound PROVE x \in C!Sync
  <2>1. x.seen \in Seq(Products)
    BY <1>2 DEF Runs
  <2>2. x.seen \in C!SeqOf(Products, PageBound)
    BY <1>2, <2>1, SeqOfIs
  <2>. QED  BY <1>2, <2>2 DEF C!Sync, Runs
<1>. QED  BY <1>1, <1>2

LEMMA ReaderIs ==
    ASSUME NEW w
    PROVE  w \in C!Reader <=> w \in Readers /\ Len(w.got) <= N
<1>. C!Cardinality(Products) = N /\ N \in Nat
  BY CountsAlike, NIsNat DEF N
<1>1. ASSUME w \in C!Reader PROVE w \in Readers /\ Len(w.got) <= N
  <2>1. w.got \in C!SeqOf(Products, N)
    BY <1>1 DEF C!Reader
  <2>2. w.got \in Seq(Products) /\ Len(w.got) <= N
    BY <2>1, SeqOfIs
  <2>. QED  BY <1>1, <2>2 DEF C!Reader, C!Ids, Readers
<1>2. ASSUME w \in Readers, Len(w.got) <= N PROVE w \in C!Reader
  <2>1. w.got \in Seq(Products)
    BY <1>2 DEF Readers
  <2>2. w.got \in C!SeqOf(Products, N)
    BY <1>2, <2>1, SeqOfIs
  <2>. QED  BY <1>2, <2>2 DEF C!Reader, C!Ids, Readers
<1>. QED  BY <1>1, <1>2

\* A sequence of products without repetitions is never too long.
CatalogTyped ==
    /\ shop \in Seq(Products) /\ C!IsInjective(shop)
    /\ sold \subseteq Products
    /\ product \in Rows
    /\ sync \in [Slots -> Runs]
    /\ \A s \in Slots : Len(sync[s].seen) <= PageBound
    /\ reader \in Readers
    /\ settled \in BOOLEAN

LEMMA TypedCatalog == C!IsInjective(reader.got) => (C!TypeOK <=> CatalogTyped)
<1>. SUFFICES ASSUME C!IsInjective(reader.got) PROVE C!TypeOK <=> CatalogTyped
  OBVIOUS
<1>1. C!Cardinality(Products) = N /\ N \in Nat /\ IsFiniteSet(Products)
  BY CountsAlike, NIsNat DEF N
<1>2. shop \in C!SeqOf(Products, N) /\ C!IsInjective(shop)
      <=> shop \in Seq(Products) /\ C!IsInjective(shop)
  BY <1>1, SeqOfIs, InjectiveFits DEF N
<1>3. product \in Rows
      <=> product \in [Products -> [id : C!Ids, available : BOOLEAN, delisted : BOOLEAN]]
  BY <1>1 DEF Rows, C!Ids
<1>4. sync \in [Slots -> C!Sync]
      <=> sync \in [Slots -> Runs] /\ \A s \in Slots : Len(sync[s].seen) <= PageBound
  <2>1. ASSUME sync \in [Slots -> C!Sync]
        PROVE  sync \in [Slots -> Runs] /\ \A s \in Slots : Len(sync[s].seen) <= PageBound
    BY <2>1, RunIs
  <2>2. ASSUME sync \in [Slots -> Runs], \A s \in Slots : Len(sync[s].seen) <= PageBound
        PROVE  sync \in [Slots -> C!Sync]
    BY <2>2, RunIs
  <2>. QED  BY <2>1, <2>2
<1>5. reader \in C!Reader <=> reader \in Readers
  <2>1. ASSUME reader \in Readers PROVE Len(reader.got) <= N
    <3>1. reader.got \in Seq(Products)
      BY <2>1 DEF Readers
    <3>. QED  BY <3>1, <1>1, InjectiveFits DEF N
  <2>. QED  BY <2>1, ReaderIs
<1>. QED  BY <1>1, <1>2, <1>3, <1>4, <1>5 DEF C!TypeOK, CatalogTyped

\* What is to be kept, with the types in those words.
Stocked ==
    CatalogTyped /\ Numbered(product) /\ (\A s \in Slots : Fetched(sync[s])) /\ Walked(reader) /\ C!CatalogFollowsShop

LEMMA StockedIs == Stocked <=> CatalogKept
BY TypedCatalog DEF Stocked, CatalogKept, Walked

\* A nonempty set of numbers has a least.
LEMMA Least ==
    ASSUME NEW T \in SUBSET Nat, T # {}
    PROVE  \E x \in T : \A y \in T : x <= y
<1>. DEFINE R == OpToRel(<, Nat)
<1>1. IsWellFoundedOn(R, Nat)
  BY NatLessThanWellFounded
<1>2. ASSUME NEW x \in Nat, NEW y \in Nat PROVE <<x, y>> \in R <=> x < y
  BY DEF OpToRel
<1>. HIDE DEF R
<1>3. PICK x \in T : \A y \in T : ~(<<y, x>> \in R)
  BY <1>1, WFMin
<1>4. ASSUME NEW y \in T PROVE x <= y
  <2>1. x \in Nat /\ y \in Nat /\ ~(<<y, x>> \in R)
    BY <1>3
  <2>2. ~(y < x)
    BY <2>1, <1>2
  <2>. QED  BY <2>1, <2>2
<1>. QED  BY <1>4

\* A nonempty set of numbers up to n has a greatest.
LEMMA Largest ==
    ASSUME NEW n \in Nat, NEW T \in SUBSET (0..n), T # {}
    PROVE  \E x \in T : \A y \in T : y <= x
<1>. DEFINE V == {y \in Nat : \E x \in T : y = n - x}
<1>1. PICK u \in V : \A y \in V : u <= y
  <2>1. PICK x \in T : TRUE
    OBVIOUS
  <2>2. n - x \in V
    BY <2>1
  <2>3. V \in SUBSET Nat /\ V # {}
    BY <2>2
  <2>. HIDE DEF V
  <2>. QED  BY <2>3, Least
<1>2. PICK x \in T : u = n - x
  OBVIOUS
<1>3. ASSUME NEW y \in T PROVE y <= x
  <2>1. n - y \in V
    OBVIOUS
  <2>2. u <= n - y
    BY <2>1, <1>1
  <2>. QED  BY <1>2, <2>2
<1>. QED  BY <1>3

\* Of some products on sale one is the newest, and the others are older.
LEMMA NewestIsNewest ==
    ASSUME CatalogTyped, Numbered(product), NEW R \in SUBSET C!OnSale(product), R # {}
    PROVE  /\ C!Newest(R) \in R
           /\ \A q \in R \ {C!Newest(R)} : product[q].id < product[C!Newest(R)].id
<1>0. \A q \in Products : product[q].id \in 0..N
  BY DEF CatalogTyped, Rows
<1>1. \A q \in R : q \in Products /\ product[q].id # 0
  BY DEF C!OnSale
<1>. DEFINE T == {product[q].id : q \in R}
<1>2. T \in SUBSET (0..N) /\ T # {}
  BY <1>0, <1>1
<1>3. PICK x \in T : \A y \in T : y <= x
  BY <1>2, NIsNat, Largest
<1>4. PICK p \in R : product[p].id = x
  OBVIOUS
<1>5. \A q \in R : product[q].id <= product[p].id
  BY <1>3, <1>4
<1>6. C!Newest(R) \in R /\ \A q \in R : product[q].id <= product[C!Newest(R)].id
  BY <1>5 DEF C!Newest
<1>7. ASSUME NEW q \in R \ {C!Newest(R)} PROVE product[q].id # product[C!Newest(R)].id
  BY <1>1, <1>6, <1>7 DEF Numbered, Listed
<1>. QED  BY <1>0, <1>1, <1>6, <1>7

\* What a walk that has still to go must be, and what no walk has been through yet.
Going(w) ==
    /\ w \in Readers
    /\ C!IsInjective(w.got)
    /\ w.steady \subseteq C!OnSale(product)
    /\ \A p \in C!ToSet(w.got) : product[p].id # 0 /\ product[p].id >= w.cursor
    /\ w.cursor = 0 => w.got = <<>>
    /\ \A p \in w.steady \ C!ToSet(w.got) : w.cursor = 0 \/ product[p].id < w.cursor

\* A sequence and one more.
LEMMA OneMore ==
    ASSUME NEW S, NEW s \in Seq(S), NEW e \in S
    PROVE  /\ Append(s, e) \in Seq(S) /\ Len(Append(s, e)) = Len(s) + 1
           /\ C!ToSet(Append(s, e)) = C!ToSet(s) \cup {e}
           /\ C!IsInjective(s) /\ e \notin C!ToSet(s) => C!IsInjective(Append(s, e))
           /\ \A i \in 1..Len(s) : Append(s, e)[i] = s[i]
           /\ Append(s, e)[Len(s) + 1] = e
<1>. DEFINE t == Append(s, e)
<1>1. t \in Seq(S) /\ Len(t) = Len(s) + 1 /\ t[Len(s) + 1] = e
  OBVIOUS
<1>2. \A i \in 1..Len(s) : t[i] = s[i]
  OBVIOUS
<1>3. DOMAIN s = 1..Len(s) /\ DOMAIN t = 1..Len(s) + 1 /\ Len(s) \in Nat
  BY <1>1
<1>. HIDE DEF t
<1>4. C!ToSet(t) = C!ToSet(s) \cup {e}
  <2>1. ASSUME NEW x \in C!ToSet(t) PROVE x \in C!ToSet(s) \cup {e}
    <3>1. PICK i \in 1..Len(s) + 1 : x = t[i]
      BY <2>1, <1>3 DEF C!ToSet
    <3>. QED  BY <3>1, <1>1, <1>2, <1>3 DEF C!ToSet
  <2>2. ASSUME NEW x \in C!ToSet(s) \cup {e} PROVE x \in C!ToSet(t)
    <3>1. CASE x = e
      BY <3>1, <1>1, <1>3 DEF C!ToSet
    <3>2. CASE x \in C!ToSet(s)
      <4>1. PICK i \in 1..Len(s) : x = s[i]
        BY <3>2, <1>3 DEF C!ToSet
      <4>2. i \in 1..Len(s) + 1 /\ x = t[i]
        BY <4>1, <1>2, <1>3
      <4>. QED  BY <4>2, <1>3 DEF C!ToSet
    <3>. QED  BY <3>1, <3>2
  <2>. QED  BY <2>1, <2>2
<1>5. ASSUME C!IsInjective(s), e \notin C!ToSet(s) PROVE C!IsInjective(t)
  <2>1. \A i \in 1..Len(s) : t[i] # e
    BY <1>2, <1>3, <1>5 DEF C!ToSet
  <2>2. \A i, j \in 1..Len(s) : s[i] = s[j] => i = j
    BY <1>3, <1>5 DEF C!IsInjective
  <2>3. ASSUME NEW i \in 1..Len(s) + 1, NEW j \in 1..Len(s) + 1, t[i] = t[j] PROVE i = j
    <3>1. CASE i \in 1..Len(s) /\ j \in 1..Len(s)
      BY <3>1, <2>2, <2>3, <1>2
    <3>2. CASE i = Len(s) + 1 \/ j = Len(s) + 1
      BY <3>2, <2>1, <2>3, <1>1, <1>3
    <3>. QED  BY <3>1, <3>2, <1>3
  <2>. QED  BY <2>3, <1>3 DEF C!IsInjective
<1>. QED  BY <1>1, <1>2, <1>4, <1>5 DEF t

\* A page shows the reader the newest of what is behind the cursor.
LEMMA PageShows ==
    ASSUME CatalogTyped, Numbered(product), NEW w, Going(w)
    PROVE  C!Page(w) \in Readers /\ Walked(C!Page(w))
<1>. DEFINE rest == C!Behind(w.cursor)
            top == C!Newest(rest)
            v == C!Page(w)
<1>0. /\ w.at \in {"idle", "more", "done"} /\ w.cursor \in 0..N /\ w.got \in Seq(Products)
      /\ w.steady \subseteq Products /\ N \in Nat
  BY NIsNat DEF Going, Readers
<1>1. rest \in SUBSET C!OnSale(product) /\ rest \subseteq Products
  BY DEF C!Behind, C!OnSale
<1>2. \A p \in w.steady \ C!ToSet(w.got) : p \in rest
  BY DEF Going, C!Behind
<1>3. CASE rest = {}
  <2>1. v = [w EXCEPT !.at = "done"]
    BY <1>3 DEF C!Page
  <2>2. v \in Readers
    BY <2>1 DEF Going, Readers
  <2>3. v.at = "done" /\ v.got = w.got /\ v.cursor = w.cursor /\ v.steady = w.steady
    BY <2>1 DEF Going, Readers
  <2>. HIDE DEF v, rest
  <2>4. v.steady \subseteq C!ToSet(v.got)
    BY <1>2, <1>3, <2>3
  <2>5. Walked(v)
    BY <2>3, <2>4 DEF Walked, Going
  <2>. QED  BY <2>2, <2>5 DEF v
<1>4. CASE rest # {}
  <2>1. top \in rest /\ \A q \in rest \ {top} : product[q].id < product[top].id
    BY <1>1, <1>4, NewestIsNewest
  <2>2. v = [w EXCEPT !.got = Append(@, top), !.cursor = product[top].id,
                      !.at = IF C!Cardinality(rest) > 1 THEN "more" ELSE "done"]
    BY <1>4 DEF C!Page
  <2>3. /\ top \in Products /\ product[top].id \in 0..N /\ product[top].id # 0
        /\ w.cursor = 0 \/ product[top].id < w.cursor
    BY <2>1, <1>1 DEF CatalogTyped, Rows, C!Behind, C!OnSale
  <2>4. \A p \in Products : product[p].id \in 0..N
    BY DEF CatalogTyped, Rows
  <2>5. C!Cardinality(rest) > 1 \/ rest = {top}
    <3>1. IsFiniteSet(rest)
      BY <1>1, NIsNat, FS_Subset
    <3>2. Cardinality(rest) \in Nat /\ (Cardinality(rest) = 0 <=> rest = {})
          /\ (Cardinality(rest) = 1 <=> \E x : rest = {x})
      BY <3>1, FS_CardinalityType, FS_EmptySet, FS_Singleton
    <3>. QED  BY <3>2, <2>1, CountsAlike
  <2>. HIDE DEF rest, top
  <2>6. Append(w.got, top) \in Seq(Products)
    BY <1>0, <2>3
  <2>7. v \in Readers
    BY <2>2, <2>3, <2>6 DEF Going, Readers
  <2>8. /\ v.got = Append(w.got, top) /\ v.cursor = product[top].id /\ v.steady = w.steady
        /\ v.at = IF C!Cardinality(rest) > 1 THEN "more" ELSE "done"
    BY <2>2 DEF Going, Readers
  <2>. HIDE DEF v
  <2>9. top \notin C!ToSet(w.got)
    <3>1. CASE w.cursor = 0
      <4>1. C!ToSet(w.got) = {}
        BY <3>1 DEF Going, C!ToSet
      <4>. QED  BY <4>1
    <3>2. CASE w.cursor # 0
      BY <3>2, <2>3, <1>0 DEF Going
    <3>. QED  BY <3>1, <3>2
  <2>10. C!ToSet(v.got) = C!ToSet(w.got) \cup {top} /\ C!IsInjective(v.got)
    BY <2>3, <2>8, <2>9, <1>0, OneMore DEF Going
  <2>11. ASSUME NEW p \in C!ToSet(w.got) PROVE product[p].id # 0 /\ product[p].id >= product[top].id
    <3>1. p \in Products
      BY <2>11, <1>0 DEF C!ToSet
    <3>2. w.cursor # 0
      BY <2>11 DEF Going, C!ToSet
    <3>. QED  BY <3>1, <3>2, <2>3, <2>4, <2>11, <1>0 DEF Going
  <2>12. ASSUME NEW p \in v.steady \ C!ToSet(v.got) PROVE p \in rest \ {top}
    BY <2>8, <2>10, <1>2
  <2>13. \A p \in C!ToSet(v.got) : product[p].id # 0 /\ product[p].id >= v.cursor
    BY <2>3, <2>8, <2>10, <2>11
  <2>14. v.at = "more" => v.cursor # 0
                          /\ \A p \in v.steady \ C!ToSet(v.got) : product[p].id < v.cursor
    BY <2>1, <2>3, <2>8, <2>12
  <2>15. v.at = "done" => v.steady \subseteq C!ToSet(v.got)
    BY <2>5, <2>8, <2>12
  <2>16. v.steady \subseteq C!OnSale(product)
    BY <2>8 DEF Going
  <2>17. Walked(v)
    BY <2>10, <2>13, <2>14, <2>15, <2>16 DEF Walked
  <2>. QED  BY <2>7, <2>17 DEF v
<1>. QED  BY <1>3, <1>4

\* The batch of a run numbers the rows that are new, apart and upward.
LEMMA UpsertNumbers ==
    ASSUME CatalogTyped, Numbered(product), NEW x \in Runs, C!IsInjective(x.seen)
    PROVE  /\ C!Upserted(x) \in Rows
           /\ Numbered(C!Upserted(x))
           /\ \A p \in Products : product[p].id # 0 => C!Upserted(x)[p].id = product[p].id
           /\ \A p \in C!ToSet(x.seen) :
                /\ C!Upserted(x)[p].id # 0
                /\ C!Upserted(x)[p].available <=> p \in x.fit
                /\ ~C!Upserted(x)[p].delisted
           /\ \A p \in Products \ C!ToSet(x.seen) : C!Upserted(x)[p] = product[p]
<1>. DEFINE b == x.seen
            new == C!Unknown(C!ToSet(b))
            old == Listed(product)
            Up(i) == C!Unknown({b[k] : k \in 1..i})
            t == C!Upserted(x)
<1>1. b \in Seq(Products) /\ DOMAIN b = 1..Len(b) /\ Len(b) \in Nat /\ x.fit \in SUBSET Products
  BY DEF Runs
<1>2. C!ToSet(b) \subseteq Products
  BY <1>1 DEF C!ToSet
<1>3. \A i \in 1..Len(b) : Up(i) \subseteq new
  BY <1>1 DEF C!Unknown, C!ToSet
<1>4. /\ \A q \in new : q \in Products /\ product[q].id = 0 /\ q \in C!ToSet(b)
      /\ \A q \in C!ToSet(b) : product[q].id = 0 => q \in new
  BY <1>2 DEF C!Unknown
<1>5. old \subseteq Products /\ old = Products \ C!Unknown(Products)
  BY DEF Listed, C!Unknown
<1>6. /\ IsFiniteSet(new) /\ Cardinality(new) \in Nat /\ IsFiniteSet(old) /\ Cardinality(old) \in Nat
      /\ N \in Nat
  <2>1. new \in SUBSET Products /\ old \in SUBSET Products
    BY <1>2, <1>5 DEF C!Unknown
  <2>. QED  BY <2>1, NIsNat, FS_Subset, FS_CardinalityType
<1>7. \A i \in 1..Len(b) : IsFiniteSet(Up(i)) /\ Cardinality(Up(i)) \in Nat
                           /\ Cardinality(Up(i)) <= Cardinality(new)
  <2>. HIDE DEF new, Up
  <2>. QED  BY <1>3, <1>6, FS_Subset, FS_CardinalityType
\* Together they are what is known after the batch.
<1>8. IsFiniteSet(old \cup new) /\ Cardinality(old \cup new) = Cardinality(old) + Cardinality(new)
  <2>1. old \cap new = {}
    BY <1>4 DEF Listed
  <2>2. Cardinality(old \cap new) = 0
    BY <2>1, FS_EmptySet
  <2>3. /\ IsFiniteSet(old \cup new)
        /\ Cardinality(old \cup new) = Cardinality(old) + Cardinality(new) - Cardinality(old \cap new)
    <3>. HIDE DEF new, old
    <3>. QED  BY <1>6, FS_Union
  <2>. HIDE DEF new, old
  <2>. QED  BY <2>2, <2>3, <1>6
<1>9. Cardinality(old) + Cardinality(new) <= N
  <2>1. old \cup new \in SUBSET Products
    BY <1>4, <1>5
  <2>2. Cardinality(old \cup new) <= Cardinality(Products)
    BY <2>1, NIsNat, FS_Subset
  <2>. QED  BY <2>2, <1>8 DEF N
\* Where each product is in the batch.
<1>. DEFINE place(p) == CHOOSE i \in DOMAIN b : b[i] = p
<1>10. \A p \in C!ToSet(b) : place(p) \in 1..Len(b) /\ b[place(p)] = p
  BY <1>1 DEF C!ToSet
<1>11. ASSUME NEW p \in Products
       PROVE  C!NewId(p, b) = IF product[p].id # 0 THEN product[p].id
                              ELSE Cardinality(old) + Cardinality(Up(place(p)))
  BY <1>5, CountsAlike DEF C!NewId
<1>12. ASSUME NEW p \in new
       PROVE  /\ C!NewId(p, b) = Cardinality(old) + Cardinality(Up(place(p)))
              /\ place(p) \in 1..Len(b) /\ b[place(p)] = p
              /\ p \in Up(place(p))
  <2>1. p \in Products /\ product[p].id = 0 /\ p \in C!ToSet(b)
    BY <1>4
  <2>2. place(p) \in 1..Len(b) /\ b[place(p)] = p
    BY <2>1, <1>10
  <2>3. p \in Up(place(p))
    <3>. HIDE DEF place
    <3>. QED  BY <2>1, <2>2 DEF C!Unknown
  <2>. QED  BY <2>1, <2>2, <2>3, <1>11
<1>. HIDE DEF place
<1>13. ASSUME NEW p \in new
       PROVE  /\ C!NewId(p, b) \in Nat /\ C!NewId(p, b) > Cardinality(old)
              /\ C!NewId(p, b) <= Cardinality(old) + Cardinality(new)
  <2>1. Cardinality(Up(place(p))) # 0
    BY <1>12, <1>7, FS_EmptySet
  <2>. HIDE DEF new, old, Up
  <2>. QED  BY <2>1, <1>6, <1>7, <1>12
\* Who comes later in the batch gets the greater number.
<1>14. ASSUME NEW p \in new, NEW q \in new, place(p) < place(q)
       PROVE  C!NewId(p, b) < C!NewId(q, b)
  <2>1. place(p) \in 1..Len(b) /\ place(q) \in 1..Len(b) /\ b[place(q)] = q
    BY <1>12
  <2>2. Up(place(p)) \subseteq Up(place(q))
    BY <2>1, <1>14, <1>1 DEF C!Unknown
  <2>3. q \notin Up(place(p))
    <3>1. \A k \in 1..place(p) : k \in 1..Len(b) /\ k # place(q)
      BY <2>1, <1>14
    <3>2. \A k \in 1..place(p) : b[k] # q
      BY <3>1, <2>1, <1>1 DEF C!IsInjective
    <3>. QED  BY <3>2 DEF C!Unknown
  <2>4. q \in Up(place(q))
    BY <1>12
  <2>5. Cardinality(Up(place(p))) <= Cardinality(Up(place(q)))
        /\ Cardinality(Up(place(q))) # Cardinality(Up(place(p)))
    <3>. HIDE DEF Up
    <3>. QED  BY <2>1, <2>2, <2>3, <2>4, <1>7, FS_Subset
  <2>. HIDE DEF Up, old
  <2>. QED  BY <2>1, <2>5, <1>6, <1>7, <1>12
<1>15. \A p, q \in new : C!NewId(p, b) = C!NewId(q, b) => p = q
  <2>1. ASSUME NEW p \in new, NEW q \in new, C!NewId(p, b) = C!NewId(q, b) PROVE p = q
    <3>0. place(p) \in 1..Len(b) /\ place(q) \in 1..Len(b)
      BY <1>12
    <3>1. place(p) \in Nat /\ place(q) \in Nat
      BY <3>0, <1>1
    <3>4. C!NewId(p, b) \in Nat /\ C!NewId(q, b) \in Nat
      BY <1>13
    <3>2. place(p) = place(q)
      BY <3>1, <3>4, <2>1, <1>14
    <3>. QED  BY <3>2, <1>12
  <2>. QED  BY <2>1
\* The table.
<1>16. t = [p \in Products |->
              IF p \notin C!ToSet(b) THEN product[p]
              ELSE [id |-> C!NewId(p, b), available |-> p \in x.fit, delisted |-> FALSE]]
  BY DEF C!Upserted
<1>17. \A p \in Products : product[p] \in [id : 0..N, available : BOOLEAN, delisted : BOOLEAN]
  BY DEF CatalogTyped, Rows
<1>18. \A p \in Products : product[p].id \in 0..N /\ product[p].id <= Cardinality(old)
  BY <1>17 DEF Numbered
<1>19. ASSUME NEW p \in Products PROVE C!NewId(p, b) = product[p].id \/ p \notin C!ToSet(b) \/ p \in new
  BY <1>4, <1>11
<1>20. \A p \in Products : product[p].id # 0 => C!NewId(p, b) = product[p].id
  BY <1>11
<1>. HIDE DEF t, new, old, Up
<1>21. ASSUME NEW p \in Products
       PROVE  /\ p \notin C!ToSet(b) => t[p] = product[p]
              /\ p \in C!ToSet(b) =>
                   /\ t[p].id = C!NewId(p, b)
                   /\ t[p].available = (p \in x.fit)
                   /\ t[p].delisted = FALSE
                   /\ t[p] = [id |-> C!NewId(p, b), available |-> p \in x.fit, delisted |-> FALSE]
  BY <1>16
<1>22. ASSUME NEW p \in C!ToSet(b)
       PROVE  C!NewId(p, b) \in 0..N /\ C!NewId(p, b) # 0
              /\ C!NewId(p, b) <= Cardinality(old) + Cardinality(new)
  <2>1. CASE p \in new
    BY <2>1, <1>6, <1>9, <1>13
  <2>2. CASE p \notin new
    <3>1. p \in Products /\ product[p].id # 0
      BY <2>2, <1>2, <1>4
    <3>. QED  BY <3>1, <1>6, <1>18, <1>20
  <2>. QED  BY <2>1, <2>2
<1>23. ASSUME NEW p \in Products PROVE t[p] \in [id : 0..N, available : BOOLEAN, delisted : BOOLEAN]
  <2>1. CASE p \in C!ToSet(b)
    <3>. DEFINE fits == p \in x.fit
    <3>1. fits \in BOOLEAN /\ C!NewId(p, b) \in 0..N
      BY <2>1, <1>22
    <3>2. t[p] = [id |-> C!NewId(p, b), available |-> fits, delisted |-> FALSE]
      BY <2>1, <1>21
    <3>. HIDE DEF fits
    <3>. QED  BY <3>1, <3>2
  <2>2. CASE p \notin C!ToSet(b)
    BY <2>2, <1>17, <1>21
  <2>. QED  BY <2>1, <2>2
<1>24. t \in Rows
  <2>1. t = [p \in Products |-> t[p]]
    BY <1>16
  <2>. QED  BY <2>1, <1>23 DEF Rows
<1>25. ASSUME NEW p \in Products PROVE t[p].id # 0 <=> p \in old \cup new
  <2>1. p \in old <=> product[p].id # 0
    BY DEF old, Listed
  <2>2. CASE p \in C!ToSet(b)
    BY <2>1, <2>2, <1>4, <1>21, <1>22
  <2>3. CASE p \notin C!ToSet(b)
    BY <2>1, <2>3, <1>4, <1>21
  <2>. QED  BY <2>2, <2>3
<1>26. Listed(t) = old \cup new
  <2>1. new \subseteq Products /\ old \subseteq Products
    BY <1>4, <1>5
  <2>. QED  BY <2>1, <1>25 DEF Listed
<1>27. ASSUME NEW p \in Products PROVE t[p].id <= Cardinality(Listed(t))
  <2>1. CASE p \in C!ToSet(b)
    BY <2>1, <1>8, <1>21, <1>22, <1>26
  <2>2. CASE p \notin C!ToSet(b)
    <3>1. t[p].id = product[p].id /\ product[p].id \in Nat /\ product[p].id <= Cardinality(old)
      <4>1. t[p] = product[p]
        BY <2>2, <1>21
      <4>2. product[p].id \in 0..N /\ product[p].id <= Cardinality(old)
        BY <1>18
      <4>. QED  BY <4>1, <4>2, <1>6
    <3>2. Cardinality(Listed(t)) = Cardinality(old) + Cardinality(new)
      BY <1>8, <1>26
    <3>. QED  BY <3>1, <3>2, <1>6
  <2>. QED  BY <2>1, <2>2
<1>28. ASSUME NEW p \in old PROVE p \in Products /\ t[p].id = product[p].id /\ t[p].id <= Cardinality(old)
  <2>1. p \in Products /\ product[p].id # 0
    BY DEF old, Listed
  <2>2. t[p].id = product[p].id
    BY <2>1, <1>20, <1>21
  <2>. QED  BY <2>1, <2>2, <1>18
<1>29. ASSUME NEW p \in new PROVE t[p].id = C!NewId(p, b) /\ t[p].id > Cardinality(old)
  BY <1>4, <1>13, <1>21
<1>30. ASSUME NEW p \in Listed(t), NEW q \in Listed(t), t[p].id = t[q].id PROVE p = q
  <2>1. CASE p \in old /\ q \in old
    <3>1. p \in Listed(product) /\ q \in Listed(product)
      BY <2>1 DEF old
    <3>. QED  BY <3>1, <2>1, <1>28, <1>30 DEF Numbered
  <2>2. CASE p \in new /\ q \in new
    BY <2>2, <1>15, <1>29, <1>30
  <2>3. CASE p \in old /\ q \in new
    BY <2>3, <1>6, <1>13, <1>18, <1>28, <1>29, <1>30
  <2>4. CASE p \in new /\ q \in old
    BY <2>4, <1>6, <1>13, <1>18, <1>28, <1>29, <1>30
  <2>. QED  BY <2>1, <2>2, <2>3, <2>4, <1>26
<1>31. Numbered(t)
  BY <1>27, <1>30 DEF Numbered
<1>32. \A p \in Products : product[p].id # 0 => t[p].id = product[p].id
  BY <1>28 DEF old, Listed
<1>33. \A p \in C!ToSet(b) : t[p].id # 0 /\ (t[p].available <=> p \in x.fit) /\ ~t[p].delisted
  BY <1>2, <1>21, <1>22
<1>. QED  BY <1>21, <1>24, <1>31, <1>32, <1>33 DEF t

\* A run turns to another state, and nothing else changes.
LEMMA RunTurns ==
    ASSUME Stocked, NEW s \in Slots, NEW x \in Runs, Len(x.seen) <= PageBound, Fetched(x),
           sync' = [sync EXCEPT ![s] = x], UNCHANGED <<shop, sold, product, reader, settled>>
    PROVE  Stocked'
<1>1. /\ sync' \in [Slots -> Runs]
      /\ \A k \in Slots : sync'[k] = IF k = s THEN x ELSE sync[k]
  BY DEF Stocked, CatalogTyped
<1>2. \A k \in Slots : Len(sync'[k].seen) <= PageBound
  BY <1>1 DEF Stocked, CatalogTyped
<1>3. CatalogTyped'
  BY <1>1, <1>2 DEF Stocked, CatalogTyped
<1>4. Numbered(product)' /\ Walked(reader)' /\ C!CatalogFollowsShop'
  BY DEF Stocked, Numbered, Listed, Walked, C!CatalogFollowsShop, C!OnSale
<1>5. ASSUME NEW k \in Slots PROVE Fetched(sync[k])'
  <2>1. CASE k = s
    BY <2>1, <1>1 DEF Fetched
  <2>2. CASE k # s
    BY <2>2, <1>1 DEF Fetched, Stocked
  <2>. QED  BY <2>1, <2>2
<1>. QED  BY <1>3, <1>4, <1>5 DEF Stocked

\* A run that is over.
LEMMA OverIsKept == C!NoSync \in Runs /\ Len(C!NoSync.seen) <= PageBound /\ Fetched(C!NoSync)
BY SizesAssumption DEF C!NoSync, Runs, Fetched

\* What a run at its fetch is after the page.
LEMMA TurnedPage ==
    ASSUME NEW x \in Runs, x.at = "fetch", Len(x.seen) <= x.page,
           x.calm => /\ Len(x.seen) <= Len(shop)
                     /\ \A i \in 1..Len(x.seen) : x.seen[i] = shop[i]
                     /\ x.fit = C!ToSet(x.seen) \ sold
                     /\ Len(x.seen) = x.page
    PROVE  C!NextPage(x) \in Runs /\ Len(C!NextPage(x).seen) <= PageBound /\ Fetched(C!NextPage(x))
<1>. DEFINE y == C!NextPage(x)
<1>0. PageBound \in Nat /\ PageBound >= 1 /\ x.page \in 1..PageBound /\ Len(x.seen) \in Nat
  BY SizesAssumption DEF Runs
<1>1. CASE x.page = PageBound
  <2>1. y = [x EXCEPT !.at = "upsert"]
    BY <1>1 DEF C!NextPage
  <2>2. y \in Runs /\ y.seen = x.seen /\ y.fit = x.fit /\ y.calm = x.calm /\ y.at = "upsert"
    BY <2>1 DEF Runs
  <2>. HIDE DEF y
  <2>3. Fetched(y)
    BY <2>2, <1>0, <1>1 DEF Fetched
  <2>. QED  BY <2>2, <2>3, <1>0, <1>1 DEF y
<1>2. CASE x.page # PageBound
  <2>1. y = [x EXCEPT !.page = x.page + 1]
    BY <1>2 DEF C!NextPage
  <2>2. x.page + 1 \in 1..PageBound
    BY <1>0, <1>2
  <2>3. /\ y \in Runs /\ y.seen = x.seen /\ y.fit = x.fit /\ y.calm = x.calm /\ y.at = "fetch"
        /\ y.page = x.page + 1
    BY <2>1, <2>2 DEF Runs
  <2>. HIDE DEF y
  <2>4. Fetched(y)
    BY <2>3, <1>0 DEF Fetched
  <2>. QED  BY <2>3, <2>4, <1>0 DEF y
<1>. QED  BY <1>1, <1>2

\* The steps that only move a run.
LEMMA RunStepKeeps ==
    ASSUME Stocked, NEW s \in Slots, C!StartSync(s) \/ C!FetchPage(s) \/ C!SkipPage(s) \/ C!GiveUp(s) \/ C!Stop(s)
    PROVE  Stocked'
<1>. DEFINE run == sync[s]
<1>0. /\ run \in Runs /\ Len(run.seen) <= PageBound /\ Fetched(run) /\ Len(run.seen) \in Nat
      /\ PageBound \in Nat /\ PageBound >= 1 /\ run.page \in 1..PageBound
      /\ shop \in Seq(Products) /\ Len(shop) \in Nat
  BY SizesAssumption DEF Stocked, CatalogTyped, Runs
<1>1. CASE C!StartSync(s)
  <2>. DEFINE x == [C!NoSync EXCEPT !.at = "fetch"]
  <2>1. x \in Runs /\ x.at = "fetch" /\ x.page = 1 /\ x.seen = <<>> /\ x.fit = {}
    <3>1. C!NoSync \in Runs /\ C!NoSync.page = 1 /\ C!NoSync.seen = <<>> /\ C!NoSync.fit = {}
      BY OverIsKept DEF C!NoSync
    <3>. QED  BY <3>1 DEF Runs
  <2>2. sync' = [sync EXCEPT ![s] = x] /\ UNCHANGED <<shop, sold, product, reader, settled>>
    BY <1>1 DEF C!StartSync
  <2>. HIDE DEF x
  <2>3. C!ToSet(x.seen) = {}
    BY <2>1 DEF C!ToSet
  <2>4. Fetched(x) /\ Len(x.seen) <= PageBound
    BY <2>1, <2>3, <1>0 DEF Fetched
  <2>. QED  BY <2>1, <2>2, <2>4, RunTurns
<1>2. CASE C!FetchPage(s)
  <2>0. run.at = "fetch" /\ UNCHANGED <<shop, sold, product, reader, settled>>
    BY <1>2 DEF C!FetchPage
  <2>1. CASE run.page > Len(shop)
    <3>. DEFINE x == [run EXCEPT !.at = "upsert"]
    <3>1. sync' = [sync EXCEPT ![s] = x]
      BY <1>2, <2>1 DEF C!FetchPage
    <3>. HIDE DEF run
    <3>2. x \in Runs /\ x.at = "upsert" /\ x.seen = run.seen /\ x.fit = run.fit /\ x.calm = run.calm
      BY <1>0 DEF Runs
    <3>. HIDE DEF x
    <3>3. Fetched(x) /\ Len(x.seen) <= PageBound
      BY <3>2, <1>0, <2>0, <2>1 DEF Fetched
    <3>. QED  BY <3>1, <3>2, <3>3, <2>0, RunTurns
  <2>2. CASE ~(run.page > Len(shop))
    <3>. DEFINE p == shop[run.page]
                x == [run EXCEPT !.seen = Append(@, p), !.fit = @ \cup ({p} \ sold)]
    <3>1. sync' = [sync EXCEPT ![s] = C!NextPage(x)]
      BY <1>2, <2>2 DEF C!FetchPage
    <3>2. p \in Products /\ run.page \in 1..Len(shop)
      BY <1>0, <2>2
    <3>. HIDE DEF run, p
    <3>3. run.seen \in Seq(Products) /\ run.fit \in SUBSET Products /\ run.calm \in BOOLEAN
      BY <1>0 DEF Runs
    <3>4. /\ Append(run.seen, p) \in Seq(Products) /\ Len(Append(run.seen, p)) = Len(run.seen) + 1
          /\ C!ToSet(Append(run.seen, p)) = C!ToSet(run.seen) \cup {p}
          /\ \A i \in 1..Len(run.seen) : Append(run.seen, p)[i] = run.seen[i]
          /\ Append(run.seen, p)[Len(run.seen) + 1] = p
      BY <3>2, <3>3, OneMore
    <3>5. /\ x \in Runs /\ x.at = "fetch" /\ x.page = run.page /\ x.calm = run.calm
          /\ x.seen = Append(run.seen, p) /\ x.fit = run.fit \cup ({p} \ sold)
      BY <3>2, <3>3, <3>4, <1>0, <2>0 DEF Runs
    <3>. HIDE DEF x
    <3>6. Len(x.seen) <= x.page
      BY <3>4, <3>5, <1>0, <2>0 DEF Fetched
    <3>7. ASSUME x.calm
          PROVE  /\ Len(x.seen) <= Len(shop)
                 /\ \A i \in 1..Len(x.seen) : x.seen[i] = shop[i]
                 /\ x.fit = C!ToSet(x.seen) \ sold
                 /\ Len(x.seen) = x.page
      <4>1. /\ Len(run.seen) <= Len(shop) /\ Len(run.seen) = run.page - 1
            /\ \A i \in 1..Len(run.seen) : run.seen[i] = shop[i]
            /\ run.fit = C!ToSet(run.seen) \ sold
        BY <3>5, <3>7, <1>0, <2>0 DEF Fetched
      <4>2. Len(x.seen) = x.page /\ Len(x.seen) <= Len(shop)
        BY <4>1, <3>2, <3>4, <3>5, <1>0
      <4>3. ASSUME NEW i \in 1..Len(x.seen) PROVE x.seen[i] = shop[i]
        <5>1. CASE i \in 1..Len(run.seen)
          BY <5>1, <4>1, <3>4, <3>5
        <5>2. CASE i = Len(run.seen) + 1
          <6>1. i = run.page
            BY <5>2, <4>1, <1>0
          <6>. QED  BY <6>1, <5>2, <3>4, <3>5 DEF p
        <5>. QED  BY <5>1, <5>2, <3>4, <3>5, <1>0
      <4>4. x.fit = C!ToSet(x.seen) \ sold
        BY <4>1, <3>4, <3>5
      <4>. QED  BY <4>2, <4>3, <4>4
    <3>8. /\ C!NextPage(x) \in Runs /\ Len(C!NextPage(x).seen) <= PageBound
          /\ Fetched(C!NextPage(x))
      BY <3>5, <3>6, <3>7, TurnedPage
    <3>. QED  BY <3>1, <3>8, <2>0, RunTurns
  <2>. QED  BY <2>1, <2>2
<1>3. CASE C!SkipPage(s)
  <2>. DEFINE x == [C!NextPage(run) EXCEPT !.calm = FALSE]
  <2>0. /\ run.at = "fetch" /\ UNCHANGED <<shop, sold, product, reader, settled>>
        /\ sync' = [sync EXCEPT ![s] = x]
    BY <1>3 DEF C!SkipPage
  <2>. HIDE DEF run
  <2>1. /\ x \in Runs /\ x.calm = FALSE /\ x.seen = run.seen
        /\ x.at = "fetch" => x.page = run.page + 1
    <3>1. CASE run.page = PageBound
      BY <3>1, <1>0, <2>0 DEF C!NextPage, Runs
    <3>2. CASE run.page # PageBound
      <4>1. run.page + 1 \in 1..PageBound
        BY <3>2, <1>0
      <4>. QED  BY <4>1, <3>2, <1>0, <2>0 DEF C!NextPage, Runs
    <3>. QED  BY <3>1, <3>2
  <2>. HIDE DEF x
  <2>2. Fetched(x) /\ Len(x.seen) <= PageBound
    BY <2>0, <2>1, <1>0 DEF Fetched
  <2>. QED  BY <2>0, <2>1, <2>2, RunTurns
<1>4. CASE C!GiveUp(s)
  <2>. DEFINE x == [run EXCEPT !.at = "upsert", !.calm = FALSE]
  <2>0. sync' = [sync EXCEPT ![s] = x] /\ UNCHANGED <<shop, sold, product, reader, settled>>
    BY <1>4, <1>0 DEF C!GiveUp, Stocked, CatalogTyped
  <2>. HIDE DEF run
  <2>1. x \in Runs /\ x.calm = FALSE /\ x.seen = run.seen /\ x.at = "upsert"
    BY <1>0 DEF Runs
  <2>. HIDE DEF x
  <2>2. Fetched(x) /\ Len(x.seen) <= PageBound
    BY <2>1, <1>0 DEF Fetched
  <2>. QED  BY <2>0, <2>1, <2>2, RunTurns
<1>5. CASE C!Stop(s)
  <2>1. sync' = [sync EXCEPT ![s] = C!NoSync] /\ UNCHANGED <<shop, sold, product, reader, settled>>
    BY <1>5 DEF C!Stop
  <2>. QED  BY <2>1, OverIsKept, RunTurns
<1>. QED  BY <1>1, <1>2, <1>3, <1>4, <1>5

\* Runs that nothing disturbed, and that fetched their pages, saw the same.
LEMMA CalmAlike ==
    ASSUME shop \in Seq(Products), NEW x \in Runs, Len(x.seen) <= PageBound, Fetched(x), x.calm,
           x.at \in {"upsert", "reconcile"}
    PROVE  /\ x.fit = C!ToSet(x.seen) \ sold
           /\ C!ToSet(x.seen) = {shop[i] : i \in 1..Len(x.seen)}
           /\ Len(x.seen) = IF Len(shop) <= PageBound THEN Len(shop) ELSE PageBound
<1>1. /\ x.seen \in Seq(Products) /\ DOMAIN x.seen = 1..Len(x.seen) /\ Len(x.seen) \in Nat
      /\ Len(shop) \in Nat /\ PageBound \in Nat
  BY SizesAssumption DEF Runs
<1>2. /\ Len(x.seen) <= Len(shop) /\ Len(x.seen) \in {Len(shop), PageBound}
      /\ \A i \in 1..Len(x.seen) : x.seen[i] = shop[i]
      /\ x.fit = C!ToSet(x.seen) \ sold
  BY DEF Fetched
<1>3. C!ToSet(x.seen) = {shop[i] : i \in 1..Len(x.seen)}
  BY <1>1, <1>2 DEF C!ToSet
<1>. QED  BY <1>1, <1>2, <1>3

\* A run writes a table that keeps the numbers there are: the walk of the reader goes on.
LEMMA SaveKeepsWalk ==
    ASSUME Stocked, NEW t \in Rows, C!Save(t),
           \A p \in Products : product[p].id # 0 => t[p].id = product[p].id
    PROVE  reader' \in Readers /\ Walked(reader)'
<1>1. product' = t /\ reader' = [reader EXCEPT !.steady = @ \cap C!OnSale(t)]
  BY DEF C!Save, C!OnSale
<1>2. reader \in Readers /\ Walked(reader)
  BY DEF Stocked, CatalogTyped
<1>3. /\ reader' \in Readers /\ reader'.at = reader.at /\ reader'.cursor = reader.cursor
      /\ reader'.got = reader.got /\ reader'.steady = reader.steady \cap C!OnSale(t)
  BY <1>1, <1>2 DEF Readers
<1>4. C!ToSet(reader.got) \subseteq Products /\ C!OnSale(t) \subseteq Products
      /\ reader.steady \subseteq C!OnSale(product)
  BY <1>2 DEF Readers, C!ToSet, C!OnSale, Walked
<1>5. C!OnSale(product') = C!OnSale(t)
  BY <1>1
<1>6. \A p \in C!ToSet(reader.got) : t[p].id # 0 /\ t[p].id >= reader.cursor
  BY <1>2, <1>4 DEF Walked
<1>7. \A p \in reader.steady : product[p].id # 0 /\ p \in Products
  BY <1>4 DEF C!OnSale
<1>8. \A p \in reader.steady : t[p].id = product[p].id
  BY <1>7
<1>9. Walked(reader) => /\ C!IsInjective(reader.got)
                        /\ reader.at = "more" =>
                             /\ reader.cursor # 0
                             /\ \A p \in reader.steady \ C!ToSet(reader.got) : product[p].id < reader.cursor
                        /\ reader.at = "done" => reader.steady \subseteq C!ToSet(reader.got)
  BY DEF Walked
<1>. QED  BY <1>1, <1>2, <1>3, <1>5, <1>6, <1>8, <1>9 DEF Walked, C!OnSale

\* What the table must be after the write of a run that becomes new.
LEMMA RunWrites ==
    ASSUME Stocked, NEW s \in Slots, NEW t \in Rows, NEW x \in Runs, Len(x.seen) <= PageBound,
           UNCHANGED <<shop, sold>>, C!Save(t), C!Wrote(s, x), settled' \in BOOLEAN,
           Numbered(t),
           \A p \in Products : product[p].id # 0 => t[p].id = product[p].id,
           Fetched(x)',
           \A k \in Slots \ {s} : sync[k].at = "reconcile" /\ sync[k].calm /\ sync[s].calm =>
             \A p \in C!ToSet(sync[k].seen) :
               t[p].id # 0 /\ ~t[p].delisted /\ (t[p].available <=> p \in sync[k].fit),
           settled' => C!OnSale(t) = {shop[i] : i \in 1..Len(shop)} \ sold \/ Len(shop) > PageBound
    PROVE  Stocked'
<1>1. product' = t /\ reader' \in Readers /\ Walked(reader)'
  BY SaveKeepsWalk DEF C!Save
<1>. DEFINE other(k) == [sync[k] EXCEPT !.calm = @ /\ (sync[s].calm \/ sync[k].at # "reconcile")]
<1>2. sync' = [k \in Slots |-> IF k = s THEN x ELSE other(k)]
  BY DEF C!Wrote
<1>3. ASSUME NEW k \in Slots
      PROVE  /\ other(k) \in Runs /\ other(k).at = sync[k].at /\ other(k).page = sync[k].page
             /\ other(k).seen = sync[k].seen /\ other(k).fit = sync[k].fit
             /\ other(k).calm = (sync[k].calm /\ (sync[s].calm \/ sync[k].at # "reconcile"))
  <2>. DEFINE c == sync[k].calm /\ (sync[s].calm \/ sync[k].at # "reconcile")
  <2>1. sync[k] \in Runs /\ c \in BOOLEAN
    BY DEF Stocked, CatalogTyped, Runs
  <2>2. other(k) = [sync[k] EXCEPT !.calm = c]
    BY <2>1 DEF Runs
  <2>. HIDE DEF c, other
  <2>3. /\ other(k) \in Runs /\ other(k).at = sync[k].at /\ other(k).page = sync[k].page
        /\ other(k).seen = sync[k].seen /\ other(k).fit = sync[k].fit
        /\ other(k).calm = c
    BY <2>1, <2>2 DEF Runs
  <2>. QED  BY <2>3 DEF c
<1>. HIDE DEF other
<1>4. /\ sync' \in [Slots -> Runs] /\ sync'[s] = x
      /\ \A k \in Slots \ {s} : sync'[k] = other(k)
  BY <1>2, <1>3
<1>5. \A k \in Slots : Len(sync'[k].seen) <= PageBound
  BY <1>3, <1>4 DEF Stocked, CatalogTyped
<1>6. CatalogTyped'
  BY <1>1, <1>4, <1>5 DEF Stocked, CatalogTyped
<1>7. Numbered(product)'
  <2>1. Numbered(product')
    BY <1>1
  <2>. QED  BY <2>1 DEF Numbered, Listed
<1>8. C!CatalogFollowsShop'
  BY <1>1 DEF C!CatalogFollowsShop, C!OnSale
<1>9. ASSUME NEW k \in Slots PROVE Fetched(sync[k])'
  <2>1. CASE k = s
    BY <2>1, <1>4 DEF Fetched
  <2>2. CASE k # s
    <3>. DEFINE y == sync'[k]
    <3>1. /\ y.at = sync[k].at /\ y.page = sync[k].page /\ y.seen = sync[k].seen /\ y.fit = sync[k].fit
          /\ y.calm => sync[k].calm /\ (sync[s].calm \/ sync[k].at # "reconcile")
      BY <2>2, <1>3, <1>4
    <3>2. Fetched(sync[k])
      BY DEF Stocked
    <3>3. y.calm /\ y.at = "reconcile" => \A p \in C!ToSet(y.seen) :
            t[p].id # 0 /\ ~t[p].delisted /\ (t[p].available <=> p \in y.fit)
      BY <2>2, <3>1
    <3>. HIDE DEF y
    <3>4. /\ y.at = "fetch" => Len(y.seen) < y.page
          /\ y.calm /\ y.at # "idle" =>
               /\ Len(y.seen) <= Len(shop)
               /\ \A i \in 1..Len(y.seen) : y.seen[i] = shop[i]
               /\ y.fit = C!ToSet(y.seen) \ sold
          /\ y.calm /\ y.at = "fetch" => Len(y.seen) = y.page - 1
          /\ y.calm /\ y.at \in {"upsert", "reconcile"} => Len(y.seen) \in {Len(shop), PageBound}
      BY <3>1, <3>2 DEF Fetched
    <3>. QED  BY <3>3, <3>4, <1>1 DEF Fetched, y
  <2>. QED  BY <2>1, <2>2
<1>. QED  BY <1>1, <1>6, <1>7, <1>8, <1>9 DEF Stocked

\* The batch of a run.
LEMMA UpsertKeeps ==
    ASSUME Stocked, NEW s \in Slots, C!Upsert(s)
    PROVE  Stocked'
<1>. DEFINE run == sync[s]
            t == C!Upserted(run)
            done == [run EXCEPT !.at = "reconcile"]
<1>0. /\ run \in Runs /\ Len(run.seen) <= PageBound /\ Fetched(run) /\ run.at = "upsert"
      /\ CatalogTyped /\ Numbered(product) /\ shop \in Seq(Products) /\ settled \in BOOLEAN
      /\ C!CatalogFollowsShop /\ \A k \in Slots : sync[k] \in Runs /\ Len(sync[k].seen) <= PageBound
                                                    /\ Fetched(sync[k])
  BY DEF Stocked, CatalogTyped, C!Upsert
<1>1. CASE ~C!IsInjective(run.seen)
  <2>1. sync' = [sync EXCEPT ![s] = C!NoSync] /\ UNCHANGED <<shop, sold, product, reader, settled>>
    BY <1>1 DEF C!Upsert
  <2>. QED  BY <2>1, OverIsKept, RunTurns
<1>2. CASE C!IsInjective(run.seen)
  <2>1. /\ C!Save(t) /\ C!Wrote(s, done) /\ settled' = (settled /\ run.calm)
        /\ UNCHANGED <<shop, sold>>
    BY <1>2 DEF C!Upsert
  <2>2. /\ t \in Rows /\ Numbered(t)
        /\ \A p \in Products : product[p].id # 0 => t[p].id = product[p].id
        /\ \A p \in C!ToSet(run.seen) :
             t[p].id # 0 /\ (t[p].available <=> p \in run.fit) /\ ~t[p].delisted
        /\ \A p \in Products \ C!ToSet(run.seen) : t[p] = product[p]
    BY <1>0, <1>2, UpsertNumbers
  <2>3. product' = t
    BY <2>1 DEF C!Save
  <2>. HIDE DEF run, t
  <2>13. /\ done \in Runs /\ done.at = "reconcile" /\ done.seen = run.seen /\ done.fit = run.fit
          /\ done.calm = run.calm /\ run.calm \in BOOLEAN
    BY <1>0 DEF Runs
  <2>. HIDE DEF done
  <2>4. PICK x \in Runs : /\ C!Wrote(s, x) /\ x.at = "reconcile" /\ x.seen = run.seen /\ x.fit = run.fit
                          /\ x.calm = run.calm /\ run.calm \in BOOLEAN
    BY <2>1, <2>13
  <2>5. Fetched(x)'
    <3>1. /\ run.calm =>
               /\ Len(run.seen) <= Len(shop)
               /\ \A i \in 1..Len(run.seen) : run.seen[i] = shop[i]
               /\ run.fit = C!ToSet(run.seen) \ sold
               /\ Len(run.seen) \in {Len(shop), PageBound}
      BY <1>0 DEF Fetched
    <3>. QED  BY <3>1, <2>1, <2>2, <2>3, <2>4 DEF Fetched
  <2>6. ASSUME run.calm
        PROVE  run.fit = C!ToSet(run.seen) \ sold /\ C!ToSet(run.seen) = {shop[i] : i \in 1..Len(run.seen)}
               /\ Len(run.seen) = IF Len(shop) <= PageBound THEN Len(shop) ELSE PageBound
    BY <2>6, <1>0, CalmAlike
  <2>7. ASSUME NEW k \in Slots, sync[k].at = "reconcile", sync[k].calm, run.calm,
               NEW p \in C!ToSet(sync[k].seen)
        PROVE  t[p].id # 0 /\ ~t[p].delisted /\ (t[p].available <=> p \in sync[k].fit)
    <3>1. sync[k].fit = C!ToSet(sync[k].seen) \ sold
      BY <2>7, <1>0, CalmAlike
    <3>2. product[p].id # 0 /\ ~product[p].delisted /\ (product[p].available <=> p \in sync[k].fit)
      BY <2>7, <1>0 DEF Fetched
    <3>3. p \in Products
      BY <2>7, <1>0 DEF C!ToSet, Runs
    <3>4. CASE p \in C!ToSet(run.seen)
      BY <3>1, <3>4, <2>2, <2>6, <2>7
    <3>5. CASE p \notin C!ToSet(run.seen)
      BY <3>2, <3>3, <3>5, <2>2
    <3>. QED  BY <3>4, <3>5
  <2>8. ASSUME settled, run.calm, Len(shop) <= PageBound
        PROVE  C!OnSale(t) = {shop[i] : i \in 1..Len(shop)} \ sold
    <3>1. C!OnSale(product) = {shop[i] : i \in 1..Len(shop)} \ sold
      <4>1. Len(shop) \in Nat /\ PageBound \in Nat
        BY <1>0, SizesAssumption
      <4>. QED  BY <4>1, <1>0, <2>8 DEF C!CatalogFollowsShop
    <3>2. C!ToSet(run.seen) = {shop[i] : i \in 1..Len(shop)} /\ run.fit = C!ToSet(run.seen) \ sold
      BY <2>6, <2>8
    <3>3. ASSUME NEW p \in Products
          PROVE  p \in C!OnSale(t) <=> p \in C!ToSet(run.seen) \ sold
      <4>1. CASE p \in C!ToSet(run.seen)
        BY <4>1, <3>2, <2>2 DEF C!OnSale
      <4>2. CASE p \notin C!ToSet(run.seen)
        <5>1. p \notin C!OnSale(product)
          BY <4>2, <3>1, <3>2
        <5>. QED  BY <5>1, <4>2, <2>2 DEF C!OnSale
      <4>. QED  BY <4>1, <4>2
    <3>4. C!OnSale(t) \subseteq Products /\ C!ToSet(run.seen) \subseteq Products
      BY <1>0 DEF C!OnSale, C!ToSet, Runs
    <3>5. C!OnSale(t) = C!ToSet(run.seen) \ sold
      BY <3>3, <3>4
    <3>. QED  BY <3>2, <3>5
  <2>9. settled' \in BOOLEAN
    BY <2>1, <2>4, <1>0
  <2>10. settled' => C!OnSale(t) = {shop[i] : i \in 1..Len(shop)} \ sold \/ Len(shop) > PageBound
    <3>1. Len(shop) \in Nat /\ PageBound \in Nat
      BY <1>0, SizesAssumption
    <3>2. settled' => settled /\ run.calm
      BY <2>1, Zenon
    <3>3. Len(shop) <= PageBound \/ Len(shop) > PageBound
      BY <3>1
    <3>. QED  BY <3>2, <3>3, <2>8
  <2>11. Len(x.seen) <= PageBound
    BY <1>0, <2>4
  <2>12. \A k \in Slots \ {s} : sync[k].at = "reconcile" /\ sync[k].calm /\ sync[s].calm =>
           \A p \in C!ToSet(sync[k].seen) :
             t[p].id # 0 /\ ~t[p].delisted /\ (t[p].available <=> p \in sync[k].fit)
    BY <2>7 DEF run
  <2>. QED  BY <2>1, <2>2, <2>4, <2>5, <2>9, <2>10, <2>11, <2>12, RunWrites
<1>. QED  BY <1>1, <1>2

\* The delisting of a run.
LEMMA ReconcileKeeps ==
    ASSUME Stocked, NEW s \in Slots, C!Reconcile(s)
    PROVE  Stocked'
<1>. DEFINE run == sync[s]
            t == [p \in Products |->
                    IF p \in C!ToSet(run.seen) \/ product[p].id = 0 THEN product[p]
                    ELSE [product[p] EXCEPT !.delisted = TRUE]]
<1>0. /\ run \in Runs /\ Len(run.seen) <= PageBound /\ Fetched(run) /\ run.at = "reconcile"
      /\ CatalogTyped /\ Numbered(product) /\ shop \in Seq(Products)
      /\ product \in Rows
      /\ \A k \in Slots : sync[k] \in Runs /\ Len(sync[k].seen) <= PageBound /\ Fetched(sync[k])
  BY DEF Stocked, CatalogTyped, C!Reconcile
<1>1. CASE run.seen = <<>>
  <2>1. sync' = [sync EXCEPT ![s] = C!NoSync] /\ UNCHANGED <<shop, sold, product, reader, settled>>
    BY <1>1 DEF C!Reconcile
  <2>. QED  BY <2>1, OverIsKept, RunTurns
<1>2. CASE run.seen # <<>>
  <2>1. C!Save(t) /\ C!Wrote(s, C!NoSync) /\ settled' = run.calm /\ UNCHANGED <<shop, sold>>
    BY <1>2 DEF C!Reconcile
  <2>. HIDE DEF run
  <2>2. ASSUME NEW p \in Products
        PROVE  /\ product[p] \in [id : 0..N, available : BOOLEAN, delisted : BOOLEAN]
               /\ p \in C!ToSet(run.seen) \/ product[p].id = 0 => t[p] = product[p]
               /\ ~(p \in C!ToSet(run.seen) \/ product[p].id = 0) => t[p] = [product[p] EXCEPT !.delisted = TRUE]
    BY <1>0 DEF Rows
  <2>3. t = [p \in Products |-> t[p]]
    OBVIOUS
  <2>. HIDE DEF t
  <2>4. ASSUME NEW p \in Products
        PROVE  /\ t[p] \in [id : 0..N, available : BOOLEAN, delisted : BOOLEAN]
               /\ t[p].id = product[p].id
               /\ ~(p \in C!ToSet(run.seen) \/ product[p].id = 0) => t[p].delisted
    BY <2>2
  <2>5. t \in Rows
    BY <2>3, <2>4 DEF Rows
  <2>6. Listed(t) = Listed(product)
    BY <2>4 DEF Listed
  <2>7. Numbered(t)
    <3>1. Listed(product) \subseteq Products
      BY DEF Listed
    <3>. QED  BY <3>1, <2>4, <2>6, <1>0 DEF Numbered
  <2>8. \A p \in Products : product[p].id # 0 => t[p].id = product[p].id
    BY <2>4
  <2>9. ASSUME run.calm
        PROVE  /\ run.fit = C!ToSet(run.seen) \ sold
               /\ C!ToSet(run.seen) = {shop[i] : i \in 1..Len(run.seen)}
               /\ Len(run.seen) = IF Len(shop) <= PageBound THEN Len(shop) ELSE PageBound
    BY <2>9, <1>0, CalmAlike
  <2>10. ASSUME NEW k \in Slots, sync[k].at = "reconcile", sync[k].calm, run.calm,
                NEW p \in C!ToSet(sync[k].seen)
         PROVE  t[p].id # 0 /\ ~t[p].delisted /\ (t[p].available <=> p \in sync[k].fit)
    <3>1. /\ C!ToSet(sync[k].seen) = {shop[i] : i \in 1..Len(sync[k].seen)}
          /\ Len(sync[k].seen) = IF Len(shop) <= PageBound THEN Len(shop) ELSE PageBound
      BY <2>10, <1>0, CalmAlike
    <3>2. p \in C!ToSet(run.seen)
      BY <3>1, <2>9, <2>10
    <3>3. product[p].id # 0 /\ ~product[p].delisted /\ (product[p].available <=> p \in sync[k].fit)
      BY <2>10, <1>0 DEF Fetched
    <3>4. p \in Products
      BY <2>10, <1>0 DEF C!ToSet, Runs
    <3>. QED  BY <3>2, <3>3, <3>4, <2>2
  <2>11. ASSUME run.calm, Len(shop) <= PageBound
         PROVE  C!OnSale(t) = {shop[i] : i \in 1..Len(shop)} \ sold
    <3>1. C!ToSet(run.seen) = {shop[i] : i \in 1..Len(shop)} /\ run.fit = C!ToSet(run.seen) \ sold
      BY <2>9, <2>11
    <3>2. ASSUME NEW p \in Products
          PROVE  p \in C!OnSale(t) <=> p \in C!ToSet(run.seen) \ sold
      <4>1. CASE p \in C!ToSet(run.seen)
        <5>1. product[p].id # 0 /\ ~product[p].delisted /\ (product[p].available <=> p \in run.fit)
          BY <4>1, <1>0, <2>11 DEF Fetched
        <5>. QED  BY <5>1, <4>1, <3>1, <2>2 DEF C!OnSale
      <4>2. CASE p \notin C!ToSet(run.seen)
        BY <4>2, <2>4 DEF C!OnSale
      <4>. QED  BY <4>1, <4>2
    <3>3. C!OnSale(t) \subseteq Products /\ C!ToSet(run.seen) \subseteq Products
      BY <1>0 DEF C!OnSale, C!ToSet, Runs
    <3>4. C!OnSale(t) = C!ToSet(run.seen) \ sold
      BY <3>2, <3>3
    <3>. QED  BY <3>1, <3>4
  <2>12. settled' \in BOOLEAN
    BY <2>1, <1>0 DEF Runs
  <2>13. settled' => C!OnSale(t) = {shop[i] : i \in 1..Len(shop)} \ sold \/ Len(shop) > PageBound
    <3>1. Len(shop) \in Nat /\ PageBound \in Nat
      BY <1>0, SizesAssumption
    <3>. QED  BY <3>1, <2>1, <2>11
  <2>14. Fetched(C!NoSync)'
    BY DEF Fetched, C!NoSync
  <2>15. \A k \in Slots \ {s} : sync[k].at = "reconcile" /\ sync[k].calm /\ sync[s].calm =>
           \A p \in C!ToSet(sync[k].seen) :
             t[p].id # 0 /\ ~t[p].delisted /\ (t[p].available <=> p \in sync[k].fit)
    BY <2>10 DEF run
  <2>. QED  BY <2>1, <2>5, <2>7, <2>8, <2>12, <2>13, <2>14, <2>15, OverIsKept, RunWrites
<1>. QED  BY <1>1, <1>2

\* The shop changes: no run under way is calm any more.
LEMMA ShopKeeps ==
    ASSUME Stocked, C!ShopChanges
    PROVE  Stocked'
<1>. DEFINE other(k) == IF sync[k].at = "idle" THEN sync[k] ELSE [sync[k] EXCEPT !.calm = FALSE]
<1>1. /\ settled' = FALSE /\ sync' = [k \in Slots |-> other(k)]
      /\ UNCHANGED <<product, reader>>
  BY DEF C!ShopChanges
<1>2. shop' \in Seq(Products) /\ C!IsInjective(shop') /\ sold' \subseteq Products
  <2>0. shop \in Seq(Products) /\ C!IsInjective(shop) /\ sold \subseteq Products
    BY DEF Stocked, CatalogTyped
  <2>1. CASE \E p \in Products \ C!ToSet(shop) : shop' = <<p>> \o shop /\ UNCHANGED sold
    BY <2>0, <2>1, ShopShifts
  <2>2. CASE \E i \in DOMAIN shop : shop' = C!RemoveAt(shop, i) /\ UNCHANGED sold
    BY <2>0, <2>2, ShopShifts
  <2>3. CASE \E p \in Products :
               sold' = (IF p \in sold THEN sold \ {p} ELSE sold \cup {p}) /\ UNCHANGED shop
    BY <2>0, <2>3
  <2>. QED  BY <2>1, <2>2, <2>3 DEF C!ShopChanges
<1>3. ASSUME NEW k \in Slots
      PROVE  /\ other(k) \in Runs /\ other(k).at = sync[k].at /\ other(k).page = sync[k].page
             /\ other(k).seen = sync[k].seen
             /\ other(k).at = "idle" \/ ~other(k).calm
  BY DEF Stocked, CatalogTyped, Runs
<1>. HIDE DEF other
<1>4. sync' \in [Slots -> Runs] /\ \A k \in Slots : sync'[k] = other(k)
  BY <1>1, <1>3
<1>5. CatalogTyped'
  <2>1. \A k \in Slots : Len(sync'[k].seen) <= PageBound
    BY <1>3, <1>4 DEF Stocked, CatalogTyped
  <2>2. C!IsInjective(shop)'
    BY <1>2 DEF C!IsInjective
  <2>. QED  BY <1>1, <1>2, <1>4, <2>1, <2>2 DEF Stocked, CatalogTyped
<1>6. \A k \in Slots : Fetched(sync[k])'
  <2>1. \A k \in Slots : sync[k].at = "fetch" => Len(sync[k].seen) < sync[k].page
    BY DEF Stocked, Fetched
  <2>. QED  BY <2>1, <1>3, <1>4 DEF Fetched
<1>7. Numbered(product)' /\ Walked(reader)' /\ C!CatalogFollowsShop'
  BY <1>1 DEF Stocked, Numbered, Listed, Walked, C!CatalogFollowsShop, C!OnSale
<1>. QED  BY <1>5, <1>6, <1>7 DEF Stocked

\* A reader opens the feed, or reads on.
LEMMA FeedKeeps ==
    ASSUME Stocked, C!OpenFeed \/ C!ReadOn
    PROVE  Stocked'
<1>0. /\ CatalogTyped /\ Numbered(product) /\ reader \in Readers /\ Walked(reader) /\ N \in Nat
  BY NIsNat DEF Stocked, CatalogTyped
<1>1. \E w : Going(w) /\ reader' = C!Page(w)
  <2>1. CASE C!OpenFeed
    <3>. DEFINE w == [C!NoReader EXCEPT !.steady = C!OnSale(product)]
    <3>1. /\ C!NoReader \in Readers /\ C!NoReader.cursor = 0 /\ C!NoReader.got = <<>>
      BY <1>0 DEF C!NoReader, Readers
    <3>2. C!OnSale(product) \subseteq Products
      BY DEF C!OnSale
    <3>. HIDE DEF C!NoReader
    <3>3. w \in Readers /\ w.cursor = 0 /\ w.got = <<>> /\ w.steady = C!OnSale(product)
      BY <3>1, <3>2 DEF Readers
    <3>. HIDE DEF w
    <3>4. C!ToSet(w.got) = {} /\ C!IsInjective(w.got)
      BY <3>3 DEF C!ToSet, C!IsInjective
    <3>5. Going(w)
      BY <3>3, <3>4 DEF Going
    <3>6. reader' = C!Page(w)
      BY <2>1 DEF C!OpenFeed, w
    <3>. QED  BY <3>5, <3>6
  <2>2. CASE C!ReadOn
    <3>1. Going(reader) /\ reader' = C!Page(reader)
      BY <2>2, <1>0 DEF C!ReadOn, Walked, Going
    <3>. QED  BY <3>1
  <2>. QED  BY <2>1, <2>2
<1>2. UNCHANGED <<shop, sold, product, sync, settled>>
  BY DEF C!OpenFeed, C!ReadOn
<1>3. PICK w : Going(w) /\ reader' = C!Page(w)
  BY <1>1
<1>4. reader' \in Readers /\ Walked(reader')
  BY <1>0, <1>3, PageShows
<1>5. Walked(reader)'
  BY <1>2, <1>4 DEF Walked, C!OnSale
<1>6. \A k \in Slots : Fetched(sync[k])'
  BY <1>2 DEF Stocked, Fetched
<1>. QED  BY <1>2, <1>4, <1>5, <1>6 DEF Stocked, CatalogTyped, Numbered, Listed, C!CatalogFollowsShop, C!OnSale

\* At the start there is nothing.
LEMMA InitCatalog == C!Init => CatalogKept
<1>. SUFFICES ASSUME C!Init PROVE Stocked
  BY StockedIs
<1>0. N \in Nat /\ C!NoSync \in Runs /\ Len(C!NoSync.seen) <= PageBound /\ Fetched(C!NoSync)
  BY NIsNat, OverIsKept
<1>1. /\ shop = <<>> /\ sold = {} /\ product = [p \in Products |-> C!NoRow]
      /\ sync = [s \in Slots |-> C!NoSync] /\ reader = C!NoReader /\ settled = FALSE
  BY DEF C!Init
<1>2. C!NoRow \in [id : 0..N, available : BOOLEAN, delisted : BOOLEAN] /\ C!NoRow.id = 0
  BY <1>0 DEF C!NoRow
<1>3. C!NoReader \in Readers /\ C!NoReader.at = "idle" /\ C!NoReader.got = <<>> /\ C!NoReader.steady = {}
  BY <1>0 DEF C!NoReader, Readers
<1>4. C!IsInjective(<<>>) /\ C!ToSet(<<>>) = {}
  BY DEF C!IsInjective, C!ToSet
<1>5. CatalogTyped
  <2>1. shop \in Seq(Products) /\ C!IsInjective(shop) /\ sold \subseteq Products /\ settled \in BOOLEAN
    <3>0. <<>> \in Seq(Products)
      OBVIOUS
    <3>1. shop \in Seq(Products) /\ sold \subseteq Products /\ settled \in BOOLEAN
      BY <1>1, <3>0, Zenon
    <3>2. C!IsInjective(shop)
      BY <1>1, <1>4, Zenon
    <3>. QED  BY <3>1, <3>2
  <2>2. product \in Rows
    BY <1>1, <1>2 DEF Rows
  <2>3. sync \in [Slots -> Runs] /\ \A s \in Slots : Len(sync[s].seen) <= PageBound
    BY <1>0, <1>1
  <2>4. reader \in Readers
    BY <1>1, <1>3
  <2>. QED  BY <2>1, <2>2, <2>3, <2>4 DEF CatalogTyped
<1>6. Numbered(product)
  <2>1. Listed(product) = {}
    BY <1>1, <1>2 DEF Listed
  <2>. QED  BY <2>1, <1>1, <1>2, FS_EmptySet DEF Numbered
<1>7. \A s \in Slots : Fetched(sync[s])
  BY <1>0, <1>1
<1>8. Walked(reader) /\ C!CatalogFollowsShop
  BY <1>1, <1>3, <1>4 DEF Walked, C!CatalogFollowsShop
<1>. QED  BY <1>5, <1>6, <1>7, <1>8 DEF Stocked

\* Every step of the catalogue keeps it.
LEMMA CatalogStep == CatalogKept /\ [C!Next]_cvars => CatalogKept'
<1>1. CatalogKept <=> Stocked
  BY StockedIs
<1>2. CatalogKept' <=> Stocked'
  BY StockedIs, PTL
<1>3. ASSUME Stocked, C!Next PROVE Stocked'
  BY <1>3, RunStepKeeps, UpsertKeeps, ReconcileKeeps, ShopKeeps, FeedKeeps DEF C!Next
<1>4. ASSUME Stocked, UNCHANGED cvars PROVE Stocked'
  <2>1. UNCHANGED <<shop, sold, product, sync, reader, settled>>
    BY <1>4 DEF cvars
  <2>2. \A k \in Slots : Fetched(sync[k])'
    BY <2>1, <1>4 DEF Stocked, Fetched
  <2>. QED  BY <2>1, <2>2, <1>4 DEF Stocked, CatalogTyped, Numbered, Listed, Walked, C!CatalogFollowsShop, C!OnSale
<1>. QED  BY <1>1, <1>2, <1>3, <1>4

\* And it is what the run asks of the catalogue.
LEMMA CatalogAgrees == CatalogKept => C!TypeOK /\ C!CatalogFollowsShop /\ C!WalkIsWhole
BY DEF CatalogKept, Walked, C!WalkIsWhole

-----------------------------------------------------------------------------
(* Proofs about the jobs *)

\* The types of the jobs.
M == Cardinality(Options)
Postings == [id : 0..M, views : 0..ViewBound, recent : BOOLEAN]
Scrapings == [at : {"idle", "upsert"}, found : SUBSET Options,
              views : [Options -> 0..ViewBound], recent : SUBSET Options]
Walks == [at : {"idle", "more", "done"}, last : Postings, got : SUBSET Options,
          twice : SUBSET Options, still : SUBSET Options]

LEMMA JobTypes ==
    /\ F!Posting = Postings /\ F!Scrape = Scrapings /\ F!Walk = Walks
    /\ IsFiniteSet(Options) /\ M \in Nat /\ ViewBound \in Nat
    /\ F!TypeOK <=> posting \in [Options -> Postings] /\ scrape \in [One -> Scrapings] /\ walk \in Walks
<1>1. IsFiniteSet(Options) /\ M \in Nat /\ F!Cardinality(Options) = M /\ ViewBound \in Nat
  BY FiniteAssumption, SizesAssumption, FS_CardinalityType, CountsAlike DEF M
<1>2. F!Posting = Postings /\ F!Scrape = Scrapings
  BY <1>1 DEF F!Posting, Postings, F!Views, F!Scrape, Scrapings
<1>3. F!Walk = Walks
  BY <1>2 DEF F!Walk, Walks
<1>. QED  BY <1>1, <1>2, <1>3 DEF F!TypeOK

\* The order of the feed.
LEMMA FeedOrder ==
    ASSUME NEW a \in Postings, NEW b \in Postings, NEW c \in Postings
    PROVE  /\ ~F!Before(a, a)
           /\ F!Before(a, b) /\ F!Before(b, c) => F!Before(a, c)
           /\ F!Before(a, b) <=> a.views < b.views \/ (a.views = b.views /\ a.id < b.id)
<1>. a.views \in Nat /\ b.views \in Nat /\ c.views \in Nat /\ a.id \in Nat /\ b.id \in Nat /\ c.id \in Nat
  BY JobTypes DEF Postings
<1>. QED  BY DEF F!Before

\* Of some jobs in the feed one is on top.
LEMMA TopIsTop ==
    ASSUME F!TypeOK, PostedApart, NEW R \in SUBSET Options, R # {}, \A j \in R : F!InFeed(j)
    PROVE  LET top == CHOOSE j \in R : \A k \in R \ {j} : F!Before(posting[k], posting[j])
           IN  top \in R /\ \A k \in R \ {top} : F!Before(posting[k], posting[top])
<1>0. /\ \A j \in Options : /\ posting[j] \in Postings
                            /\ posting[j].views \in 0..ViewBound /\ posting[j].id \in 0..M
      /\ M \in Nat /\ ViewBound \in Nat
  BY JobTypes DEF Postings
<1>. DEFINE V == {posting[j].views : j \in R}
<1>1. PICK v \in V : \A y \in V : y <= v
  <2>1. V \in SUBSET (0..ViewBound) /\ V # {}
    BY <1>0
  <2>. HIDE DEF V
  <2>. QED  BY <2>1, <1>0, Largest
<1>. DEFINE best == {j \in R : posting[j].views = v}
            D == {posting[j].id : j \in best}
<1>2. PICK d \in D : \A y \in D : y <= d
  <2>1. D \in SUBSET (0..M) /\ D # {}
    BY <1>0, <1>1
  <2>. HIDE DEF D
  <2>. QED  BY <2>1, <1>0, Largest
<1>3. PICK t \in best : posting[t].id = d
  BY <1>2
<1>4. ASSUME NEW k \in R \ {t} PROVE F!Before(posting[k], posting[t])
  <2>1. /\ k \in Options /\ t \in Options /\ posting[t].views = v /\ posting[k].views <= v
        /\ posting[k].views \in Nat /\ v \in Nat /\ posting[k].id \in Nat /\ posting[t].id \in Nat
    BY <1>0, <1>1, <1>3
  <2>2. posting[k].id # posting[t].id
    BY <2>1, <1>3 DEF PostedApart, Posted, F!InFeed
  <2>3. posting[k].views = v => posting[k].id <= posting[t].id
    BY <1>2, <1>3
  <2>. QED  BY <2>1, <2>2, <2>3 DEF F!Before
<1>. QED  BY <1>3, <1>4

\* What a walk through the jobs that has still to go must be.
JobsGoing(w) ==
    /\ w \in Walks
    /\ \A j \in w.still : F!InFeed(j)
    /\ w.still \cap w.twice = {}
    /\ w.last.id = 0 => w.got = {}
    /\ \A j \in w.still \cap w.got : ~F!Before(posting[j], w.last)
    /\ \A j \in w.still \ w.got : w.last.id = 0 \/ F!Before(posting[j], w.last)

\* A page shows the reader the top of what comes after the cursor.
LEMMA JobsPage ==
    ASSUME F!TypeOK, PostedApart, NEW w, JobsGoing(w)
    PROVE  F!Page(w) \in Walks /\ JobsWalked(F!Page(w))
<1>. DEFINE rest == {j \in Options : F!InFeed(j) /\ F!PastCursor(posting[j], w.last)}
            top == CHOOSE j \in rest : \A k \in rest \ {j} : F!Before(posting[k], posting[j])
            v == F!Page(w)
<1>0. /\ w \in Walks /\ w.last \in Postings /\ w.got \subseteq Options /\ w.twice \subseteq Options
      /\ w.still \subseteq Options
      /\ \A j \in Options : posting[j] \in Postings
  BY JobTypes DEF JobsGoing, Walks
<1>1. \A j \in w.still \ w.got : j \in rest
  BY <1>0 DEF JobsGoing, F!PastCursor
<1>2. CASE rest = {}
  <2>1. v = [w EXCEPT !.at = "done"]
    BY <1>2 DEF F!Page
  <2>2. /\ v \in Walks /\ v.at = "done" /\ v.last = w.last /\ v.got = w.got /\ v.twice = w.twice
        /\ v.still = w.still
    BY <2>1, <1>0 DEF Walks
  <2>. HIDE DEF v, rest
  <2>3. JobsWalked(v)
    BY <2>2, <1>1, <1>2 DEF JobsGoing, JobsWalked
  <2>. QED  BY <2>2, <2>3 DEF v
<1>3. CASE rest # {}
  <2>1. top \in rest /\ \A k \in rest \ {top} : F!Before(posting[k], posting[top])
    <3>1. rest \in SUBSET Options /\ \A j \in rest : F!InFeed(j)
      OBVIOUS
    <3>. HIDE DEF rest
    <3>. QED  BY <3>1, <1>3, TopIsTop
  <2>2. v = [w EXCEPT !.got = @ \cup {top}, !.twice = @ \cup ({top} \cap w.got),
                      !.last = posting[top],
                      !.at = IF F!Cardinality(rest) > 1 THEN "more" ELSE "done"]
    BY <1>3 DEF F!Page
  <2>3. /\ top \in Options /\ posting[top] \in Postings /\ posting[top].id # 0
        /\ w.last.id = 0 \/ F!Before(posting[top], w.last)
    BY <2>1, <1>0 DEF F!InFeed, F!PastCursor
  <2>4. F!Cardinality(rest) > 1 \/ rest = {top}
    <3>1. IsFiniteSet(rest)
      <4>1. rest \in SUBSET Options
        OBVIOUS
      <4>. QED  BY <4>1, JobTypes, FS_Subset
    <3>2. Cardinality(rest) \in Nat /\ (Cardinality(rest) = 0 <=> rest = {})
          /\ (Cardinality(rest) = 1 <=> \E x : rest = {x})
      BY <3>1, FS_CardinalityType, FS_EmptySet, FS_Singleton
    <3>. QED  BY <3>2, <2>1, CountsAlike
  <2>. HIDE DEF rest, top
  <2>. DEFINE at == IF F!Cardinality(rest) > 1 THEN "more" ELSE "done"
  <2>13. at \in {"more", "done"}
    OBVIOUS
  <2>14. v = [w EXCEPT !.got = @ \cup {top}, !.twice = @ \cup ({top} \cap w.got),
                       !.last = posting[top], !.at = at]
    BY <2>2
  <2>. HIDE DEF at, v
  <2>5. /\ v \in Walks /\ v.got = w.got \cup {top} /\ v.twice = w.twice \cup ({top} \cap w.got)
        /\ v.last = posting[top] /\ v.still = w.still
        /\ v.at = at
    BY <2>3, <2>13, <2>14, <1>0 DEF Walks
  <2>6. v.still \cap v.twice = {}
    <3>1. ASSUME top \in w.still \cap w.got PROVE FALSE
      BY <3>1, <2>3 DEF JobsGoing
    <3>. QED  BY <3>1, <2>5 DEF JobsGoing
  <2>7. ASSUME NEW j \in v.still \cap v.got PROVE ~F!Before(posting[j], v.last)
    <3>1. posting[j] \in Postings
      BY <2>5, <1>0
    <3>2. CASE j = top
      BY <3>1, <3>2, <2>5, FeedOrder
    <3>3. CASE j # top
      <4>1. j \in w.still \cap w.got
        BY <3>3, <2>5
      <4>2. ~F!Before(posting[j], w.last) /\ F!Before(posting[top], w.last)
        BY <4>1, <2>3 DEF JobsGoing
      <4>. QED  BY <3>1, <4>2, <2>3, <2>5, <1>0, FeedOrder
    <3>. QED  BY <3>2, <3>3
  <2>8. ASSUME NEW j \in v.still \ v.got PROVE j \in rest \ {top}
    BY <1>1, <2>5
  <2>9. v.at = "more" => v.last.id # 0 /\ \A j \in v.still \ v.got : F!Before(posting[j], v.last)
    BY <2>1, <2>3, <2>5, <2>8
  <2>10. v.at = "done" => v.still \subseteq v.got
    BY <2>4, <2>5, <2>8 DEF at
  <2>11. \A j \in v.still : F!InFeed(j)
    BY <2>5 DEF JobsGoing
  <2>12. JobsWalked(v)
    BY <2>6, <2>7, <2>9, <2>10, <2>11 DEF JobsWalked
  <2>. QED  BY <2>5, <2>12 DEF v
<1>. QED  BY <1>2, <1>3

\* A table is written: the walk of the reader goes on with what has stood still.
LEMMA JobsSaved ==
    ASSUME JobsKept, NEW t \in [Options -> Postings], F!Save(t), PostedApart',
           scrape' \in [One -> Scrapings]
    PROVE  JobsKept'
<1>0. walk \in Walks /\ JobsWalked(walk) /\ walk.still \subseteq Options
  BY JobTypes DEF JobsKept, Walks
<1>1. posting' = t /\ walk' = [walk EXCEPT !.still = {j \in @ : t[j] = posting[j]}]
  BY DEF F!Save
<1>2. /\ walk' \in Walks /\ walk'.at = walk.at /\ walk'.last = walk.last /\ walk'.got = walk.got
      /\ walk'.twice = walk.twice /\ walk'.still = {j \in walk.still : t[j] = posting[j]}
  BY <1>0, <1>1 DEF Walks
<1>3. F!TypeOK'
  <2>1. F!TypeOK' <=> posting' \in [Options -> Postings] /\ scrape' \in [One -> Scrapings] /\ walk' \in Walks
    BY JobTypes DEF F!TypeOK
  <2>. QED  BY <2>1, <1>1, <1>2
<1>4. \A j \in walk'.still : j \in walk.still /\ posting'[j] = posting[j]
  BY <1>1, <1>2
<1>5. JobsWalked(walk)'
  BY <1>0, <1>2, <1>4 DEF JobsWalked, F!InFeed
<1>. QED  BY <1>3, <1>5 DEF JobsKept

\* The runs of the scraper.
LEMMA ScrapeKeeps ==
    ASSUME JobsKept, NEW s \in One, F!ReadBoard(s) \/ F!Stop(s)
    PROVE  JobsKept'
<1>0. /\ posting \in [Options -> Postings] /\ scrape \in [One -> Scrapings] /\ walk \in Walks
      /\ JobsWalked(walk) /\ ViewBound \in Nat
  BY JobTypes DEF JobsKept
<1>1. UNCHANGED <<posting, walk>>
  BY DEF F!ReadBoard, F!Stop
<1>2. F!NoScrape \in Scrapings
  BY <1>0 DEF F!NoScrape, Scrapings
<1>3. scrape' \in [One -> Scrapings]
  <2>1. CASE F!ReadBoard(s)
    <3>0. PICK found \in (SUBSET Options) \ {{}} :
            \E counts \in [found -> F!Views], recent \in SUBSET found :
              scrape' = [scrape EXCEPT ![s] =
                [at |-> "upsert", found |-> found, recent |-> recent,
                 views |-> [j \in Options |-> IF j \in found THEN counts[j] ELSE 0]]]
      BY <2>1 DEF F!ReadBoard
    <3>1. PICK counts \in [found -> F!Views], recent \in SUBSET found :
            scrape' = [scrape EXCEPT ![s] =
              [at |-> "upsert", found |-> found, recent |-> recent,
               views |-> [j \in Options |-> IF j \in found THEN counts[j] ELSE 0]]]
      BY <3>0
    <3>. DEFINE counted == [j \in Options |-> IF j \in found THEN counts[j] ELSE 0]
    <3>2. counted \in [Options -> 0..ViewBound]
      BY <1>0 DEF F!Views
    <3>3. scrape' = [scrape EXCEPT ![s] =
                       [at |-> "upsert", found |-> found, recent |-> recent, views |-> counted]]
      BY <3>1
    <3>. HIDE DEF counted
    <3>4. [at |-> "upsert", found |-> found, recent |-> recent, views |-> counted] \in Scrapings
      BY <3>2 DEF Scrapings
    <3>. QED  BY <3>3, <3>4, <1>0
  <2>2. CASE F!Stop(s)
    BY <2>2, <1>0, <1>2 DEF F!Stop
  <2>. QED  BY <2>1, <2>2
<1>4. F!TypeOK'
  <2>1. F!TypeOK' <=> posting' \in [Options -> Postings] /\ scrape' \in [One -> Scrapings] /\ walk' \in Walks
    BY JobTypes DEF F!TypeOK
  <2>. QED  BY <2>1, <1>0, <1>1, <1>3
<1>5. PostedApart' /\ JobsWalked(walk)'
  BY <1>0, <1>1 DEF JobsKept, PostedApart, Posted, JobsWalked, F!InFeed
<1>. QED  BY <1>4, <1>5 DEF JobsKept

\* A sequence of all of a finite set names each at one place.
LEMMA Placed ==
    ASSUME NEW S, IsFiniteSet(S), NEW f \in F!SetToSeqs(S)
    PROVE  /\ \A j \in S : (CHOOSE i \in DOMAIN f : f[i] = j) \in 1..Cardinality(S)
           /\ \A j \in S : f[CHOOSE i \in DOMAIN f : f[i] = j] = j
<1>1. F!Cardinality(S) = Cardinality(S) /\ Cardinality(S) \in Nat
  BY CountsAlike, FS_CardinalityType
<1>. DEFINE n == Cardinality(S)
<1>2. f \in [1..n -> S] /\ \A i, j \in 1..n : i # j => f[i] # f[j]
  BY <1>1 DEF F!SetToSeqs
<1>3. f \in Injection(1..n, S)
  BY <1>2 DEF Injection, IsInjective
<1>4. Cardinality(1..n) = n
  <2>1. 1 \in Int /\ n \in Int /\ n >= 0
    BY <1>1
  <2>. HIDE DEF n
  <2>2. Cardinality(1..n) = IF 1 > n THEN 0 ELSE n - 1 + 1
    BY <2>1, FS_Interval, Zenon
  <2>. QED  BY <2>1, <2>2
<1>5. f \in Surjection(1..n, S)
  BY <1>3, <1>4, FS_Injection, Zenon
<1>6. \A j \in S : \E i \in 1..n : f[i] = j
  BY <1>5 DEF Surjection
<1>7. DOMAIN f = 1..n
  BY <1>2
<1>. QED  BY <1>6, <1>7

\* The batch of a run numbers the jobs that are new, apart and upward.
LEMMA UpsertJobsKeeps ==
    ASSUME JobsKept, NEW s \in One, F!UpsertJobs(s)
    PROVE  JobsKept'
<1>. DEFINE run == scrape[s]
            known == {j \in Options : posting[j].id # 0}
            new == run.found \ known
<1>0. /\ posting \in [Options -> Postings] /\ scrape \in [One -> Scrapings] /\ walk \in Walks
      /\ JobsWalked(walk) /\ PostedApart /\ ViewBound \in Nat /\ M \in Nat /\ IsFiniteSet(Options)
  BY JobTypes DEF JobsKept
<1>1. /\ run \in Scrapings /\ run.found \subseteq Options /\ run.recent \subseteq Options
      /\ run.views \in [Options -> 0..ViewBound]
  BY <1>0 DEF Scrapings
<1>. DEFINE Number(news, j) == IF j \in known THEN posting[j].id
                               ELSE F!Cardinality(known) + (CHOOSE i \in DOMAIN news : news[i] = j)
            Table(news) == [j \in Options |->
                              IF j \notin run.found THEN posting[j]
                              ELSE [id |-> Number(news, j), views |-> run.views[j],
                                    recent |-> j \in run.recent]]
<1>2. PICK news \in F!SetToSeqs(new) : F!Save(Table(news))
  BY DEF F!UpsertJobs
<1>3. scrape' = [scrape EXCEPT ![s] = F!NoScrape]
  BY DEF F!UpsertJobs
<1>4. scrape' \in [One -> Scrapings]
  <2>1. F!NoScrape \in Scrapings
    BY <1>0 DEF F!NoScrape, Scrapings
  <2>. QED  BY <2>1, <1>0, <1>3
<1>5. known = Posted /\ known \subseteq Options /\ new \subseteq Options /\ known \cap new = {}
  BY <1>1 DEF Posted
<1>. DEFINE place(j) == CHOOSE i \in DOMAIN news : news[i] = j
            t == Table(news)
<1>. HIDE DEF run, known
<1>6. /\ IsFiniteSet(known) /\ Cardinality(known) \in Nat
      /\ IsFiniteSet(new) /\ Cardinality(new) \in Nat /\ F!Cardinality(known) = Cardinality(known)
  <2>1. known \in SUBSET Options /\ new \in SUBSET Options
    BY <1>5
  <2>. HIDE DEF new
  <2>. QED  BY <2>1, <1>0, FS_Subset, FS_CardinalityType, CountsAlike
<1>. HIDE DEF new
<1>7. IsFiniteSet(known \cup new) /\ Cardinality(known \cup new) = Cardinality(known) + Cardinality(new)
  <2>1. Cardinality(known \cap new) = 0
    BY <1>5, FS_EmptySet
  <2>2. /\ IsFiniteSet(known \cup new)
        /\ Cardinality(known \cup new)
             = Cardinality(known) + Cardinality(new) - Cardinality(known \cap new)
    BY <1>6, FS_Union
  <2>. QED  BY <2>1, <2>2, <1>6
<1>8. Cardinality(known) + Cardinality(new) <= M
  <2>1. known \cup new \in SUBSET Options
    BY <1>5
  <2>2. Cardinality(known \cup new) <= Cardinality(Options)
    BY <2>1, <1>0, FS_Subset
  <2>. QED  BY <2>2, <1>7 DEF M
<1>9. \A j \in new : place(j) \in 1..Cardinality(new) /\ news[place(j)] = j
  BY <1>2, <1>6, Placed
<1>. HIDE DEF place
<1>10. \A j \in Options : Number(news, j) = IF j \in known THEN posting[j].id ELSE Cardinality(known) + place(j)
  BY <1>6 DEF place
<1>11. ASSUME NEW j \in Options
       PROVE  posting[j] \in Postings /\ posting[j].id \in 0..M /\ posting[j].id <= Cardinality(known)
              /\ (j \in known <=> posting[j].id # 0)
  BY <1>0, <1>5 DEF Postings, PostedApart, Posted
<1>12. ASSUME NEW j \in Options, j \in known \/ j \in new
       PROVE  /\ Number(news, j) \in 0..M /\ Number(news, j) # 0
              /\ Number(news, j) <= Cardinality(known) + Cardinality(new)
              /\ j \in known => Number(news, j) = posting[j].id
              /\ j \in new => Number(news, j) = Cardinality(known) + place(j)
  <2>1. CASE j \in known
    <3>1. Number(news, j) = posting[j].id /\ j \notin new
      BY <2>1, <1>5, <1>10
    <3>. QED  BY <3>1, <2>1, <1>6, <1>11
  <2>2. CASE j \in new
    <3>1. Number(news, j) = Cardinality(known) + place(j) /\ j \notin known
      BY <2>2, <1>5, <1>10
    <3>2. place(j) \in Nat /\ place(j) >= 1 /\ place(j) <= Cardinality(new)
      BY <2>2, <1>6, <1>9
    <3>. QED  BY <3>1, <3>2, <1>0, <1>6, <1>8
  <2>. QED  BY <2>1, <2>2, <1>12
<1>. HIDE DEF Number
<1>13. \A j \in run.found : j \in known \/ j \in new
  BY DEF new
<1>14. ASSUME NEW j \in Options
       PROVE  /\ j \notin run.found => t[j] = posting[j]
              /\ j \in run.found =>
                   t[j] = [id |-> Number(news, j), views |-> run.views[j], recent |-> j \in run.recent]
  OBVIOUS
<1>15. t = [j \in Options |-> t[j]]
  OBVIOUS
<1>16. F!Save(t)
  BY <1>2
<1>. HIDE DEF t
<1>17. ASSUME NEW j \in Options PROVE t[j] \in Postings
  <2>1. CASE j \notin run.found
    BY <2>1, <1>11, <1>14
  <2>2. CASE j \in run.found
    <3>. DEFINE recent == j \in run.recent
    <3>1. recent \in BOOLEAN /\ run.views[j] \in 0..ViewBound /\ Number(news, j) \in 0..M
      BY <2>2, <1>1, <1>12, <1>13
    <3>2. t[j] = [id |-> Number(news, j), views |-> run.views[j], recent |-> recent]
      BY <2>2, <1>14
    <3>. HIDE DEF recent
    <3>. QED  BY <3>1, <3>2 DEF Postings
  <2>. QED  BY <2>1, <2>2
<1>18. t \in [Options -> Postings]
  BY <1>15, <1>17
<1>19. ASSUME NEW j \in Options
       PROVE  /\ j \in known => t[j].id = posting[j].id
              /\ j \in new => t[j].id = Cardinality(known) + place(j)
              /\ j \notin known \cup new => t[j].id = 0
              /\ j \in known \cup new => t[j].id # 0 /\ t[j].id <= Cardinality(known) + Cardinality(new)
  <2>1. CASE j \notin run.found
    <3>1. t[j].id = posting[j].id /\ j \notin new
      BY <2>1, <1>14 DEF new
    <3>. QED  BY <3>1, <1>6, <1>11
  <2>2. CASE j \in run.found
    <3>. DEFINE recent == j \in run.recent
    <3>2. t[j] = [id |-> Number(news, j), views |-> run.views[j], recent |-> recent]
      BY <2>2, <1>14
    <3>. HIDE DEF recent
    <3>1. t[j].id = Number(news, j) /\ (j \in known \/ j \in new)
      BY <3>2, <2>2, <1>13
    <3>. QED  BY <3>1, <1>12
  <2>. QED  BY <2>1, <2>2
<1>20. posting' = t
  BY <1>16 DEF F!Save
<1>21. Posted' = known \cup new
  <2>1. Posted' = {j \in Options : t[j].id # 0}
    BY <1>20 DEF Posted
  <2>. QED  BY <2>1, <1>5, <1>19
<1>22. ASSUME NEW j \in Options PROVE t[j].id <= Cardinality(known) + Cardinality(new)
  BY <1>6, <1>19
<1>23. ASSUME NEW j \in known \cup new, NEW k \in known \cup new, t[j].id = t[k].id PROVE j = k
  <2>0. j \in Options /\ k \in Options
    BY <1>5
  <2>1. CASE j \in known /\ k \in known
    <3>1. j \in Posted /\ k \in Posted /\ posting[j].id = posting[k].id
      BY <2>0, <2>1, <1>5, <1>19, <1>23
    <3>. QED  BY <3>1, <1>0 DEF PostedApart
  <2>2. CASE j \in new /\ k \in new
    <3>1. place(j) \in Nat /\ place(k) \in Nat
      BY <2>2, <1>6, <1>9
    <3>2. place(j) = place(k)
      BY <3>1, <2>0, <2>2, <1>6, <1>19, <1>23
    <3>. QED  BY <3>2, <2>2, <1>9
  <2>3. ASSUME NEW a \in known, NEW b \in new PROVE t[a].id # t[b].id
    <3>1. a \in Options /\ b \in Options /\ place(b) \in Nat /\ place(b) >= 1
      BY <1>5, <1>6, <1>9
    <3>2. t[a].id = posting[a].id /\ t[b].id = Cardinality(known) + place(b)
      BY <3>1, <1>19
    <3>3. posting[a].id <= Cardinality(known) /\ posting[a].id \in 0..M
      BY <3>1, <1>11
    <3>. QED  BY <3>1, <3>2, <3>3, <1>0, <1>6
  <2>. QED  BY <2>1, <2>2, <2>3, <1>23
<1>24. PostedApart'
  BY <1>7, <1>20, <1>21, <1>22, <1>23 DEF PostedApart
<1>. QED  BY <1>4, <1>16, <1>18, <1>24, JobsSaved

\* A job leaves the feed as it ages.
LEMMA AgeKeeps ==
    ASSUME JobsKept, NEW j \in Options, F!Age(j)
    PROVE  JobsKept'
<1>. DEFINE t == [posting EXCEPT ![j].recent = FALSE]
<1>0. posting \in [Options -> Postings] /\ scrape \in [One -> Scrapings] /\ PostedApart
  BY JobTypes DEF JobsKept
<1>1. F!Save(t) /\ scrape' = scrape
  BY DEF F!Age
<1>2. t \in [Options -> Postings] /\ \A k \in Options : t[k].id = posting[k].id
  BY <1>0 DEF Postings
<1>3. posting' = t
  BY <1>1 DEF F!Save
<1>. HIDE DEF t
<1>4. Posted' = Posted /\ Posted \subseteq Options
  BY <1>2, <1>3 DEF Posted
<1>5. PostedApart'
  BY <1>0, <1>2, <1>3, <1>4 DEF PostedApart
<1>. QED  BY <1>0, <1>1, <1>2, <1>5, JobsSaved

\* A reader opens the feed of jobs, or reads on.
LEMMA JobsFeedKeeps ==
    ASSUME JobsKept, F!OpenFeed \/ F!ReadOn
    PROVE  JobsKept'
<1>0. /\ F!TypeOK /\ PostedApart /\ walk \in Walks /\ JobsWalked(walk)
      /\ M \in Nat /\ ViewBound \in Nat
  BY JobTypes DEF JobsKept
<1>1. UNCHANGED <<posting, scrape>>
  BY DEF F!OpenFeed, F!ReadOn
<1>2. \E w : JobsGoing(w) /\ walk' = F!Page(w)
  <2>1. CASE F!OpenFeed
    <3>. DEFINE w == [F!NoWalk EXCEPT !.still = {j \in Options : F!InFeed(j)}]
    <3>0. F!NoPosting \in Postings /\ F!NoPosting.id = 0
      BY <1>0 DEF F!NoPosting, Postings
    <3>1. /\ F!NoWalk \in Walks /\ F!NoWalk.last = F!NoPosting /\ F!NoWalk.got = {}
          /\ F!NoWalk.twice = {}
      BY <3>0 DEF F!NoWalk, Walks
    <3>. HIDE DEF F!NoWalk
    <3>2. /\ w \in Walks /\ w.last.id = 0 /\ w.got = {} /\ w.twice = {}
          /\ w.still = {j \in Options : F!InFeed(j)}
      BY <3>0, <3>1 DEF Walks
    <3>3. walk' = F!Page(w)
      BY <2>1 DEF F!OpenFeed
    <3>. HIDE DEF w
    <3>4. JobsGoing(w)
      BY <3>2 DEF JobsGoing
    <3>. QED  BY <3>3, <3>4
  <2>2. CASE F!ReadOn
    <3>1. JobsGoing(walk) /\ walk' = F!Page(walk)
      BY <2>2, <1>0 DEF F!ReadOn, JobsWalked, JobsGoing
    <3>. QED  BY <3>1
  <2>. QED  BY <2>1, <2>2
<1>3. PICK w : JobsGoing(w) /\ walk' = F!Page(w)
  BY <1>2
<1>4. walk' \in Walks /\ JobsWalked(walk')
  BY <1>0, <1>3, JobsPage
<1>5. F!TypeOK'
  <2>1. F!TypeOK' <=> posting' \in [Options -> Postings] /\ scrape' \in [One -> Scrapings] /\ walk' \in Walks
    BY JobTypes DEF F!TypeOK
  <2>2. F!TypeOK <=> posting \in [Options -> Postings] /\ scrape \in [One -> Scrapings] /\ walk \in Walks
    BY JobTypes
  <2>. QED  BY <2>1, <2>2, <1>0, <1>1, <1>4
<1>6. PostedApart' /\ JobsWalked(walk)'
  BY <1>0, <1>1, <1>4 DEF PostedApart, Posted, JobsWalked, F!InFeed
<1>. QED  BY <1>5, <1>6 DEF JobsKept

\* At the start there are none.
LEMMA InitJobs == F!Init => JobsKept
<1>. SUFFICES ASSUME F!Init PROVE JobsKept
  OBVIOUS
<1>0. M \in Nat /\ ViewBound \in Nat
  BY JobTypes
<1>1. F!NoPosting \in Postings /\ F!NoPosting.id = 0 /\ F!NoScrape \in Scrapings
  BY <1>0 DEF F!NoPosting, Postings, F!NoScrape, Scrapings
<1>2. /\ F!NoWalk \in Walks /\ F!NoWalk.at = "idle" /\ F!NoWalk.still = {}
  BY <1>1 DEF F!NoWalk, Walks
<1>3. F!TypeOK
  BY <1>1, <1>2, JobTypes DEF F!Init
<1>4. Posted = {} /\ \A j \in Options : posting[j].id = 0
  BY <1>1 DEF F!Init, Posted
<1>5. PostedApart
  BY <1>4, FS_EmptySet DEF PostedApart
<1>6. JobsWalked(walk)
  BY <1>2 DEF F!Init, JobsWalked
<1>. QED  BY <1>3, <1>5, <1>6 DEF JobsKept

\* Every step of the jobs keeps it.
LEMMA JobsStep == JobsKept /\ [F!Next]_fvars => JobsKept'
<1>1. ASSUME JobsKept, F!Next PROVE JobsKept'
  BY <1>1, ScrapeKeeps, UpsertJobsKeeps, AgeKeeps, JobsFeedKeeps DEF F!Next
<1>2. ASSUME JobsKept, UNCHANGED fvars PROVE JobsKept'
  BY <1>2 DEF fvars, JobsKept, F!TypeOK, PostedApart, Posted, JobsWalked, F!InFeed
<1>. QED  BY <1>1, <1>2

\* And it is what the run asks of the jobs.
LEMMA JobsAgree == JobsKept => F!TypeOK /\ F!UnmovedShownOnce
BY DEF JobsKept, JobsWalked, F!UnmovedShownOnce

-----------------------------------------------------------------------------
(* Proofs about the process *)

\* The process keeps its types, and no query outlives the pool.
LEMMA InitProcess == P!Init => ProcessKept
BY DEF P!Init, ProcessKept, P!TypeOK, P!Ended

LEMMA ProcessStep == ProcessKept /\ [P!Next]_pvars => ProcessKept'
<1>. SUFFICES ASSUME ProcessKept, [P!Next]_pvars PROVE ProcessKept'
  OBVIOUS
<1>. USE DEF ProcessKept, P!TypeOK, P!Ended
<1>1. CASE P!Listen \/ P!DieYoung
  <2>1. CASE P!Listen
    <3>1. P!TypeOK'
      BY <2>1 DEF P!Listen
    <3>. QED  BY <3>1, <2>1 DEF P!Listen
  <2>2. CASE P!DieYoung
    BY <2>2 DEF P!DieYoung
  <2>. QED  BY <1>1, <2>1, <2>2
<1>2. ASSUME NEW w \in Slots, P!Begin(w) \/ P!Query(w) \/ P!QueryEnds(w) PROVE ProcessKept'
  <2>1. /\ process = "up" /\ process' = process /\ step' = step /\ watchdog' = watchdog
        /\ cron' = cron /\ clients' = clients /\ pool' = pool
    BY <1>2 DEF P!Begin, P!Query, P!QueryEnds
  <2>2. PICK x \in {"idle", "query", "between"} :
          work' = [work EXCEPT ![w] = x] /\ (x = "query" => pool = "open")
    <3>1. CASE P!Begin(w)
      BY <3>1 DEF P!Begin
    <3>2. CASE P!Query(w)
      BY <3>2 DEF P!Query
    <3>3. CASE P!QueryEnds(w)
      BY <3>3 DEF P!QueryEnds
    <3>. QED  BY <1>2, <3>1, <3>2, <3>3
  <2>. QED  BY <2>1, <2>2
<1>3. CASE P!Signal
  BY <1>3 DEF P!Signal
<1>4. CASE P!CloseHttp \/ P!StopCrons \/ P!WarnClients
  BY <1>4 DEF P!CloseHttp, P!StopCrons, P!WarnClients, P!Working
<1>5. CASE P!CloseSockets \/ P!CloseConnections
  BY <1>5 DEF P!CloseSockets, P!CloseConnections, P!Working
<1>6. CASE P!EndPool \/ P!PoolEnds
  BY <1>6 DEF P!EndPool, P!PoolEnds, P!Working
<1>7. CASE P!Exit \/ P!Force
  BY <1>7 DEF P!Exit, P!Force
<1>8. CASE UNCHANGED pvars
  BY <1>8 DEF pvars
<1>. QED  BY <1>1, <1>2, <1>3, <1>4, <1>5, <1>6, <1>7, <1>8 DEF P!Next

-----------------------------------------------------------------------------
(* Proofs about all of it *)

\* A piece rests while another moves.
LEMMA PlatformStep == PlatformKept /\ [PlatformNext]_platformVars => PlatformKept'
<1>. SUFFICES ASSUME PlatformKept, [PlatformNext]_platformVars PROVE PlatformKept'
  OBVIOUS
<1>1. /\ [U!Next]_uvars /\ [C!Next]_cvars /\ [F!Next]_fvars /\ [P!Next]_pvars
      /\ piece' = piece
  BY DEF PlatformNext, platformVars
<1>. QED  BY <1>1, FilesStep, CatalogStep, JobsStep, ProcessStep DEF PlatformKept

LEMMA PlatformIsKept == PlatformSpec => []PlatformKept
<1>1. PlatformInit => PlatformKept
  BY InitFiles, InitCatalog, InitJobs, InitProcess DEF PlatformInit, PlatformKept
<1>. QED  BY <1>1, PlatformStep, PTL DEF PlatformSpec

\* For every number of keys, products, pages, jobs and slots: while confirms neither
\* overlap nor repeat nor die, the picture that the row names is served, and what is
\* public is named, but for what the bucket failed to delete or move and what was put
\* there again; the products on sale are the shop's once a calm run has written; and walks
\* of the feeds are whole.  Of the documents that messages name it says no such thing.
THEOREM CopiesDoAgree == PlatformSpec => []CopiesAgree
<1>1. PlatformKept => CopiesAgree
  <2>. SUFFICES ASSUME PlatformKept PROVE CopiesAgree
    OBVIOUS
  <2>1. /\ U!TypeOK /\ U!NamedIsServed /\ U!PublicIsNamed
        /\ C!TypeOK /\ C!CatalogFollowsShop /\ C!WalkIsWhole
        /\ F!TypeOK /\ F!UnmovedShownOnce /\ P!TypeOK
    BY FilesAgree, CatalogAgrees, JobsAgree DEF PlatformKept, ProcessKept
  <2>2. piece \in {"uploads", "catalog", "sync overlap", "jobs", "process"}
    BY DEF PlatformKept
  <2>3. PlatformTypeOK
    BY <2>1, <2>2 DEF PlatformTypeOK
  <2>. QED  BY <2>1, <2>3 DEF CopiesAgree
<1>. QED  BY <1>1, PlatformIsKept, PTL

\* A process that ends cleanly cuts off no query: the pool has waited for them.
THEOREM CleanEndCutsNothing ==
    PlatformSpec => [](process = "clean" => \A w \in Slots : work[w] # "query")
<1>1. PlatformKept => (process = "clean" => \A w \in Slots : work[w] # "query")
  BY DEF PlatformKept, ProcessKept
<1>. QED  BY <1>1, PlatformIsKept, PTL

=============================================================================
