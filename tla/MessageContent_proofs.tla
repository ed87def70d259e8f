----------------------- MODULE MessageContent_proofs -----------------------
(***************************************************************************)
(* What TLAPS proves of MessageContent, for any number of requests, edits, *)
(* languages and images: audit, row and clients agree, moderation settles, *)
(* translations stay.                                                      *)
(***************************************************************************)
EXTENDS MessageContent, FiniteSetTheorems, SequenceTheorems, TLAPS

-----------------------------------------------------------------------------
(* Types, and the words of edits *)

\* A request past its read knows what it is about.
Locals ==
    \A r \in Requests :
       /\ req[r].pc \in {"edit", "editTell"} => req[r].words \in Words
       /\ At(r, "translate") => req[r].language \in Languages /\ req[r].source \in Source

\* The words replaced, those in the row and those on their way are all different:
\* this is what bounds the number of edits.
Fresh ==
    /\ \A i, j \in DOMAIN past : past[i] = past[j] => i = j
    /\ \A i \in DOMAIN past : past[i] # content
    /\ \A r \in Requests : At(r, "edit") =>
         /\ req[r].words # content
         /\ \A i \in DOMAIN past : past[i] # req[r].words
         /\ \A q \in Requests \ {r} : At(q, "edit") => req[q].words # req[r].words

\* An edit that is on its way still has room in the audit.
LEMMA RoomForEdit ==
    ASSUME TypeOK, Locals, Fresh, NEW r \in Requests, At(r, "edit")
    PROVE  Len(past) + 1 <= MaxEdits
<1>. DEFINE n == Len(past)
            f == [i \in 1..n+2 |-> IF i <= n THEN past[i]
                                   ELSE IF i = n + 1 THEN content ELSE req[r].words]
<1>1. n \in Nat /\ past \in Seq(Words) /\ DOMAIN past = 1..n /\ \A i \in 1..n : past[i] \in Words
  BY DEF TypeOK
<1>2. content \in Words /\ req[r].words \in Words
  BY DEF TypeOK, Locals, At
<1>3. f \in [1..n+2 -> Words]
  BY <1>1, <1>2
<1>4. ASSUME NEW i \in 1..n+2, NEW j \in 1..n+2, f[i] = f[j]
      PROVE  i = j
  <2>1. \A k \in 1..n : past[k] # content /\ past[k] # req[r].words
    BY <1>1 DEF Fresh
  <2>2. content # req[r].words
    BY DEF Fresh
  <2>3. \A k, l \in 1..n : past[k] = past[l] => k = l
    BY <1>1 DEF Fresh
  <2>4. \A k \in 1..n+2 : k \in 1..n \/ k = n+1 \/ k = n+2
    BY <1>1
  <2>. QED  BY <1>1, <1>4, <2>1, <2>2, <2>3, <2>4
<1>. HIDE DEF f
<1>5. f \in Injection(1..n+2, Words)
  BY <1>3, <1>4 DEF Injection, IsInjective
<1>6. IsFiniteSet(Words) /\ Cardinality(Words) = MaxEdits + 1
  BY EditsAssumption, FS_Interval DEF Words
<1>7. Cardinality(1..n+2) = n + 2
  BY <1>1, FS_Interval
<1>8. Cardinality(1..n+2) <= Cardinality(Words)
  BY <1>5, <1>6, FS_Injection
<1>. QED  BY <1>1, <1>6, <1>7, <1>8, EditsAssumption

LEMMA NoRequestTyped == NoRequest \in Request
BY EditsAssumption DEF NoRequest, Request, Untranslated, Cache, Words

\* What TypeOK and Locals say of the request in a slot.
RequestOK(x) ==
    /\ x \in Request
    /\ x.pc \in {"edit", "editTell"} => x.words \in Words
    /\ x.pc = "translate" => x.language \in Languages /\ x.source \in Source

RequestsOK == req \in [Requests -> Request] /\ Locals

LEMMA NoRequestOK == RequestOK(NoRequest)
<1>1. NoRequest.pc = "idle"
  BY DEF NoRequest
<1>. QED  BY <1>1, NoRequestTyped DEF RequestOK

LEMMA SlotTyped ==
    ASSUME RequestsOK, NEW r \in Requests, NEW x, RequestOK(x), req' = [req EXCEPT ![r] = x]
    PROVE  RequestsOK'
BY DEF RequestsOK, RequestOK, Locals, At

LEMMA AnswerTyped ==
    ASSUME RequestsOK, NEW r \in Requests, Answer(r)
    PROVE  RequestsOK'
BY NoRequestOK, SlotTyped DEF Answer

LEMMA GotoTyped ==
    ASSUME RequestsOK, NEW r \in Requests,
           NEW pc \in {"editTell", "delete", "deleteTell", "unpin", "pinTell"},
           pc = "editTell" => At(r, "edit"), Goto(r, pc)
    PROVE  RequestsOK'
<1>. DEFINE x == [req[r] EXCEPT !.pc = pc]
<1>1. RequestOK(x)
  BY DEF RequestsOK, RequestOK, Locals, At, Request
<1>. QED  BY <1>1, SlotTyped DEF Goto

LEMMA RequestsTyped == TypeOK /\ Locals /\ [Next]_vars => RequestsOK'
<1>. SUFFICES ASSUME TypeOK, Locals, [Next]_vars PROVE RequestsOK'
  OBVIOUS
<1>0. RequestsOK
  BY DEF TypeOK, RequestsOK
<1>n. NoRequest \in Request /\ NoRequest.pc = "idle"
  BY NoRequestTyped DEF NoRequest
<1>1. ASSUME NEW r \in Requests, NEW w \in Words, EditRead(r, w) PROVE RequestsOK'
  <2>. DEFINE x == [NoRequest EXCEPT !.pc = "edit", !.was = content, !.words = w]
  <2>1. RequestOK(x)
    BY <1>n DEF RequestOK, Request, TypeOK
  <2>. QED  BY <1>0, <1>1, <2>1, SlotTyped DEF EditRead
<1>2. ASSUME NEW r \in Requests,
             EditTx(r) \/ DeleteRead(r) \/ DeleteWrite(r) \/ UnpinCheck(r) \/ PinWrite(r)
      PROVE  RequestsOK'
  BY <1>0, <1>2, GotoTyped DEF EditTx, Replace, DeleteRead, DeleteWrite, UnpinCheck, PinWrite
<1>3. ASSUME NEW r \in Requests,
             EditTell(r) \/ DeleteTell(r) \/ TranslateWrite(r) \/ PinTell(r) \/ End(r)
      PROVE  RequestsOK'
  BY <1>0, <1>3, AnswerTyped DEF EditTell, DeleteTell, TranslateWrite, PinTell, End
<1>4. ASSUME NEW r \in Requests, NEW l \in Languages, TranslateRead(r, l) PROVE RequestsOK'
  <2>. DEFINE x == [NoRequest EXCEPT !.pc = "translate", !.language = l, !.source = SourceText,
                                     !.held = cache]
  <2>1. SourceText \in Source
    BY <1>4 DEF TranslateRead, SourceText, Source, TypeOK
  <2>2. RequestOK(x)
    BY <1>n, <2>1 DEF RequestOK, Request, TypeOK
  <2>. QED  BY <1>0, <1>4, <2>2, SlotTyped DEF TranslateRead
<1>5. ASSUME NEW r \in Requests, PinRead(r) PROVE RequestsOK'
  <2>. DEFINE x == [NoRequest EXCEPT !.pc = "pinCheck", !.was = content]
  <2>1. RequestOK(x)
    BY <1>n DEF RequestOK, Request, TypeOK
  <2>. QED  BY <1>0, <1>5, <2>1, SlotTyped DEF PinRead
<1>6. ASSUME NEW r \in Requests, PinCheck(r) PROVE RequestsOK'
  <2>. DEFINE x == [req[r] EXCEPT !.pc = "pin", !.words = req[r].was]
  <2>1. RequestOK(x)
    BY DEF RequestOK, Request, TypeOK
  <2>2. req' = [req EXCEPT ![r] = x]
    BY <1>6 DEF PinCheck, TypeOK, Request
  <2>. QED  BY <1>0, <2>1, <2>2, SlotTyped
<1>7. Moderate \/ JobEnds \/ LoseAuthority \/ UNCHANGED vars => UNCHANGED req
  BY DEF Moderate, JudgeImages, StoreImage, ReadImages, StripImages, JudgeVoice, SaveFails,
         SaveTranscript, DeleteVoice, UnlinkVoice, JobEnds, LoseAuthority, vars
<1>8. UNCHANGED req => RequestsOK'
  BY <1>0 DEF RequestsOK, Locals, At
<1>. QED
  BY <1>1, <1>2, <1>3, <1>4, <1>5, <1>6, <1>7, <1>8 DEF Next, Edit, Delete, Translate, Pin

\* TypeOK without the requests.
TablesOK ==
    /\ content \in Words /\ deleted \in BOOLEAN
    /\ images \subseteq Images /\ voice \in BOOLEAN
    /\ transcript \in {Nothing, Speech}
    /\ cache \in Cache
    /\ audit \in Seq(Words) /\ past \in Seq(Words)
    /\ Len(audit) = Len(past) /\ Len(past) <= MaxEdits
    /\ pin \in Words \cup {Nothing}
    /\ mayPin \in BOOLEAN /\ public \subseteq Objects
    /\ job \in Job
    /\ told \in [content : Words, deleted : BOOLEAN, images : SUBSET Images,
                 voice : BOOLEAN, pin : Words \cup {Nothing}]
    /\ loose \subseteq {"audit", "cache", "edit", "delete", "pin"}

LEMMA TablesTyped == TypeOK /\ Locals /\ Fresh /\ [Next]_vars => TablesOK'
<1>. SUFFICES ASSUME TypeOK, Locals, Fresh, [Next]_vars PROVE TablesOK'
  OBVIOUS
<1>0. TablesOK /\ req \in [Requests -> Request]
  BY DEF TypeOK, TablesOK
<1>1. ASSUME UNCHANGED <<row, audit, pin, public, told, past>>, mayPin' \in BOOLEAN,
             job' \in Job, loose' \subseteq {"audit", "cache", "edit", "delete", "pin"}
      PROVE  TablesOK'
  BY <1>0, <1>1 DEF TablesOK, row
<1>2. ASSUME NEW r \in Requests,
             \/ \E w \in Words : EditRead(r, w)
             \/ \E l \in Languages : TranslateRead(r, l)
             \/ DeleteRead(r) \/ PinRead(r) \/ PinCheck(r) \/ UnpinCheck(r)
      PROVE  TablesOK'
  <2>1. UNCHANGED <<row, audit, pin, public, told, past, mayPin, job, loose>>
    BY <1>2 DEF EditRead, TranslateRead, DeleteRead, PinRead, PinCheck, UnpinCheck, history
  <2>. QED  BY <1>0, <1>1, <2>1 DEF TablesOK
<1>3. ASSUME NEW r \in Requests, EditTx(r) PROVE TablesOK'
  <2>1. req[r].was \in Words /\ req[r].words \in Words
    BY <1>0, <1>3 DEF EditTx, Replace, Request, Locals, At
  <2>2. /\ audit' = audit \o <<req[r].was>> /\ past' = Append(past, content)
        /\ content' = req[r].words
        /\ loose' \subseteq loose \cup {"audit", "edit"}
        /\ UNCHANGED <<deleted, images, voice, transcript, cache, pin, mayPin, public, job, told>>
    BY <1>3 DEF EditTx, Replace
  <2>3. Len(past) + 1 <= MaxEdits
    BY <1>3, RoomForEdit DEF EditTx, Replace
  <2>4. audit' = Append(audit, req[r].was)
    BY <1>0, <2>1, <2>2, AppendIsConcat DEF TablesOK
  <2>5. /\ audit' \in Seq(Words) /\ Len(audit') = Len(audit) + 1
        /\ past' \in Seq(Words) /\ Len(past') = Len(past) + 1
    BY <1>0, <2>1, <2>2, <2>4, AppendProperties DEF TablesOK
  <2>. QED  BY <1>0, <2>1, <2>2, <2>3, <2>5 DEF TablesOK
<1>4. ASSUME NEW r \in Requests, EditTell(r) \/ DeleteTell(r) \/ PinTell(r) PROVE TablesOK'
  <2>1. req[r].words \in Words \cup {Nothing} /\ (At(r, "editTell") => req[r].words \in Words)
    BY <1>0 DEF Request, Locals, At
  <2>2. told' \in [content : Words, deleted : BOOLEAN, images : SUBSET Images,
                   voice : BOOLEAN, pin : Words \cup {Nothing}]
    BY <1>0, <1>4, <2>1 DEF EditTell, DeleteTell, PinTell, TablesOK
  <2>3. UNCHANGED <<row, audit, pin, mayPin, public, job, history>>
    BY <1>4 DEF EditTell, DeleteTell, PinTell
  <2>. QED  BY <1>0, <2>2, <2>3 DEF TablesOK, row, history
<1>5. ASSUME NEW r \in Requests, DeleteWrite(r) PROVE TablesOK'
  BY <1>0, <1>5 DEF DeleteWrite, TablesOK, history
<1>6. ASSUME NEW r \in Requests, TranslateWrite(r) PROVE TablesOK'
  <2>1. cache' \in Cache
    BY <1>0, <1>6 DEF TranslateWrite, Request, Cache, Locals
  <2>2. loose' \subseteq loose \cup {"cache"}
        /\ UNCHANGED <<content, deleted, images, voice, transcript, audit, pin, mayPin, public,
                       job, told, past>>
    BY <1>6 DEF TranslateWrite
  <2>. QED  BY <1>0, <2>1, <2>2 DEF TablesOK
<1>7. ASSUME NEW r \in Requests, PinWrite(r) PROVE TablesOK'
  <2>1. pin' \in Words \cup {Nothing} /\ loose' \subseteq loose \cup {"pin"}
    BY <1>0, <1>7 DEF PinWrite, Request
  <2>2. UNCHANGED <<row, audit, mayPin, public, job, told, past>>
    BY <1>7 DEF PinWrite
  <2>. QED  BY <1>0, <2>1, <2>2 DEF TablesOK, row
<1>8. ASSUME NEW r \in Requests, End(r) PROVE TablesOK'
  <2>1. loose' \subseteq loose \cup {"edit", "delete", "pin"}
    BY <1>8 DEF End, Untold
  <2>. QED  BY <1>0, <1>1, <1>8, <2>1 DEF End, TablesOK
<1>9. ASSUME NEW verdict, NEW enforced, JudgeImages(verdict, enforced) PROVE TablesOK'
  <2>. DEFINE hit == Enforced(verdict, enforced)
  <2>1. hit \subseteq Images
    BY DEF Enforced
  <2>. HIDE DEF hit
  <2>2. job' = [job EXCEPT !.hit = hit, !.left = hit, !.pc = IF hit = {} THEN "done" ELSE "store"]
    BY <1>9 DEF JudgeImages, hit
  <2>3. job' \in Job
    BY <1>0, <2>1, <2>2 DEF TablesOK, Job
  <2>. QED  BY <1>0, <1>1, <1>9, <2>3 DEF JudgeImages, TablesOK, history
<1>10. ASSUME NEW u \in Images, StoreImage(u) PROVE TablesOK'
  BY <1>0, <1>10 DEF StoreImage, TablesOK, Job, row, history
<1>11. CASE ReadImages \/ JobEnds
  <2>1. job' \in Job
    BY <1>0, <1>11 DEF ReadImages, JobEnds, TablesOK, Job
  <2>. QED  BY <1>0, <1>1, <1>11, <2>1 DEF ReadImages, JobEnds, TablesOK, history
<1>12. CASE StripImages
  <2>1. images' \subseteq Images /\ job' \in Job
    BY <1>0, <1>12 DEF StripImages, TablesOK, Job
  <2>2. told' = [told EXCEPT !.images = images']
    BY <1>12 DEF StripImages
  <2>3. told' \in [content : Words, deleted : BOOLEAN, images : SUBSET Images,
                   voice : BOOLEAN, pin : Words \cup {Nothing}]
    BY <1>0, <2>1, <2>2 DEF TablesOK
  <2>4. UNCHANGED <<content, deleted, voice, transcript, cache, audit, pin, mayPin, public,
                    history>>
    BY <1>12 DEF StripImages
  <2>. QED  BY <1>0, <2>1, <2>3, <2>4 DEF TablesOK, history
<1>13. ASSUME NEW verdict, NEW enforced, JudgeVoice(verdict, enforced) PROVE TablesOK'
  <2>1. job' \in Job
    BY <1>0, <1>13 DEF JudgeVoice, TablesOK, Job
  <2>. QED  BY <1>0, <1>1, <1>13, <2>1 DEF JudgeVoice, TablesOK, history
<1>14. ASSUME NEW enforced, SaveFails(enforced) PROVE TablesOK'
  <2>1. job' \in Job
    BY <1>0, <1>14 DEF SaveFails, TablesOK, Job
  <2>. QED  BY <1>0, <1>1, <1>14, <2>1 DEF SaveFails, TablesOK, history
<1>15. CASE SaveTranscript
  BY <1>0, <1>15 DEF SaveTranscript, TablesOK, Job, history
<1>16. CASE DeleteVoice
  BY <1>0, <1>16 DEF DeleteVoice, TablesOK, Job, row, history
<1>17. CASE UnlinkVoice
  BY <1>0, <1>17 DEF UnlinkVoice, TablesOK, Job, history
<1>18. CASE LoseAuthority \/ UNCHANGED vars
  BY <1>0, <1>1, <1>18 DEF LoseAuthority, vars, TablesOK, history
<1>. QED
  BY <1>2, <1>3, <1>4, <1>5, <1>6, <1>7, <1>8, <1>9, <1>10, <1>11, <1>12, <1>13, <1>14, <1>15,
     <1>16, <1>17, <1>18 DEF Next, Edit, Delete, Translate, Pin, Moderate

\* The edits on their way only end.
LEMMA FewerEdits ==
    ASSUME Fresh, UNCHANGED <<past, content>>,
           \A r \in Requests : At(r, "edit")' => At(r, "edit") /\ req'[r].words = req[r].words
    PROVE  Fresh'
BY DEF Fresh

\* No step but that of the edit itself begins one.
LEMMA EditsBegin ==
    ASSUME TypeOK, [Next]_vars, NEW r \in Requests, At(r, "edit")'
    PROVE  \/ At(r, "edit") /\ req'[r] = req[r]
           \/ \E w \in Words : EditRead(r, w)
<1>1. ASSUME NEW q \in Requests, q # r, Edit(q) \/ Delete(q) \/ Translate(q) \/ Pin(q) \/ End(q)
      PROVE  req'[r] = req[r]
  BY <1>1 DEF Edit, EditRead, EditTx, Replace, EditTell, Delete, DeleteRead, DeleteWrite, DeleteTell,
              Translate, TranslateRead, TranslateWrite, Pin, PinRead, PinCheck, UnpinCheck, PinWrite,
              PinTell, End, Goto, Answer, TypeOK
<1>2. ASSUME EditTx(r) \/ EditTell(r) \/ Delete(r) \/ Translate(r) \/ Pin(r) \/ End(r)
      PROVE  req'[r].pc # "edit"
  <2>n. NoRequest \in Request /\ NoRequest.pc = "idle"
    BY NoRequestTyped DEF NoRequest
  <2>1. CASE EditTx(r) \/ DeleteRead(r) \/ DeleteWrite(r) \/ UnpinCheck(r) \/ PinWrite(r)
    BY <2>1 DEF EditTx, Replace, DeleteRead, DeleteWrite, UnpinCheck, PinWrite, Goto, TypeOK,
                Request
  <2>2. CASE EditTell(r) \/ DeleteTell(r) \/ TranslateWrite(r) \/ PinTell(r) \/ End(r)
    BY <2>n, <2>2 DEF EditTell, DeleteTell, TranslateWrite, PinTell, End, Answer, TypeOK
  <2>3. ASSUME NEW l \in Languages, TranslateRead(r, l) PROVE req'[r].pc # "edit"
    BY <2>n, <2>3 DEF TranslateRead, TypeOK, Request
  <2>4. CASE PinRead(r)
    BY <2>n, <2>4 DEF PinRead, TypeOK, Request
  <2>5. CASE PinCheck(r)
    BY <2>5 DEF PinCheck, TypeOK, Request
  <2>. QED  BY <1>2, <2>1, <2>2, <2>3, <2>4, <2>5 DEF Delete, Translate, Pin
<1>3. Moderate \/ JobEnds \/ LoseAuthority \/ UNCHANGED vars => UNCHANGED req
  BY DEF Moderate, JudgeImages, StoreImage, ReadImages, StripImages, JudgeVoice, SaveFails,
         SaveTranscript, DeleteVoice, UnlinkVoice, JobEnds, LoseAuthority, vars
<1>. QED  BY <1>1, <1>2, <1>3 DEF Next, Edit, At

LEMMA FreshStep == TypeOK /\ Locals /\ Fresh /\ [Next]_vars => Fresh'
<1>. SUFFICES ASSUME TypeOK, Locals, Fresh, [Next]_vars PROVE Fresh'
  OBVIOUS
<1>1. ASSUME NEW r \in Requests, NEW w \in Words, EditRead(r, w) PROVE Fresh'
  <2>1. UNCHANGED <<past, content>> /\ w \notin Asked
    BY <1>1 DEF EditRead, row, history
  <2>2. /\ w # content /\ \A i \in DOMAIN past : past[i] # w
        /\ \A q \in Requests : req[q].words # w
    BY <2>1 DEF Asked
  <2>3. req'[r].words = w /\ \A q \in Requests \ {r} : req'[q] = req[q]
    BY <1>1, NoRequestTyped DEF EditRead, TypeOK, Request
  <2>. QED  BY <2>1, <2>2, <2>3 DEF Fresh, At
<1>2. ASSUME NEW r \in Requests, EditTx(r) PROVE Fresh'
  <2>1. past' = Append(past, content) /\ content' = req[r].words /\ At(r, "edit")
    BY <1>2 DEF EditTx, Replace
  <2>2. /\ DOMAIN past = 1..Len(past) /\ DOMAIN past' = 1..Len(past)+1 /\ Len(past) \in Nat
        /\ \A i \in 1..Len(past) : past'[i] = past[i]
        /\ past'[Len(past)+1] = content
    <3>1. past \in Seq(Words) /\ content \in Words
      BY DEF TypeOK
    <3>. QED  BY <2>1, <3>1, AppendProperties
  <2>3. \A q \in Requests : At(q, "edit")' => q # r /\ At(q, "edit") /\ req'[q] = req[q]
    BY <1>2 DEF EditTx, Replace, Goto, At, TypeOK, Request
  <2>4. \A i, j \in DOMAIN past' : past'[i] = past'[j] => i = j
    BY <2>2 DEF Fresh
  <2>5. \A i \in DOMAIN past' : past'[i] # content'
    BY <2>1, <2>2 DEF Fresh
  <2>6. ASSUME NEW q \in Requests, At(q, "edit")'
        PROVE  /\ req'[q].words # content'
               /\ \A i \in DOMAIN past' : past'[i] # req'[q].words
               /\ \A p \in Requests \ {q} : At(p, "edit")' => req'[p].words # req'[q].words
    BY <2>1, <2>2, <2>3, <2>6 DEF Fresh
  <2>. QED  BY <2>4, <2>5, <2>6 DEF Fresh
<1>3. ASSUME ~\E r \in Requests : (\E w \in Words : EditRead(r, w)) \/ EditTx(r)
      PROVE  Fresh'
  <2>1. UNCHANGED <<past, content>>
    BY <1>3 DEF Next, Edit, EditTell, Delete, DeleteRead, DeleteWrite, DeleteTell,
              Translate, TranslateRead, TranslateWrite, Pin, PinRead, PinCheck, UnpinCheck, PinWrite,
              PinTell, End, Moderate, JudgeImages, StoreImage, ReadImages, StripImages, JudgeVoice,
              SaveFails, SaveTranscript, DeleteVoice, UnlinkVoice, JobEnds, LoseAuthority, vars,
              row, history
  <2>. QED  BY <1>3, <2>1, EditsBegin, FewerEdits
<1>. QED  BY <1>1, <1>2, <1>3

\* Types, with what the requests know and the words that are on their way.
Typed == TypeOK /\ Locals /\ Fresh

LEMMA TypedStep == Typed /\ [Next]_vars => Typed'
<1>. SUFFICES ASSUME Typed, [Next]_vars PROVE Typed'
  OBVIOUS
<1>1. RequestsOK' /\ TablesOK' /\ Fresh'
  BY RequestsTyped, TablesTyped, FreshStep DEF Typed
<1>. QED  BY <1>1 DEF Typed, TypeOK, RequestsOK, TablesOK

LEMMA TypedInit == Init => Typed
<1>. SUFFICES ASSUME Init PROVE Typed
  OBVIOUS
<1>1. 0 \in Words
  BY EditsAssumption DEF Words
<1>2. past = <<>> /\ audit = <<>> /\ <<>> \in Seq(Words) /\ Len(<<>>) = 0 /\ DOMAIN <<>> = {}
  BY DEF Init
<1>3. NoRequest \in Request /\ NoRequest.pc = "idle"
  BY NoRequestTyped DEF NoRequest
<1>4. \A r \in Requests : req[r] = NoRequest
  BY DEF Init
<1>5. req \in [Requests -> Request]
  BY <1>3 DEF Init
<1>6. cache \in Cache
  BY DEF Init, Untranslated, Cache
<1>7. job \in Job
  BY DEF Init, Job
<1>8. told \in [content : Words, deleted : BOOLEAN, images : SUBSET Images,
                voice : BOOLEAN, pin : Words \cup {Nothing}]
  BY <1>1 DEF Init
<1>9. TypeOK
  <2>1. /\ content \in Words /\ deleted \in BOOLEAN
        /\ images \subseteq Images /\ voice \in BOOLEAN
        /\ transcript \in {Nothing, Speech}
        /\ pin \in Words \cup {Nothing}
        /\ mayPin \in BOOLEAN /\ public \subseteq Objects
        /\ loose \subseteq {"audit", "cache", "edit", "delete", "pin"}
    BY <1>1 DEF Init
  <2>2. Len(audit) = Len(past) /\ Len(past) <= MaxEdits /\ audit \in Seq(Words) /\ past \in Seq(Words)
    BY <1>2, EditsAssumption
  <2>. QED  BY <1>5, <1>6, <1>7, <1>8, <2>1, <2>2 DEF TypeOK
<1>. QED  BY <1>2, <1>3, <1>4, <1>9 DEF Typed, Locals, Fresh, At

LEMMA AlwaysTyped == Spec => []Typed
BY TypedInit, TypedStep, PTL DEF Spec

\* The state is well typed; in particular no more than MaxEdits edits are ever
\* recorded, since every one has words of its own.
THEOREM TypeCorrect == Spec => []TypeOK
<1>1. Typed => TypeOK
  BY DEF Typed
<1>. QED  BY <1>1, AlwaysTyped, PTL

-----------------------------------------------------------------------------
(* Audit, row and clients agree *)

\* What the audit needs to be right: an edit on its way read the words that it will
\* replace, and no image came back while it waited.
Recorded ==
    /\ "audit" \notin loose =>
         audit = past /\ \A r \in Requests : At(r, "edit") => req[r].was = content
    /\ audit # <<>> \/ (\E r \in Requests : At(r, "edit")) => images = {}
    /\ job.pc = "strip" => job.seen = images

\* Steps that touch neither words nor images.
LEMMA RecordedStays ==
    ASSUME Recorded, UNCHANGED <<audit, past, content, images>>, loose \subseteq loose',
           job'.pc = "strip" => job' = job,
           \A r \in Requests : At(r, "edit")' => At(r, "edit") /\ req'[r] = req[r]
    PROVE  Recorded'
BY DEF Recorded

LEMMA RecordedStep == Typed /\ Recorded /\ [Next]_vars => Recorded'
<1>. SUFFICES ASSUME Typed, Recorded, [Next]_vars PROVE Recorded'
  OBVIOUS
<1>0. TypeOK
  BY DEF Typed
<1>1. ASSUME NEW r \in Requests, NEW w \in Words, EditRead(r, w) PROVE Recorded'
  <2>1. UNCHANGED <<audit, past, content, images, loose, job>> /\ images = {}
    BY <1>1 DEF EditRead, row, history
  <2>2. req'[r].was = content /\ \A q \in Requests \ {r} : req'[q] = req[q]
    BY <1>0, <1>1, NoRequestTyped DEF EditRead, TypeOK, Request
  <2>. QED  BY <2>1, <2>2 DEF Recorded, At
<1>2. ASSUME NEW r \in Requests, EditTx(r) PROVE Recorded'
  <2>1. /\ audit' = audit \o <<req[r].was>> /\ past' = Append(past, content)
        /\ At(r, "edit") /\ UNCHANGED <<images, job>>
        /\ loose \subseteq loose' /\ (OtherAt(r, "edit") => "audit" \in loose')
    BY <1>2 DEF EditTx, Replace
  <2>2. \A q \in Requests : At(q, "edit")' => q # r /\ At(q, "edit")
    BY <1>0, <1>2 DEF EditTx, Replace, Goto, At, TypeOK, Request
  <2>3. images = {}
    BY <2>1 DEF Recorded
  <2>4. ASSUME "audit" \notin loose'
        PROVE  audit' = past' /\ \A q \in Requests : ~At(q, "edit")'
    <3>1. \A q \in Requests : ~At(q, "edit")'
      BY <2>1, <2>2, <2>4 DEF OtherAt
    <3>2. audit = past /\ req[r].was = content
      BY <2>1, <2>4 DEF Recorded
    <3>3. past \in Seq(Words) /\ content \in Words
      BY <1>0 DEF TypeOK
    <3>. QED  BY <2>1, <3>1, <3>2, <3>3, AppendIsConcat
  <2>. QED  BY <2>1, <2>3, <2>4 DEF Recorded
<1>3. CASE StripImages
  <2>1. /\ images' = job.seen \ job.hit /\ job.pc = "strip" /\ job'.pc = "done"
        /\ UNCHANGED <<content, audit, req, past, loose>>
    BY <1>0, <1>3 DEF StripImages, history, TypeOK, Job
  <2>. QED  BY <2>1 DEF Recorded, At
<1>4. CASE ReadImages
  <2>1. job'.seen = images /\ UNCHANGED <<content, audit, req, past, loose, images>>
    BY <1>0, <1>4 DEF ReadImages, row, history, TypeOK, Job
  <2>. QED  BY <2>1 DEF Recorded, At
<1>5. ASSUME ~\E r \in Requests : (\E w \in Words : EditRead(r, w)) \/ EditTx(r),
             ~StripImages, ~ReadImages
      PROVE  Recorded'
  <2>1. UNCHANGED <<audit, past, content, images>> /\ loose \subseteq loose'
    BY <1>5 DEF Next, Edit, EditTell, Delete, DeleteRead, DeleteWrite, DeleteTell,
              Translate, TranslateRead, TranslateWrite, Pin, PinRead, PinCheck, UnpinCheck, PinWrite,
              PinTell, End, Moderate, JudgeImages, StoreImage, JudgeVoice,
              SaveFails, SaveTranscript, DeleteVoice, UnlinkVoice, JobEnds, LoseAuthority, vars,
              row, history
  <2>2. (\E r \in Requests : Edit(r) \/ Delete(r) \/ Translate(r) \/ Pin(r) \/ End(r))
        \/ LoseAuthority \/ UNCHANGED vars => UNCHANGED job
    BY DEF Edit, EditRead, EditTx, Replace, EditTell, Delete, DeleteRead, DeleteWrite, DeleteTell,
           Translate, TranslateRead, TranslateWrite, Pin, PinRead, PinCheck, UnpinCheck, PinWrite,
           PinTell, End, LoseAuthority, vars
  <2>3. (Moderate /\ ~StripImages /\ ~ReadImages) \/ JobEnds => job'.pc # "strip"
    <3>1. ASSUME NEW verdict, NEW enforced, JudgeImages(verdict, enforced) PROVE job'.pc # "strip"
      BY <1>0, <3>1 DEF JudgeImages, TypeOK, Job
    <3>2. ASSUME NEW u \in Images, StoreImage(u) PROVE job'.pc # "strip"
      BY <1>0, <3>2 DEF StoreImage, TypeOK, Job
    <3>3. ASSUME NEW verdict, NEW enforced, JudgeVoice(verdict, enforced) PROVE job'.pc # "strip"
      BY <1>0, <3>3 DEF JudgeVoice, TypeOK, Job
    <3>4. ASSUME NEW enforced, SaveFails(enforced) PROVE job'.pc # "strip"
      BY <1>0, <3>4 DEF SaveFails, TypeOK, Job
    <3>5. SaveTranscript \/ DeleteVoice \/ UnlinkVoice \/ JobEnds => job'.pc # "strip"
      BY <1>0 DEF SaveTranscript, DeleteVoice, UnlinkVoice, JobEnds, TypeOK, Job
    <3>. QED  BY <3>1, <3>2, <3>3, <3>4, <3>5 DEF Moderate
  <2>4. job'.pc = "strip" => job' = job
    BY <1>5, <2>2, <2>3 DEF Next
  <2>. QED  BY <1>0, <1>5, <2>1, <2>4, EditsBegin, RecordedStays
<1>. QED  BY <1>1, <1>2, <1>3, <1>4, <1>5

\* What the clients were told, and what they are owed.
Owed ==
    /\ "edit" \notin loose =>
         /\ \A r \in Requests : At(r, "editTell") => req[r].words = content
         /\ told.content = content \/ \E r \in Requests : At(r, "editTell")
    /\ "delete" \notin loose => told.deleted = deleted \/ \E r \in Requests : At(r, "deleteTell")
    /\ \A r \in Requests : At(r, "deleteTell") => deleted
    /\ "pin" \notin loose =>
         /\ \A r \in Requests : At(r, "pinTell") => req[r].words = pin
         /\ told.pin = pin \/ \E r \in Requests : At(r, "pinTell")

Tells == {"editTell", "deleteTell", "pinTell"}

\* Steps that write nothing that is told, and tell nothing of it.
LEMMA OwedStays ==
    ASSUME Owed, UNCHANGED <<content, deleted, pin, loose>>,
           told'.content = told.content, told'.deleted = told.deleted, told'.pin = told.pin,
           \A r \in Requests : \/ req'[r] = req[r]
                               \/ req[r].pc \notin Tells /\ req'[r].pc \notin Tells
    PROVE  Owed'
BY DEF Owed, At, Tells

LEMMA OwedStep == Typed /\ Owed /\ [Next]_vars => Owed'
<1>. SUFFICES ASSUME Typed, Owed, [Next]_vars PROVE Owed'
  OBVIOUS
<1>0. TypeOK /\ Locals
  BY DEF Typed
<1>n. NoRequest \in Request /\ NoRequest.pc = "idle"
  BY NoRequestTyped DEF NoRequest
<1>1. ASSUME NEW r \in Requests,
             \/ \E w \in Words : EditRead(r, w)
             \/ DeleteRead(r)
             \/ \E l \in Languages : TranslateRead(r, l)
             \/ TranslateWrite(r) \/ PinRead(r) \/ PinCheck(r) \/ UnpinCheck(r)
      PROVE  Owed'
  <2>1. UNCHANGED <<content, deleted, pin, told>> /\ (~TranslateWrite(r) => UNCHANGED loose)
    BY <1>1 DEF EditRead, DeleteRead, TranslateRead, TranslateWrite, PinRead, PinCheck, UnpinCheck,
                row, history
  <2>2. \A q \in Requests \ {r} : req'[q] = req[q]
    BY <1>0, <1>1 DEF EditRead, DeleteRead, TranslateRead, TranslateWrite, PinRead, PinCheck,
                UnpinCheck, Goto, Answer, TypeOK
  <2>3. req[r].pc \notin Tells
    BY <1>1 DEF EditRead, DeleteRead, TranslateRead, TranslateWrite, PinRead, PinCheck, UnpinCheck,
                Idle, At, Tells
  <2>4. req'[r].pc \notin Tells
    <3>1. ASSUME NEW w \in Words, EditRead(r, w) PROVE req'[r].pc = "edit"
      BY <1>0, <1>n, <3>1 DEF EditRead, TypeOK, Request
    <3>2. ASSUME NEW l \in Languages, TranslateRead(r, l) PROVE req'[r].pc = "translate"
      BY <1>0, <1>n, <3>2 DEF TranslateRead, TypeOK, Request
    <3>3. PinRead(r) => req'[r].pc = "pinCheck"
      BY <1>0, <1>n DEF PinRead, TypeOK, Request
    <3>4. PinCheck(r) => req'[r].pc = "pin"
      BY <1>0 DEF PinCheck, TypeOK, Request
    <3>5. /\ DeleteRead(r) => req'[r].pc = "delete"
          /\ UnpinCheck(r) => req'[r].pc = "unpin"
          /\ TranslateWrite(r) => req'[r].pc = "idle"
      BY <1>0, <1>n DEF DeleteRead, UnpinCheck, TranslateWrite, Goto, Answer, TypeOK, Request
    <3>. QED  BY <1>1, <3>1, <3>2, <3>3, <3>4, <3>5 DEF Tells
  <2>5. loose' \ {"cache"} = loose \ {"cache"}
    BY <2>1 DEF TranslateWrite
  <2>. QED  BY <2>1, <2>2, <2>3, <2>4, <2>5 DEF Owed, At, Tells
<1>2. ASSUME NEW r \in Requests, EditTx(r) PROVE Owed'
  <2>1. /\ content' = req[r].words /\ At(r, "edit") /\ UNCHANGED <<deleted, pin, told>>
        /\ loose \subseteq loose' /\ loose' \subseteq loose \cup {"audit", "edit"}
        /\ OtherAt(r, "editTell") => "edit" \in loose'
    BY <1>2 DEF EditTx, Replace
  <2>2. /\ req'[r].pc = "editTell" /\ req'[r].words = req[r].words
        /\ \A q \in Requests \ {r} : req'[q] = req[q]
    BY <1>0, <1>2 DEF EditTx, Replace, Goto, TypeOK, Request
  <2>. QED  BY <2>1, <2>2 DEF Owed, At, OtherAt
<1>3. ASSUME NEW r \in Requests, EditTell(r) PROVE Owed'
  <2>1. /\ At(r, "editTell") /\ UNCHANGED <<content, deleted, pin, loose>>
        /\ told'.content = req[r].words /\ told'.deleted = told.deleted /\ told'.pin = told.pin
    BY <1>0, <1>3 DEF EditTell, TypeOK, row, history
  <2>2. req'[r].pc = "idle" /\ \A q \in Requests \ {r} : req'[q] = req[q]
    BY <1>0, <1>n, <1>3 DEF EditTell, Answer, TypeOK
  <2>. QED  BY <2>1, <2>2 DEF Owed, At
<1>4. ASSUME NEW r \in Requests, DeleteWrite(r) PROVE Owed'
  <2>1. At(r, "delete") /\ deleted' /\ UNCHANGED <<content, pin, told, loose>>
    BY <1>4 DEF DeleteWrite, history
  <2>2. req'[r].pc = "deleteTell" /\ \A q \in Requests \ {r} : req'[q] = req[q]
    BY <1>0, <1>4 DEF DeleteWrite, Goto, TypeOK, Request
  <2>. QED  BY <2>1, <2>2 DEF Owed, At
<1>5. ASSUME NEW r \in Requests, DeleteTell(r) PROVE Owed'
  <2>1. /\ At(r, "deleteTell") /\ UNCHANGED <<content, deleted, pin, loose>>
        /\ told'.content = told.content /\ told'.deleted = TRUE /\ told'.pin = told.pin
        /\ deleted \in BOOLEAN
    BY <1>0, <1>5 DEF DeleteTell, TypeOK, row, history
  <2>2. req'[r].pc = "idle" /\ \A q \in Requests \ {r} : req'[q] = req[q]
    BY <1>0, <1>n, <1>5 DEF DeleteTell, Answer, TypeOK
  <2>. QED  BY <2>1, <2>2 DEF Owed, At
<1>6. ASSUME NEW r \in Requests, PinWrite(r) PROVE Owed'
  <2>1. /\ pin' = req[r].words /\ (At(r, "pin") \/ At(r, "unpin"))
        /\ UNCHANGED <<content, deleted, told>>
        /\ loose \subseteq loose' /\ loose' \subseteq loose \cup {"pin"}
        /\ OtherAt(r, "pinTell") => "pin" \in loose'
    BY <1>6 DEF PinWrite, row, At
  <2>2. /\ req'[r].pc = "pinTell" /\ req'[r].words = req[r].words
        /\ \A q \in Requests \ {r} : req'[q] = req[q]
    BY <1>0, <1>6 DEF PinWrite, Goto, TypeOK, Request
  <2>. QED  BY <2>1, <2>2 DEF Owed, At, OtherAt
<1>7. ASSUME NEW r \in Requests, PinTell(r) PROVE Owed'
  <2>1. /\ At(r, "pinTell") /\ UNCHANGED <<content, deleted, pin, loose>>
        /\ told'.pin = req[r].words /\ told'.deleted = told.deleted /\ told'.content = told.content
    BY <1>0, <1>7 DEF PinTell, TypeOK, row, history
  <2>2. req'[r].pc = "idle" /\ \A q \in Requests \ {r} : req'[q] = req[q]
    BY <1>0, <1>n, <1>7 DEF PinTell, Answer, TypeOK
  <2>. QED  BY <2>1, <2>2 DEF Owed, At
<1>8. ASSUME NEW r \in Requests, End(r) PROVE Owed'
  <2>1. /\ UNCHANGED <<content, deleted, pin, told>> /\ loose \subseteq loose'
        /\ At(r, "editTell") => "edit" \in loose'
        /\ At(r, "deleteTell") => "delete" \in loose'
        /\ At(r, "pinTell") => "pin" \in loose'
    <3>1. /\ UNCHANGED <<row, pin, told>>
          /\ loose' = loose \cup {Untold[pc] : pc \in {req[r].pc} \cap DOMAIN Untold}
      BY <1>8 DEF End
    <3>2. DOMAIN Untold = Tells
      BY DEF Untold, Tells
    <3>3. Untold["editTell"] = "edit" /\ Untold["deleteTell"] = "delete" /\ Untold["pinTell"] = "pin"
      BY DEF Untold
    <3>4. req[r].pc \in Tells => Untold[req[r].pc] \in loose'
      BY <3>1, <3>2
    <3>. QED  BY <3>1, <3>3, <3>4 DEF Tells, At, row
  <2>2. req'[r].pc = "idle" /\ \A q \in Requests \ {r} : req'[q] = req[q]
    BY <1>0, <1>n, <1>8 DEF End, Answer, TypeOK
  <2>. QED  BY <2>1, <2>2 DEF Owed, At
<1>9. CASE Moderate \/ JobEnds \/ LoseAuthority \/ UNCHANGED vars
  <2>1. UNCHANGED <<content, deleted, pin, loose, req>>
    BY <1>9 DEF Moderate, JudgeImages, StoreImage, ReadImages, StripImages, JudgeVoice, SaveFails,
         SaveTranscript, DeleteVoice, UnlinkVoice, JobEnds, LoseAuthority, vars, row, history
  <2>2. told'.content = told.content /\ told'.deleted = told.deleted /\ told'.pin = told.pin
    <3>1. CASE StripImages \/ UnlinkVoice
      BY <1>0, <3>1 DEF StripImages, UnlinkVoice, TypeOK
    <3>2. CASE ~(StripImages \/ UnlinkVoice)
      BY <1>9, <3>2 DEF Moderate, JudgeImages, StoreImage, ReadImages, JudgeVoice, SaveFails,
           SaveTranscript, DeleteVoice, JobEnds, LoseAuthority, vars
    <3>. QED  BY <3>1, <3>2
  <2>. QED  BY <2>1, <2>2, OwedStays
<1>. QED
  BY <1>1, <1>2, <1>3, <1>4, <1>5, <1>6, <1>7, <1>8, <1>9 DEF Next, Edit, Delete, Translate, Pin

\* For any number of requests: the audit has every word that was replaced, and once
\* no event of a kind is owed the clients show what is stored, with the exceptions
\* that the properties name.
THEOREM RecordsDoAgree == Spec => []RecordsAgree
<1>1. Init => Recorded /\ Owed
  <2>1. NoRequest.pc = "idle"
    BY DEF NoRequest
  <2>2. Init => /\ \A r \in Requests : req[r].pc = "idle"
                /\ audit = <<>> /\ past = <<>>
                /\ job.pc \in {"judge", "done"}
                /\ told.content = content /\ told.deleted = deleted /\ told.pin = pin
    <3>1. Init => req = [r \in Requests |-> NoRequest]
      BY DEF Init
    <3>2. ASSUME Init PROVE job.pc \in {"judge", "done"}
      <4>1. job \in [pc : {"judge", "done"}, hit : SUBSET Images, left : SUBSET Images,
                     seen : SUBSET Images]
        BY <3>2 DEF Init
      <4>. QED  BY <4>1
    <3>3. Init => audit = <<>> /\ past = <<>>
      BY DEF Init
    <3>4. ASSUME Init PROVE told.content = content /\ told.deleted = deleted /\ told.pin = pin
      <4>1. /\ content = 0 /\ deleted = FALSE /\ pin = Nothing
            /\ told = [content |-> 0, deleted |-> FALSE, images |-> images, voice |-> voice,
                       pin |-> Nothing]
        BY <3>4 DEF Init
      <4>. QED  BY <4>1
    <3>. QED  BY <2>1, <3>1, <3>2, <3>3, <3>4
  <2>. QED  BY <2>2 DEF Recorded, Owed, At
<1>2. Recorded /\ Owed => RecordsAgree
  BY DEF Recorded, Owed, RecordsAgree, EditsAreRecorded, ClientsCatchUp, Settled
<1>. QED  BY <1>1, <1>2, AlwaysTyped, RecordedStep, OwedStep, PTL DEF Spec

-----------------------------------------------------------------------------
(* Translations stay *)

\* What a request carries: what it had, nothing, or the row as it reads it.
LEMMA RequestCarries ==
    ASSUME TypeOK, [Next]_vars, NEW q \in Requests
    PROVE  \/ req'[q] = req[q]
           \/ /\ req'[q].pc # "translate"
              /\ req'[q].source = req[q].source /\ req'[q].held = req[q].held
           \/ /\ req'[q].pc # "translate"
              /\ req'[q].source = Nothing /\ req'[q].held = Untranslated
           \/ req'[q].source = SourceText /\ req'[q].held = cache
<1>n. /\ NoRequest \in Request /\ NoRequest.pc = "idle"
      /\ NoRequest.source = Nothing /\ NoRequest.held = Untranslated
  BY NoRequestTyped DEF NoRequest
<1>1. ASSUME NEW r \in Requests, r # q, Edit(r) \/ Delete(r) \/ Translate(r) \/ Pin(r) \/ End(r)
      PROVE  req'[q] = req[q]
  BY <1>1 DEF Edit, EditRead, EditTx, Replace, EditTell, Delete, DeleteRead, DeleteWrite, DeleteTell,
              Translate, TranslateRead, TranslateWrite, Pin, PinRead, PinCheck, UnpinCheck, PinWrite,
              PinTell, End, Goto, Answer, TypeOK
<1>2. ASSUME EditTx(q) \/ DeleteRead(q) \/ DeleteWrite(q) \/ UnpinCheck(q) \/ PinWrite(q)
      PROVE  /\ req'[q].pc # "translate"
             /\ req'[q].source = req[q].source /\ req'[q].held = req[q].held
  BY <1>2 DEF EditTx, Replace, DeleteRead, DeleteWrite, UnpinCheck, PinWrite, Goto, TypeOK, Request
<1>3. CASE PinCheck(q)
  BY <1>3 DEF PinCheck, TypeOK, Request
<1>4. ASSUME EditTell(q) \/ DeleteTell(q) \/ TranslateWrite(q) \/ PinTell(q) \/ End(q)
      PROVE  req'[q] = NoRequest
  BY <1>4 DEF EditTell, DeleteTell, TranslateWrite, PinTell, End, Answer, TypeOK
<1>5. ASSUME NEW w \in Words, EditRead(q, w)
      PROVE  /\ req'[q].pc # "translate"
             /\ req'[q].source = Nothing /\ req'[q].held = Untranslated
  BY <1>n, <1>5 DEF EditRead, TypeOK, Request
<1>6. ASSUME PinRead(q)
      PROVE  /\ req'[q].pc # "translate"
             /\ req'[q].source = Nothing /\ req'[q].held = Untranslated
  BY <1>n, <1>6 DEF PinRead, TypeOK, Request
<1>7. ASSUME NEW l \in Languages, TranslateRead(q, l)
      PROVE  req'[q].source = SourceText /\ req'[q].held = cache
  BY <1>n, <1>7 DEF TranslateRead, TypeOK, Request
<1>8. Moderate \/ JobEnds \/ LoseAuthority \/ UNCHANGED vars => UNCHANGED req
  BY DEF Moderate, JudgeImages, StoreImage, ReadImages, StripImages, JudgeVoice, SaveFails,
         SaveTranscript, DeleteVoice, UnlinkVoice, JobEnds, LoseAuthority, vars
<1>9. CASE \E r \in Requests : Edit(r) \/ Delete(r) \/ Translate(r) \/ Pin(r) \/ End(r)
  <2>1. CASE Edit(q) \/ Delete(q) \/ Translate(q) \/ Pin(q) \/ End(q)
    BY <2>1, <1>n, <1>2, <1>3, <1>4, <1>5, <1>6, <1>7 DEF Edit, Delete, Translate, Pin
  <2>. QED  BY <1>1, <1>9, <2>1
<1>. QED  BY <1>8, <1>9 DEF Next

\* Only a translation writes the cache.
LEMMA CacheKept ==
    ASSUME [Next]_vars, ~\E r \in Requests : TranslateWrite(r)
    PROVE  cache' = cache /\ loose \subseteq loose'
BY DEF Next, Edit, EditRead, EditTx, Replace, EditTell, Delete, DeleteRead, DeleteWrite, DeleteTell,
       Translate, TranslateRead, Pin, PinRead, PinCheck, UnpinCheck, PinWrite, PinTell, End,
       Moderate, JudgeImages, StoreImage, ReadImages, StripImages, JudgeVoice, SaveFails,
       SaveTranscript, DeleteVoice, UnlinkVoice, JobEnds, LoseAuthority, vars, row, history

\* A translation under way alone carries every language that the cache has.
Held ==
    "cache" \notin loose =>
      \A r \in Requests : At(r, "translate") =>
        \A l \in Languages : cache[l] # Nothing => req[r].held[l] # Nothing

LEMMA HeldStep == Typed /\ Held /\ [Next]_vars => Held'
<1>. SUFFICES ASSUME Typed, Held, [Next]_vars PROVE Held'
  OBVIOUS
<1>0. TypeOK
  BY DEF Typed
<1>1. ASSUME NEW r \in Requests, TranslateWrite(r) PROVE Held'
  <2>1. /\ loose \subseteq loose' /\ (OtherAt(r, "translate") => "cache" \in loose')
        /\ req' = [req EXCEPT ![r] = NoRequest]
    BY <1>1 DEF TranslateWrite, Answer
  <2>2. NoRequest.pc = "idle"
    BY DEF NoRequest
  <2>3. "cache" \notin loose' => \A q \in Requests : ~At(q, "translate")'
    BY <1>0, <2>1, <2>2 DEF OtherAt, At, TypeOK
  <2>. QED  BY <2>3 DEF Held
<1>2. ASSUME ~\E r \in Requests : TranslateWrite(r) PROVE Held'
  <2>1. cache' = cache /\ loose \subseteq loose'
    BY <1>2, CacheKept
  <2>2. ASSUME NEW q \in Requests, At(q, "translate")'
        PROVE  (At(q, "translate") /\ req'[q] = req[q]) \/ req'[q].held = cache
    BY <1>0, <2>2, RequestCarries DEF At
  <2>. QED  BY <2>1, <2>2 DEF Held
<1>. QED  BY <1>1, <1>2

\* For any number of requests and languages: no translation is lost, unless two of
\* the message were under way at once.
THEOREM TranslationsAreKept == Spec => TranslationsStay
<1>1. Init => Held
  <2>1. NoRequest.pc = "idle"
    BY DEF NoRequest
  <2>2. Init => req = [r \in Requests |-> NoRequest]
    BY DEF Init
  <2>. QED  BY <2>1, <2>2 DEF Held, At
<1>2. Typed /\ Held /\ [Next]_vars =>
        [ "cache" \notin loose' =>
            \A l \in Languages : cache[l] # Nothing => cache'[l] # Nothing ]_vars
  <2>. SUFFICES ASSUME Typed, Held, [Next]_vars, "cache" \notin loose',
                       NEW l \in Languages, cache[l] # Nothing
                PROVE  cache'[l] # Nothing
    OBVIOUS
  <2>0. TypeOK /\ Locals
    BY DEF Typed
  <2>1. ASSUME NEW r \in Requests, TranslateWrite(r) PROVE cache'[l] # Nothing
    <3>1. /\ cache' = [req[r].held EXCEPT ![req[r].language] = req[r].source]
          /\ At(r, "translate") /\ loose \subseteq loose'
      BY <2>1 DEF TranslateWrite
    <3>2. req[r].source # Nothing
      BY <2>0, <3>1, NamesAssumption DEF Locals, Source
    <3>3. req[r].held[l] # Nothing
      BY <3>1 DEF Held
    <3>4. req[r].held \in Cache
      BY <2>0 DEF TypeOK, Request
    <3>. QED  BY <3>1, <3>2, <3>3, <3>4 DEF Cache
  <2>. QED  BY <2>1, CacheKept
<1>. QED  BY <1>1, <1>2, AlwaysTyped, HeldStep, PTL DEF Spec, TranslationsStay

-----------------------------------------------------------------------------
(* Moderation settles *)

\* Where the moderation is with the images or the voice, and what is still public.
Moderated ==
    /\ told.images = images /\ told.voice = voice
    /\ voice => images = {}
    /\ job.pc \in {"save", "delete", "unlink"} => voice
    /\ job.pc \in {"store", "read", "strip"} => ~voice
    /\ job.pc \in {"judge", "store", "read", "strip"} => images \ job.hit \subseteq public
    /\ job.left \subseteq job.hit
    /\ job.pc \in {"judge", "save", "delete", "unlink"} => job.hit = {}
    /\ job.pc = "done" => images \subseteq public \ job.hit
    /\ voice /\ job.pc \in {"judge", "save", "done"} => "voice" \in public
    /\ job.pc = "strip" => job.seen = images

\* The words of a voice go from the transcript that moderation wrote to what a
\* translation carries and from there to the cache, and nothing else does while
\* the voice plays.
Spoken ==
    /\ transcript = Speech => voice /\ job.pc = "done"
    /\ \A l \in Languages : cache[l] = Speech => transcript = Speech
    /\ voice => \A l \in Languages : cache[l] \in {Nothing, Speech}
    /\ \A r \in Requests :
         /\ req[r].source = Speech => transcript = Speech
         /\ voice => req[r].source \in {Nothing, Speech}
         /\ \A l \in Languages : /\ req[r].held[l] = Speech => transcript = Speech
                                 /\ voice => req[r].held[l] \in {Nothing, Speech}

\* Requests leave the moderation alone.
LEMMA ModerationKept ==
    ASSUME TypeOK,
           \/ \E r \in Requests : Edit(r) \/ Delete(r) \/ Translate(r) \/ Pin(r) \/ End(r)
           \/ LoseAuthority \/ UNCHANGED vars
    PROVE  /\ UNCHANGED <<images, voice, transcript, public, job>>
           /\ told'.images = told.images /\ told'.voice = told.voice
<1>1. UNCHANGED <<images, voice, transcript, public, job>>
  BY DEF Edit, EditRead, EditTx, Replace, EditTell, Delete, DeleteRead, DeleteWrite, DeleteTell,
         Translate, TranslateRead, TranslateWrite, Pin, PinRead, PinCheck, UnpinCheck, PinWrite,
         PinTell, End, LoseAuthority, vars, row
<1>2. ASSUME NEW r \in Requests, EditTell(r) \/ DeleteTell(r) \/ PinTell(r)
      PROVE  told'.images = told.images /\ told'.voice = told.voice
  BY <1>2 DEF EditTell, DeleteTell, PinTell, TypeOK
<1>3. ASSUME ~\E r \in Requests : EditTell(r) \/ DeleteTell(r) \/ PinTell(r)
      PROVE  told' = told
  BY <1>3 DEF Edit, EditRead, EditTx, Replace, Delete, DeleteRead, DeleteWrite,
         Translate, TranslateRead, TranslateWrite, Pin, PinRead, PinCheck, UnpinCheck, PinWrite,
         End, LoseAuthority, vars
<1>. QED  BY <1>1, <1>2, <1>3

LEMMA ModeratedStep == Typed /\ Moderated /\ [Next]_vars => Moderated'
<1>. SUFFICES ASSUME Typed, Moderated, [Next]_vars PROVE Moderated'
  OBVIOUS
<1>0. TypeOK
  BY DEF Typed
<1>j. job \in Job /\ voice \in BOOLEAN
  BY <1>0 DEF TypeOK
<1>1. CASE (\E r \in Requests : Edit(r) \/ Delete(r) \/ Translate(r) \/ Pin(r) \/ End(r))
           \/ LoseAuthority \/ UNCHANGED vars
  BY <1>0, <1>1, ModerationKept DEF Moderated
<1>2. ASSUME NEW verdict, NEW enforced, JudgeImages(verdict, enforced) PROVE Moderated'
  <2>. DEFINE hit == Enforced(verdict, enforced)
  <2>1. /\ job.pc = "judge" /\ ~voice /\ UNCHANGED <<images, voice, public, told>>
        /\ job' = [job EXCEPT !.hit = hit, !.left = hit,
                              !.pc = IF hit = {} THEN "done" ELSE "store"]
    BY <1>2 DEF JudgeImages, row
  <2>. HIDE DEF hit
  <2>2. /\ job'.hit = hit /\ job'.left = hit
        /\ job'.pc = IF hit = {} THEN "done" ELSE "store"
    BY <1>j, <2>1 DEF Job
  <2>. QED  BY <2>1, <2>2 DEF Moderated
<1>3. ASSUME NEW u \in Images, StoreImage(u) PROVE Moderated'
  <2>1. /\ job.pc = "store" /\ u \in job.left /\ public \ {u} \subseteq public'
        /\ UNCHANGED <<images, voice, told>>
    BY <1>3 DEF StoreImage, row
  <2>2. /\ job'.hit = job.hit /\ job'.left \subseteq job.left
        /\ job'.pc \in {"store", "read"}
    BY <1>j, <1>3 DEF StoreImage, Job
  <2>. QED  BY <2>1, <2>2 DEF Moderated
<1>4. CASE ReadImages
  <2>1. /\ job.pc = "read" /\ job'.pc = "strip" /\ job'.hit = job.hit /\ job'.left = job.left
        /\ job'.seen = images /\ UNCHANGED <<images, voice, public, told>>
    BY <1>j, <1>4 DEF ReadImages, Job, row
  <2>. QED  BY <2>1 DEF Moderated
<1>5. CASE StripImages
  <2>1. /\ job.pc = "strip" /\ job'.pc = "done" /\ job'.hit = job.hit /\ job'.left = job.left
        /\ images' = job.seen \ job.hit /\ UNCHANGED <<voice, public>>
    BY <1>j, <1>5 DEF StripImages, Job
  <2>2. told'.images = images' /\ told'.voice = told.voice
    BY <1>0, <1>5 DEF StripImages, TypeOK
  <2>. QED  BY <2>1, <2>2 DEF Moderated
<1>6. ASSUME NEW verdict, NEW enforced, JudgeVoice(verdict, enforced) PROVE Moderated'
  <2>1. /\ job.pc = "judge" /\ voice /\ UNCHANGED <<images, voice, public, told>>
        /\ job'.hit = job.hit /\ job'.left = job.left
    BY <1>j, <1>6 DEF JudgeVoice, Job, row
  <2>2. job'.pc \in {"save", "delete", "done"}
    BY <1>j, <1>6 DEF JudgeVoice, Job
  <2>. QED  BY <2>1, <2>2 DEF Moderated
<1>7. ASSUME NEW enforced, SaveFails(enforced) PROVE Moderated'
  <2>1. /\ job.pc = "save" /\ UNCHANGED <<images, voice, public, told>>
        /\ job'.hit = job.hit /\ job'.left = job.left
    BY <1>j, <1>7 DEF SaveFails, Job, row
  <2>2. job'.pc \in {"delete", "done"}
    BY <1>j, <1>7 DEF SaveFails, Job
  <2>. QED  BY <2>1, <2>2 DEF Moderated
<1>8. CASE SaveTranscript
  <2>1. /\ job.pc = "save" /\ UNCHANGED <<images, voice, public, told>>
        /\ job'.hit = job.hit /\ job'.left = job.left /\ job'.pc = "done"
    BY <1>j, <1>8 DEF SaveTranscript, Job
  <2>. QED  BY <2>1 DEF Moderated
<1>9. CASE DeleteVoice
  <2>1. /\ job.pc = "delete" /\ UNCHANGED <<images, voice, told>>
        /\ job'.hit = job.hit /\ job'.left = job.left /\ job'.pc = "unlink"
    BY <1>j, <1>9 DEF DeleteVoice, Job, row
  <2>. QED  BY <2>1 DEF Moderated
<1>10. CASE UnlinkVoice
  <2>1. /\ job.pc = "unlink" /\ ~voice' /\ UNCHANGED <<images, public>>
        /\ job'.hit = job.hit /\ job'.left = job.left /\ job'.pc = "done"
    BY <1>j, <1>10 DEF UnlinkVoice, Job
  <2>2. told'.voice = voice' /\ told'.images = told.images
    BY <1>0, <1>10 DEF UnlinkVoice, TypeOK
  <2>. QED  BY <2>1, <2>2 DEF Moderated
<1>11. CASE JobEnds
  <2>1. /\ UNCHANGED <<images, voice, public, told>>
        /\ job'.hit = job.hit /\ job'.left = job.left /\ job'.pc = "dead"
    BY <1>j, <1>11 DEF JobEnds, Job, row
  <2>. QED  BY <2>1 DEF Moderated
<1>. QED
  BY <1>1, <1>2, <1>3, <1>4, <1>5, <1>6, <1>7, <1>8, <1>9, <1>10, <1>11 DEF Next, Moderate

LEMMA SpokenStep == Typed /\ Moderated /\ Spoken /\ [Next]_vars => Spoken'
<1>. SUFFICES ASSUME Typed, Moderated, Spoken, [Next]_vars PROVE Spoken'
  OBVIOUS
<1>0. TypeOK /\ Locals
  BY DEF Typed
<1>n. Nothing # Speech /\ \A l \in Languages : Untranslated[l] = Nothing
  BY NamesAssumption DEF Untranslated
\* The row as a translation reads it.
<1>s. /\ SourceText = Speech => transcript = Speech
      /\ voice => SourceText \in {Nothing, Speech}
  BY <1>0, NamesAssumption DEF SourceText, TypeOK
<1>1. ASSUME NEW r \in Requests, UNCHANGED <<transcript, voice>>
      PROVE  /\ req'[r].source = Speech => transcript' = Speech
             /\ voice' => req'[r].source \in {Nothing, Speech}
             /\ \A l \in Languages : /\ req'[r].held[l] = Speech => transcript' = Speech
                                     /\ voice' => req'[r].held[l] \in {Nothing, Speech}
  BY <1>0, <1>1, <1>n, <1>s, RequestCarries DEF Spoken
<1>2. ASSUME NEW r \in Requests, TranslateWrite(r) PROVE Spoken'
  <2>1. /\ cache' = [req[r].held EXCEPT ![req[r].language] = req[r].source]
        /\ UNCHANGED <<transcript, voice, job>>
    BY <1>2 DEF TranslateWrite
  <2>2. req[r].held \in Cache
    BY <1>0 DEF TypeOK, Request
  <2>3. \A l \in Languages : cache'[l] \in {req[r].held[l], req[r].source}
    BY <2>1, <2>2 DEF Cache
  <2>. QED  BY <1>1, <2>1, <2>3 DEF Spoken
<1>3. ASSUME ~\E r \in Requests : TranslateWrite(r), UNCHANGED <<transcript, voice>>,
             job.pc = "done" => job'.pc = "done"
      PROVE  Spoken'
  <2>1. cache' = cache
    BY <1>3, CacheKept
  <2>. QED  BY <1>1, <1>3, <2>1 DEF Spoken
<1>4. CASE SaveTranscript
  <2>1. /\ transcript' = Speech /\ voice /\ UNCHANGED <<voice, cache, req>> /\ job'.pc = "done"
    BY <1>0, <1>4 DEF SaveTranscript, Moderated, TypeOK, Job
  <2>. QED  BY <2>1 DEF Spoken
<1>5. CASE UnlinkVoice
  <2>1. transcript # Speech
    BY <1>5 DEF UnlinkVoice, Spoken
  <2>2. ~voice' /\ UNCHANGED <<transcript, cache, req>>
    BY <1>5 DEF UnlinkVoice
  <2>. QED  BY <2>1, <2>2 DEF Spoken
<1>6. ASSUME \/ \E verdict \in [Images -> {"ok", "minors", "other"}], enforced \in BOOLEAN :
                  JudgeImages(verdict, enforced)
             \/ \E u \in Images : StoreImage(u)
             \/ ReadImages \/ StripImages \/ DeleteVoice \/ JobEnds
             \/ \E verdict \in {"silent", "fine", "flagged"}, enforced \in BOOLEAN :
                  JudgeVoice(verdict, enforced)
             \/ \E enforced \in BOOLEAN : SaveFails(enforced)
      PROVE  Spoken'
  <2>1. UNCHANGED <<transcript, voice, cache, req>> /\ job.pc # "done"
    BY <1>6 DEF JudgeImages, StoreImage, ReadImages, StripImages, DeleteVoice, JobEnds, JudgeVoice,
                SaveFails, row
  <2>. QED  BY <2>1 DEF Spoken
<1>7. CASE (\E r \in Requests : Edit(r) \/ Delete(r) \/ Translate(r) \/ Pin(r) \/ End(r))
           \/ LoseAuthority \/ UNCHANGED vars
  BY <1>0, <1>2, <1>3, <1>7, ModerationKept
<1>. QED  BY <1>4, <1>5, <1>6, <1>7 DEF Next, Moderate

\* For any images, languages and requests: what moderation is done with is linked
\* exactly where it is there to be shown and passed, the clients know, and no words
\* of a voice are in the row or its translations without having passed.
THEOREM ModerationDoesSettle == Spec => []ModerationSettles
<1>1. Init => Moderated /\ Spoken
  <2>. SUFFICES ASSUME Init PROVE Moderated /\ Spoken
    OBVIOUS
  <2>1. /\ voice => images = {}
        /\ images \subseteq Images
        /\ transcript = Nothing /\ cache = Untranslated /\ public = Objects
    BY DEF Init
  <2>2. /\ job \in [pc : {"judge", "done"}, hit : {{}}, left : {{}}, seen : {{}}]
    BY DEF Init
  <2>3. told.images = images /\ told.voice = voice
    BY DEF Init
  <2>4. \A r \in Requests : req[r].source = Nothing /\ req[r].held = Untranslated
    <3>1. NoRequest.source = Nothing /\ NoRequest.held = Untranslated
      BY DEF NoRequest
    <3>2. req = [r \in Requests |-> NoRequest]
      BY DEF Init
    <3>. QED  BY <3>1, <3>2
  <2>5. Nothing # Speech /\ \A l \in Languages : Untranslated[l] = Nothing
    BY NamesAssumption DEF Untranslated
  <2>6. job.pc \in {"judge", "done"} /\ job.hit = {} /\ job.left = {}
    BY <2>2
  <2>7. Moderated
    BY <2>1, <2>3, <2>6 DEF Moderated, Objects
  <2>8. Spoken
    BY <2>1, <2>4, <2>5 DEF Spoken
  <2>. QED  BY <2>7, <2>8
<1>2. Typed /\ Moderated /\ Spoken => ModerationSettles
  BY DEF Typed, TypeOK, Moderated, Spoken, ModerationSettles
<1>. QED  BY <1>1, <1>2, AlwaysTyped, ModeratedStep, SpokenStep, PTL DEF Spec

=============================================================================
