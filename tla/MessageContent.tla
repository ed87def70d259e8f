--------------------------- MODULE MessageContent ---------------------------
(***************************************************************************)
(* What becomes of one message after it was sent: edits, deletion and      *)
(* translations (routes/chat.ts), its pin (routes/pins.ts,                 *)
(* services/pinAnnounce.ts) and the moderation of its images or voice      *)
(* (services/imageModeration.ts, services/voiceModeration.ts) which the    *)
(* send set off and never waits for.  Every handler reads the message in   *)
(* one statement and writes it in a later one.                             *)
(*                                                                         *)
(* Words are numbered in the order the edits were asked for, the original  *)
(* being 0; edits and deletions are the author's, every other caller's end *)
(* at the first gate.  A message has images, or a voice, or words only.    *)
(* Documents and reactions, and the system line of a pin, which is a       *)
(* message of its own, are left out.                                       *)
(***************************************************************************)
EXTENDS Naturals, Sequences

CONSTANTS
    Images,     \* the images of a message that has some
    Languages,  \* target languages of translations
    Requests,   \* slots of requests in flight
    MaxEdits,   \* bound on the edits of a behaviour
    Speech,     \* the transcript of the voice
    Nothing     \* null

Words == 0..MaxEdits

ASSUME EditsAssumption == MaxEdits \in Nat
ASSUME NamesAssumption == Nothing # Speech /\ {Nothing, Speech} \cap Words = {}

VARIABLES
    content,     \* messages.content
    deleted,     \* deleted_at is set
    images,      \* media_urls
    voice,       \* voice_url is set
    transcript,  \* voice_transcript
    cache,       \* translated_content: what the translation to a language is of
    audit,       \* message_edits, in the order of insertion
    pin,         \* preview_text of the pin of the chat, when it is this message
    mayPin,      \* the caller of the pin routes has authority
    public,      \* objects in the storage at the place the message links
    job,         \* the moderation of the message
    req,         \* the request in each slot
    told,        \* what the events so far have told the clients
    past,        \* history: the words replaced, in the order of replacement
    loose        \* history: what two requests did at once, or no event will tell

row == <<content, deleted, images, voice, transcript, cache>>
history == <<past, loose>>
vars == <<row, audit, pin, mayPin, public, job, req, told, history>>

Source == Words \cup {Speech}
Cache == [Languages -> Source \cup {Nothing}]
Objects == Images \cup {"voice"}

Request == [pc : {"idle", "edit", "editTell", "delete", "deleteTell", "translate",
                  "pinCheck", "pin", "unpin", "pinTell"},
            was : Words, words : Words \cup {Nothing},
            language : Languages \cup {Nothing}, source : Source \cup {Nothing},
            held : Cache]
Untranslated == [l \in Languages |-> Nothing]
NoRequest == [pc |-> "idle", was |-> 0, words |-> Nothing,
              language |-> Nothing, source |-> Nothing, held |-> Untranslated]

Job == [pc : {"judge", "store", "read", "strip", "save", "delete", "unlink", "done", "dead"},
        hit : SUBSET Images, left : SUBSET Images, seen : SUBSET Images]

TypeOK ==
    /\ content \in Words /\ deleted \in BOOLEAN
    /\ images \subseteq Images /\ voice \in BOOLEAN
    /\ transcript \in {Nothing, Speech}
    /\ cache \in Cache
    /\ audit \in Seq(Words) /\ past \in Seq(Words)
    /\ Len(audit) = Len(past) /\ Len(past) <= MaxEdits
    /\ pin \in Words \cup {Nothing}
    /\ mayPin \in BOOLEAN /\ public \subseteq Objects
    /\ job \in Job /\ req \in [Requests -> Request]
    /\ told \in [content : Words, deleted : BOOLEAN, images : SUBSET Images,
                 voice : BOOLEAN, pin : Words \cup {Nothing}]
    /\ loose \subseteq {"audit", "cache", "edit", "delete", "pin"}

\* The message was just sent, and its moderation begins.
Init ==
    /\ content = 0 /\ deleted = FALSE
    /\ \/ images = Images /\ voice = FALSE
       \/ images = {} /\ voice \in BOOLEAN
    /\ transcript = Nothing /\ cache = Untranslated
    /\ audit = <<>> /\ pin = Nothing
    /\ mayPin = TRUE /\ public = Objects
    /\ job = [pc |-> IF images # {} \/ voice THEN "judge" ELSE "done",
              hit |-> {}, left |-> {}, seen |-> {}]
    /\ req = [r \in Requests |-> NoRequest]
    /\ told = [content |-> 0, deleted |-> FALSE, images |-> images,
               voice |-> voice, pin |-> Nothing]
    /\ past = <<>> /\ loose = {}

Idle(r) == req[r].pc = "idle"
At(r, pc) == req[r].pc = pc
OtherAt(r, pc) == \E q \in Requests \ {r} : At(q, pc)
Goto(r, pc) == req' = [req EXCEPT ![r].pc = pc]
Answer(r) == req' = [req EXCEPT ![r] = NoRequest]

-----------------------------------------------------------------------------
(* PATCH /messages/:id *)

\* The bound counts the edits asked for.
Asked == {past[i] : i \in DOMAIN past} \cup {content} \cup {req[q].words : q \in Requests}

\* Mutant: media messages are edited as well.
EditReadAny(r, w) ==
    /\ Idle(r)
    /\ w \in Words \ Asked /\ \A v \in Words \ Asked : w <= v
    /\ req' = [req EXCEPT ![r] = [NoRequest EXCEPT !.pc = "edit", !.was = content, !.words = w]]
    /\ UNCHANGED <<row, audit, pin, mayPin, public, job, told, history>>

\* The author's edit of a message without images; a deleted one is no exception.
EditRead(r, w) ==
    /\ Idle(r)
    /\ w \in Words \ Asked /\ \A v \in Words \ Asked : w <= v
    /\ images = {}
    /\ req' = [req EXCEPT ![r] = [NoRequest EXCEPT !.pc = "edit", !.was = content, !.words = w]]
    /\ UNCHANGED <<row, audit, pin, mayPin, public, job, told, history>>

\* The words an edit leaves in the audit, and the rest of its transaction.
Replace(r, kept) ==
    /\ At(r, "edit")
    /\ audit' = audit \o kept
    /\ content' = req[r].words
    /\ past' = Append(past, content)
    /\ loose' = loose \cup {x \in {"audit"} : OtherAt(r, "edit")}
                      \cup {x \in {"edit"} : OtherAt(r, "editTell")}
    /\ Goto(r, "editTell")
    /\ UNCHANGED <<deleted, images, voice, transcript, cache, pin, mayPin, public, job, told>>

\* Mutants: the new words are kept; nothing is.
EditTxKeepsNew(r) == Replace(r, <<req[r].words>>)
EditTxKeepsNone(r) == Replace(r, <<>>)

\* The transaction: the words read go to the audit, the new ones in their place.
EditTx(r) == Replace(r, <<req[r].was>>)

\* message:edited, after the row was read again with reactions and replies.
EditTell(r) ==
    /\ At(r, "editTell")
    /\ told' = [told EXCEPT !.content = req[r].words]
    /\ Answer(r)
    /\ UNCHANGED <<row, audit, pin, mayPin, public, job, history>>

-----------------------------------------------------------------------------
(* DELETE /messages/:id *)

DeleteRead(r) ==
    /\ Idle(r)
    /\ ~deleted
    /\ Goto(r, "delete")
    /\ UNCHANGED <<row, audit, pin, mayPin, public, job, told, history>>

DeleteWrite(r) ==
    /\ At(r, "delete")
    /\ deleted' = TRUE
    /\ Goto(r, "deleteTell")
    /\ UNCHANGED <<content, images, voice, transcript, cache, audit, pin, mayPin, public, job,
                   told, history>>

DeleteTell(r) ==
    /\ At(r, "deleteTell")
    /\ told' = [told EXCEPT !.deleted = TRUE]
    /\ Answer(r)
    /\ UNCHANGED <<row, audit, pin, mayPin, public, job, history>>

-----------------------------------------------------------------------------
(* POST /translate/:messageId *)

\* Mutant: always by the words.
WordsOnly == content

\* A voice is translated by its transcript, anything else by its words.
SourceText == IF voice THEN transcript ELSE content

\* Nothing to translate and a cached translation are answered at once.
TranslateRead(r, l) ==
    /\ Idle(r)
    /\ SourceText # Nothing /\ cache[l] = Nothing
    /\ req' = [req EXCEPT ![r] = [NoRequest EXCEPT
         !.pc = "translate", !.language = l, !.source = SourceText, !.held = cache]]
    /\ UNCHANGED <<row, audit, pin, mayPin, public, job, told, history>>

\* Mutant: over an empty cache.
TranslateWriteAlone(r) ==
    /\ At(r, "translate")
    /\ cache' = [Untranslated EXCEPT ![req[r].language] = req[r].source]
    /\ Answer(r)
    /\ UNCHANGED <<content, deleted, images, voice, transcript, audit, pin, mayPin, public, job,
                   told, history>>

\* After the model's answer, over the languages cached when the row was read.
TranslateWrite(r) ==
    /\ At(r, "translate")
    /\ cache' = [req[r].held EXCEPT ![req[r].language] = req[r].source]
    /\ loose' = loose \cup {x \in {"cache"} : OtherAt(r, "translate")}
    /\ Answer(r)
    /\ UNCHANGED <<content, deleted, images, voice, transcript, audit, pin, mayPin, public, job,
                   told, past>>

-----------------------------------------------------------------------------
(* /pins *)

PinRead(r) ==
    /\ Idle(r)
    /\ req' = [req EXCEPT ![r] = [NoRequest EXCEPT !.pc = "pinCheck", !.was = content]]
    /\ UNCHANGED <<row, audit, pin, mayPin, public, job, told, history>>

\* checkPinAuthority; an unpin begins here.
PinCheck(r) ==
    /\ At(r, "pinCheck")
    /\ mayPin
    /\ req' = [req EXCEPT ![r].pc = "pin", ![r].words = req[r].was]
    /\ UNCHANGED <<row, audit, pin, mayPin, public, job, told, history>>

UnpinCheck(r) ==
    /\ Idle(r)
    /\ mayPin
    /\ Goto(r, "unpin")
    /\ UNCHANGED <<row, audit, pin, mayPin, public, job, told, history>>

\* The upsert with the preview read before, or the deletion of the row.
PinWrite(r) ==
    /\ req[r].pc \in {"pin", "unpin"}
    /\ pin' = req[r].words
    /\ loose' = loose \cup {x \in {"pin"} : OtherAt(r, "pinTell")}
    /\ Goto(r, "pinTell")
    /\ UNCHANGED <<row, audit, mayPin, public, job, told, past>>

\* Mutant: an unpin posts its line and no event.
PinTellPinned(r) ==
    /\ At(r, "pinTell")
    /\ told' = [told EXCEPT !.pin = IF req[r].words = Nothing THEN @ ELSE req[r].words]
    /\ Answer(r)
    /\ UNCHANGED <<row, audit, pin, mayPin, public, job, history>>

\* announcePinAction, once the system line is in.
PinTell(r) ==
    /\ At(r, "pinTell")
    /\ told' = [told EXCEPT !.pin = req[r].words]
    /\ Answer(r)
    /\ UNCHANGED <<row, audit, pin, mayPin, public, job, history>>

\* The role of the caller is taken, or they leave: other routes do it.
LoseAuthority ==
    /\ mayPin' = FALSE
    /\ UNCHANGED <<row, audit, pin, public, job, req, told, history>>

\* GET /pins
PinAnswer == pin

-----------------------------------------------------------------------------
(* Failures *)

\* The words for a change that was made and not yet told.
Untold == [editTell |-> "edit", deleteTell |-> "delete", pinTell |-> "pin"]

\* A gate turns the request away, a statement or the model fails, the
\* announcement swallows its error, or the process dies.
End(r) ==
    /\ ~Idle(r)
    /\ loose' = loose \cup {Untold[pc] : pc \in {req[r].pc} \cap DOMAIN Untold}
    /\ Answer(r)
    /\ UNCHANGED <<row, audit, pin, mayPin, public, job, told, past>>

JobEnds ==
    /\ job.pc \notin {"done", "dead"}
    /\ job' = [job EXCEPT !.pc = "dead"]
    /\ UNCHANGED <<row, audit, pin, mayPin, public, req, told, history>>

-----------------------------------------------------------------------------
(* moderateMessageImages *)

\* What is removed: in shadow mode only what the law demands.
Enforced(verdict, enforced) ==
    {u \in Images : verdict[u] = "minors" \/ (enforced /\ verdict[u] = "other")}

\* Mutant: shadow mode is forgotten where the objects are removed.
JudgeImagesAndStore(verdict, enforced) ==
    /\ job.pc = "judge" /\ ~voice
    /\ LET hit == Enforced(verdict, enforced) IN
       job' = [job EXCEPT !.hit = hit, !.left = Enforced(verdict, TRUE),
                          !.pc = IF Enforced(verdict, TRUE) = {} THEN "done" ELSE "store"]
    /\ UNCHANGED <<row, audit, pin, mayPin, public, req, told, history>>

\* Both passes over every image; an analysis that fails counts as flagged, a
\* picture of the GIF service and spam of low confidence as fine.
JudgeImages(verdict, enforced) ==
    /\ job.pc = "judge" /\ ~voice
    /\ LET hit == Enforced(verdict, enforced) IN
       job' = [job EXCEPT !.hit = hit, !.left = hit, !.pc = IF hit = {} THEN "done" ELSE "store"]
    /\ UNCHANGED <<row, audit, pin, mayPin, public, req, told, history>>

\* deleteObject or quarantineObject, which log a failure and return.
StoreImage(u) ==
    /\ job.pc = "store" /\ u \in job.left
    /\ public' \in {public, public \ {u}}
    /\ job' = [job EXCEPT !.left = @ \ {u}, !.pc = IF job.left = {u} THEN "read" ELSE @]
    /\ UNCHANGED <<row, audit, pin, mayPin, req, told, history>>

ReadImages ==
    /\ job.pc = "read"
    /\ job' = [job EXCEPT !.pc = "strip", !.seen = images]
    /\ UNCHANGED <<row, audit, pin, mayPin, public, req, told, history>>

\* The update, message:media_removed and the notice to the author.
StripImages ==
    /\ job.pc = "strip"
    /\ images' = job.seen \ job.hit
    /\ told' = [told EXCEPT !.images = images']
    /\ job' = [job EXCEPT !.pc = "done", !.seen = {}]
    /\ UNCHANGED <<content, deleted, voice, transcript, cache, audit, pin, mayPin, public, req,
                   history>>

-----------------------------------------------------------------------------
(* moderateVoiceMessage *)

\* Silence is left alone, fine words are kept for the player; flagged ones
\* and a transcription that failed lead to the removal, unless in shadow mode.
JudgeVoice(verdict, enforced) ==
    /\ job.pc = "judge" /\ voice
    /\ job' = [job EXCEPT !.pc = CASE verdict = "fine" -> "save"
                                   [] verdict = "flagged" /\ enforced -> "delete"
                                   [] OTHER -> "done"]
    /\ UNCHANGED <<row, audit, pin, mayPin, public, req, told, history>>

SaveTranscript ==
    /\ job.pc = "save"
    /\ transcript' = Speech
    /\ job' = [job EXCEPT !.pc = "done"]
    /\ UNCHANGED <<content, deleted, images, voice, cache, audit, pin, mayPin, public, req, told,
                   history>>

\* A failed update is taken for a failed transcription.
SaveFails(enforced) ==
    /\ job.pc = "save"
    /\ job' = [job EXCEPT !.pc = IF enforced THEN "delete" ELSE "done"]
    /\ UNCHANGED <<row, audit, pin, mayPin, public, req, told, history>>

DeleteVoice ==
    /\ job.pc = "delete"
    /\ public' \in {public, public \ {"voice"}}
    /\ job' = [job EXCEPT !.pc = "unlink"]
    /\ UNCHANGED <<row, audit, pin, mayPin, req, told, history>>

\* The update, message:voice_removed and the notice to the author.
UnlinkVoice ==
    /\ job.pc = "unlink"
    /\ voice' = FALSE
    /\ told' = [told EXCEPT !.voice = FALSE]
    /\ job' = [job EXCEPT !.pc = "done"]
    /\ UNCHANGED <<content, deleted, images, transcript, cache, audit, pin, mayPin, public, req,
                   history>>

-----------------------------------------------------------------------------
Edit(r) == (\E w \in Words : EditRead(r, w)) \/ EditTx(r) \/ EditTell(r)
Delete(r) == DeleteRead(r) \/ DeleteWrite(r) \/ DeleteTell(r)
Translate(r) == (\E l \in Languages : TranslateRead(r, l)) \/ TranslateWrite(r)
Pin(r) == PinRead(r) \/ PinCheck(r) \/ UnpinCheck(r) \/ PinWrite(r) \/ PinTell(r)

Moderate ==
    \/ \E verdict \in [Images -> {"ok", "minors", "other"}], enforced \in BOOLEAN :
         JudgeImages(verdict, enforced)
    \/ \E u \in Images : StoreImage(u)
    \/ ReadImages \/ StripImages
    \/ \E verdict \in {"silent", "fine", "flagged"}, enforced \in BOOLEAN :
         JudgeVoice(verdict, enforced)
    \/ \E enforced \in BOOLEAN : SaveFails(enforced)
    \/ SaveTranscript \/ DeleteVoice \/ UnlinkVoice

Next ==
    \/ \E r \in Requests : Edit(r) \/ Delete(r) \/ Translate(r) \/ Pin(r) \/ End(r)
    \/ Moderate \/ JobEnds \/ LoseAuthority

Spec == Init /\ [][Next]_vars

-----------------------------------------------------------------------------
(* Properties *)

\* "Preserve OLD content in audit" (chat.ts:1204): as long as no edit was
\* committed between another's read and its transaction, the audit holds exactly
\* the words that were replaced, in that order.  And an edit reaches a message
\* with images only once moderation took them all, however long ago it looked.
EditsAreRecorded ==
    /\ "audit" \notin loose => audit = past
    /\ audit # <<>> => images = {}

\* Clients end with what is stored: once no event of a kind is owed, they show
\* the words, the deletion and the pin of the row, unless two changes of a kind
\* were told in the other order, or one of them was never told.
Settled(what, pc) == what \notin loose /\ \A r \in Requests : ~At(r, pc)
ClientsCatchUp ==
    /\ Settled("edit", "editTell") => told.content = content
    /\ Settled("delete", "deleteTell") => told.deleted = deleted
    /\ Settled("pin", "pinTell") => told.pin = pin

\* A language once translated stays translated, unless two translations of the
\* message were under way at once: each writes the whole cache back.
TranslationsStay ==
    [][ "cache" \notin loose' => \A l \in Languages : cache[l] # Nothing => cache'[l] # Nothing ]_vars

\* What moderation left linked is there to be shown and was not flagged (or is let
\* through in shadow mode, the unlawful never), and clients know; the words of a
\* voice reach the row and its translations only if moderation let them pass, and
\* the fallback text of a voice that plays is never translated.
ModerationSettles ==
    /\ job.pc = "done" =>
         /\ images \subseteq public \ job.hit
         /\ voice => "voice" \in public
         /\ told.images = images /\ told.voice = voice
    /\ ~voice => transcript = Nothing /\ \A l \in Languages : cache[l] # Speech
    /\ voice => \A l \in Languages : cache[l] \in {Nothing, Speech}

\* "The actual content must never reach the client" (utils/redactDeleted.ts:5)
\* once the message is deleted: the pin bar asks GET /pins.  The code's pin
\* keeps its preview.
DeletedStaysUnread == deleted => PinAnswer = Nothing

\* Audit, row and clients agree on the words of the message and what became of it.
RecordsAgree == EditsAreRecorded /\ ClientsCatchUp
=============================================================================
