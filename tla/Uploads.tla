------------------------------- MODULE Uploads -------------------------------
(***************************************************************************)
(* Files in the bucket and the rows that name them (routes/upload.ts,      *)
(* services/storage.ts, services/docTakedown.ts).                          *)
(*                                                                         *)
(* A key is handed out with a presigned address, the client puts the file  *)
(* there and confirms it.  A picture (avatar, group icon, org icon; one    *)
(* row of them here) is then named by its row in place of the last one; a  *)
(* document is named by a message, and so is a recording, which has a      *)
(* takedown of its own (MessageContent).  Keys are numbered as they are    *)
(* handed out.                                                             *)
(***************************************************************************)
EXTENDS Naturals

CONSTANTS
    Confirms,  \* slots of confirm requests in flight
    MaxKeys,   \* bound on the keys of a behaviour
    PerHour    \* uploads a user may start in an hour

Keys == 1..MaxKeys
Kind == {"picture", "document", "voice"}

VARIABLES
    kind,      \* of each key handed out
    fit,       \* files of the size and type their kind allows; any, for a picture
    stored,    \* objects in the bucket
    public,    \* those with public read
    url,       \* the key the picture row names, 0 = none or a provider's picture
    attached,  \* the attachments of the message
    started,   \* the user's entry in uploadCounts
    confirm,   \* the confirm request in each slot
    removal,   \* the takedown of the message: what it has read and not yet moved
    spared,    \* history: keys a delete or a move failed at
    downed,    \* history: files a takedown began on, and not put there since
    clumsy     \* history: confirms repeated or overlapped, or one died half-way

uploadVars == <<kind, fit, stored, public, url, attached, started, confirm, removal, spared,
                downed, clumsy>>

Confirm == [pc : {"idle", "head", "publish", "old", "delete", "write"}, key : 0..MaxKeys,
            old : 0..MaxKeys]
NoConfirm == [pc |-> "idle", key |-> 0, old |-> 0]
Handed == {k \in Keys : kind[k] # "none"}

TypeOK ==
    /\ kind \in [Keys -> Kind \cup {"none"}]
    /\ fit \subseteq Handed /\ stored \subseteq Handed /\ public \subseteq stored
    /\ url \in {0} \cup {k \in Keys : kind[k] = "picture"}
    /\ attached \subseteq {k \in Keys : kind[k] = "document"}
    /\ started \in 0..PerHour
    /\ confirm \in [Confirms -> Confirm]
    /\ removal \in [pc : {"idle", "move"}, todo : SUBSET Keys]
    /\ spared \cup downed \subseteq Keys
    /\ clumsy \in BOOLEAN

Init ==
    /\ kind = [k \in Keys |-> "none"]
    /\ fit = {} /\ stored = {} /\ public = {}
    /\ url = 0
    /\ attached = {}
    /\ started = 0
    /\ confirm = [c \in Confirms |-> NoConfirm]
    /\ removal = [pc |-> "idle", todo |-> {}]
    /\ spared = {} /\ downed = {}
    /\ clumsy = FALSE

-----------------------------------------------------------------------------
(* A key and a file *)

\* POST /avatar-url, /group-icon-url, /org-icon-url, /voice-url, /doc-url.
Presign(k, what) ==
    /\ started < PerHour
    /\ \A j \in Keys : j < k <=> kind[j] # "none"
    /\ started' = started + 1
    /\ kind' = [kind EXCEPT ![k] = what]
    /\ UNCHANGED <<fit, stored, public, url, attached, confirm, removal, spared, downed, clumsy>>

\* The client's PUT; nothing checks it but the confirmation.  The address stays
\* good for a while, so a file may come back after a takedown; that it comes back
\* otherwise, overwrites one or is put while it is being confirmed is left out.
Put(k, fits) ==
    /\ kind[k] # "none"
    /\ k \notin stored /\ (k \in fit => k \in downed)
    /\ \A c \in Confirms : confirm[c].key # k
    /\ kind[k] = "picture" => fits
    /\ stored' = stored \cup {k}
    /\ fit' = IF fits THEN fit \cup {k} ELSE fit \ {k}
    /\ downed' = downed \ {k}
    /\ UNCHANGED <<kind, public, url, attached, started, confirm, removal, spared, clumsy>>

\* The window of an hour runs out.
NextHour ==
    /\ started > 0
    /\ started' = 0
    /\ UNCHANGED <<kind, fit, stored, public, url, attached, confirm, removal, spared, downed, clumsy>>

-----------------------------------------------------------------------------
(* The confirm handlers *)

Goto(c, pc) == confirm' = [confirm EXCEPT ![c].pc = pc]
Close(c) == confirm' = [confirm EXCEPT ![c] = NoConfirm]

\* Of their own key, and by an admin where the row is a group's or an org's.
StartConfirm(c, k) ==
    /\ confirm[c].pc = "idle"
    /\ kind[k] # "none"
    /\ confirm' = [confirm EXCEPT ![c] = [NoConfirm EXCEPT !.pc = "head", !.key = k]]
    /\ clumsy' = (clumsy \/ (kind[k] = "picture" /\
                    (k = url \/ \E d \in Confirms : confirm[d].pc # "idle")))
    /\ UNCHANGED <<kind, fit, stored, public, url, attached, started, removal, spared, downed>>

\* HeadObject: a file that is not there is refused; a document of the wrong size
\* or type is also deleted, as far as the bucket lets it be.
CheckHead(c) ==
    LET k == confirm[c].key IN
    /\ confirm[c].pc = "head"
    /\ CASE k \notin stored -> Close(c) /\ UNCHANGED <<stored, public, spared>>
         [] k \in stored /\ k \in fit ->
              Goto(c, "publish") /\ UNCHANGED <<stored, public, spared>>
         [] k \in stored /\ k \notin fit /\ kind[k] = "voice" ->
              Close(c) /\ UNCHANGED <<stored, public, spared>>
         [] k \in stored /\ k \notin fit /\ kind[k] = "document" ->
              /\ Close(c)
              /\ \/ stored' = stored \ {k} /\ public' = public \ {k} /\ UNCHANGED spared
                 \/ spared' = spared \cup {k} /\ UNCHANGED <<stored, public>>
    /\ UNCHANGED <<kind, fit, url, attached, started, removal, downed, clumsy>>

\* Mutant: the grant is taken to have worked on an object gone by now.
PublishBlindly(c) ==
    LET k == confirm[c].key IN
    /\ confirm[c].pc = "publish"
    /\ public' = public \cup {k}
    /\ IF kind[k] = "picture" THEN Goto(c, "old") ELSE Close(c)
    /\ UNCHANGED <<kind, fit, stored, url, attached, started, removal, spared, downed, clumsy>>

\* The grant fails on an object gone by now.  A document or a recording is
\* answered; the client may name it in a message.
Publish(c) ==
    LET k == confirm[c].key IN
    /\ confirm[c].pc = "publish"
    /\ public' = public \cup ({k} \cap stored)
    /\ IF k \in stored /\ kind[k] = "picture" THEN Goto(c, "old") ELSE Close(c)
    /\ UNCHANGED <<kind, fit, stored, url, attached, started, removal, spared, downed, clumsy>>

ReadOld(c) ==
    /\ confirm[c].pc = "old"
    /\ confirm' = [confirm EXCEPT ![c].old = url, ![c].pc = IF url = 0 THEN "write" ELSE "delete"]
    /\ UNCHANGED <<kind, fit, stored, public, url, attached, started, removal, spared, downed, clumsy>>

\* Mutant: the new picture is deleted in place of the last one.
DeleteNew(c) ==
    LET k == confirm[c].key IN
    /\ confirm[c].pc = "delete"
    /\ stored' = stored \ {k} /\ public' = public \ {k}
    /\ Goto(c, "write")
    /\ UNCHANGED <<kind, fit, url, attached, started, spared, removal, downed, clumsy>>

\* Mutant: the last picture stays.
DeleteNothing(c) ==
    /\ confirm[c].pc = "delete"
    /\ Goto(c, "write")
    /\ UNCHANGED <<kind, fit, stored, public, url, attached, started, spared, removal, downed, clumsy>>

\* The last picture goes before the row names the next; a failure is logged.
DeleteOld(c) ==
    LET o == confirm[c].old IN
    /\ confirm[c].pc = "delete"
    /\ \/ stored' = stored \ {o} /\ public' = public \ {o} /\ UNCHANGED spared
       \/ spared' = spared \cup {o} /\ UNCHANGED <<stored, public>>
    /\ Goto(c, "write")
    /\ UNCHANGED <<kind, fit, url, attached, started, removal, downed, clumsy>>

WriteUrl(c) ==
    /\ confirm[c].pc = "write"
    /\ url' = confirm[c].key
    /\ Close(c)
    /\ UNCHANGED <<kind, fit, stored, public, attached, started, removal, spared, downed, clumsy>>

-----------------------------------------------------------------------------
(* Messages and takedowns *)

\* A message names one document.  The send asks whose key it is, and nothing of
\* the bucket: the document may not be confirmed, not be there, or be gone.
Attach(k) ==
    /\ kind[k] = "document"
    /\ attached = {}
    /\ attached' = {k}
    /\ UNCHANGED <<kind, fit, stored, public, url, started, confirm, removal, spared, downed, clumsy>>

\* quarantineMessageDocuments: the attachments are read, moved to the private
\* prefix one by one, and the column is emptied whatever came of the moves.
StartTakedown ==
    /\ removal.pc = "idle" /\ attached # {}
    /\ removal' = [pc |-> "move", todo |-> attached]
    /\ downed' = downed \cup attached
    /\ UNCHANGED <<kind, fit, stored, public, url, attached, started, confirm, spared, clumsy>>

Quarantine(k) ==
    /\ removal.pc = "move" /\ k \in removal.todo
    /\ \/ k \in stored /\ stored' = stored \ {k} /\ public' = public \ {k} /\ UNCHANGED spared
       \/ spared' = spared \cup {k} /\ UNCHANGED <<stored, public>>
    /\ removal' = [removal EXCEPT !.todo = @ \ {k}]
    /\ UNCHANGED <<kind, fit, url, attached, started, confirm, downed, clumsy>>

\* Mutant: the column is emptied before the files have moved.
FinishAtOnce ==
    /\ removal.pc = "move"
    /\ attached' = {}
    /\ removal' = [pc |-> "idle", todo |-> {}]
    /\ UNCHANGED <<kind, fit, stored, public, url, started, confirm, spared, downed, clumsy>>

FinishTakedown ==
    /\ removal.pc = "move" /\ removal.todo = {}
    /\ attached' = {}
    /\ removal' = [removal EXCEPT !.pc = "idle"]
    /\ UNCHANGED <<kind, fit, stored, public, url, started, confirm, spared, downed, clumsy>>

\* The process stops; the counts go with it.
Stop ==
    /\ removal.pc = "move" \/ \E c \in Confirms : confirm[c].pc # "idle"
    /\ confirm' = [c \in Confirms |-> NoConfirm]
    /\ removal' = [pc |-> "idle", todo |-> {}]
    /\ started' = 0
    /\ clumsy' = (clumsy \/ removal.pc = "move"
                    \/ \E c \in Confirms : confirm[c].pc \in {"old", "delete", "write"})
    /\ UNCHANGED <<kind, fit, stored, public, url, attached, spared, downed>>

Next ==
    \/ \E k \in Keys :
         \/ \E what \in Kind : Presign(k, what)
         \/ \E fits \in BOOLEAN : Put(k, fits)
         \/ Attach(k) \/ Quarantine(k)
    \/ \E c \in Confirms :
         \/ \E k \in Keys : StartConfirm(c, k)
         \/ CheckHead(c) \/ Publish(c) \/ ReadOld(c) \/ DeleteOld(c) \/ WriteUrl(c)
    \/ NextHour \/ StartTakedown \/ FinishTakedown \/ Stop

-----------------------------------------------------------------------------
(* Properties *)

\* The picture a row names is in the bucket and public, but for a moment before the
\* next one is named; unless a confirm was repeated, overlapped another or died
\* half-way.  (Of the document a message names nothing of the kind is so: see Attach.)
NamedIsServed ==
    clumsy \/
    (url # 0 => url \in public
                \/ \E c \in Confirms : confirm[c].pc = "write" /\ confirm[c].old = url)

\* What is public is named, or about to be: no old picture stays, and nothing of a
\* message once its takedown is done, unless the bucket failed to delete or move it
\* or the client put it there again.
PublicIsNamed ==
    clumsy \/
    \A k \in public \ spared :
      \/ k = url \/ k \in attached
      \/ kind[k] # "picture" /\ k \notin downed
      \/ \E c \in Confirms : confirm[c].key = k
=============================================================================
