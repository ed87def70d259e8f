---------------------------- MODULE GroupSlugs -----------------------------
(***************************************************************************)
(* The names invite links go by: conversations.invite_slug, the aliases    *)
(* that renames leave behind (group_slug_aliases), the create and rename   *)
(* handlers of routes/groups.ts that claim slugs, resolveGroupIdBySlug,    *)
(* which every link goes through, and the daily reaper of unused aliases   *)
(* (jobs/aliasReaper.ts).  "Taken" is read in two queries before the write *)
(* that relies on it; only the rename's write is a transaction.            *)
(*                                                                         *)
(* A group stands for its conversation row, a slug for every name slugify  *)
(* maps to it.  Who may create or rename is decided elsewhere.             *)
(***************************************************************************)
EXTENDS FiniteSets

CONSTANTS
    Groups,    \* conversation ids that may ever be used (bounds creation)
    Slugs,     \* slugs
    Calls,     \* handler slots: how many requests may be in flight at once
    NoGroup,   \* "no row"
    NoSlug     \* the group does not exist yet, or an unused local

ASSUME NoneAssumption == NoGroup \notin Groups /\ NoSlug \notin Slugs

VARIABLES
    live,      \* invite_slug of each group (UNIQUE)
    alias,     \* group_slug_aliases: the group each old slug still points at
    old,       \* aliases whose last_used_at is over 30 days ago
    call,      \* the in-flight handler of each slot
    \* History, written and never read by the handlers:
    home,      \* the group that links with this slug were last given out for
    raced      \* the slugs of claims that met another while in flight

slugsVars == <<live, alias, old, call, home, raced>>

Group == Groups \cup {NoGroup}
Slug  == Slugs \cup {NoSlug}

Creating  == {"createAlias", "insert"}
Renaming  == {"renameSlug", "renameAlias", "swap"}
Resolving == {"viaAlias", "bump"}
Claiming  == Creating \cup Renaming

Call == [pc : {"idle"} \cup Claiming \cup Resolving,
         group : Group, slug : Slug, prev : Slug]
NoCall == [pc |-> "idle", group |-> NoGroup, slug |-> NoSlug, prev |-> NoSlug]

SlugsTypeOK ==
    /\ live \in [Groups -> Slug]
    /\ alias \in [Slugs -> Group]
    /\ old \subseteq {s \in Slugs : alias[s] # NoGroup}
    /\ call \in [Calls -> Call]
    /\ \A r \in Calls :
         /\ call[r].pc # "idle" => call[r].slug \in Slugs
         /\ call[r].pc \in Renaming => /\ call[r].group \in Groups
                                       /\ call[r].prev \in Slugs \ {call[r].slug}
    /\ home \in [Slugs -> Group]
    /\ raced \subseteq Slugs

SlugsInit ==
    /\ live = [g \in Groups |-> NoSlug]
    /\ alias = [s \in Slugs |-> NoGroup]
    /\ old = {}
    /\ call = [r \in Calls |-> NoCall]
    /\ home = [s \in Slugs |-> NoGroup]
    /\ raced = {}

-----------------------------------------------------------------------------
(* Handler plumbing *)

StartCall(r, rec) ==
    /\ call[r].pc = "idle"
    /\ call' = [call EXCEPT ![r] = rec]

\* Two claims meet when they are about one slug or rename one group.
Names(p) == {p.slug, p.prev} \ {NoSlug}
Meet(p, q) == Names(p) \cap Names(q) # {} \/ (p.group = q.group /\ p.group # NoGroup)

\* A create or a rename arrives; the history notes the slugs of those it meets.
ArriveClaim(r, rec) ==
    /\ StartCall(r, rec)
    /\ LET met == {q \in Calls : call[q].pc \in Claiming /\ Meet(call[q], rec)}
       IN  raced' = raced \cup UNION {Names(call[q]) \cup Names(rec) : q \in met}

Proceed(r, step) == call' = [call EXCEPT ![r].pc = step]

Answer(r) == call' = [call EXCEPT ![r] = NoCall]

\* The first query of isSlugTaken: is s the live slug of a group but g?
LiveElsewhere(s, g) == \E h \in Groups \ {g} : live[h] = s

\* Mutant: an alias does not reserve its slug.
AliasedNowhere(s, g) == FALSE

\* The second query: is s reserved by an alias of a group but g?
AliasedElsewhere(s, g) == alias[s] \notin {NoGroup, g}

links == <<live, alias, old, home>>

-----------------------------------------------------------------------------
(* POST /groups *)

\* Refusals end the request where it arrives and are not steps.
CreateCheckSlug(r, s) ==
    /\ ~LiveElsewhere(s, NoGroup)
    /\ ArriveClaim(r, [NoCall EXCEPT !.pc = "createAlias", !.slug = s])
    /\ UNCHANGED links

CreateCheckAlias(r) ==
    /\ call[r].pc = "createAlias"
    /\ IF AliasedElsewhere(call[r].slug, NoGroup) THEN Answer(r) ELSE Proceed(r, "insert")
    /\ UNCHANGED <<links, raced>>

\* INSERT INTO conversations: UNIQUE(invite_slug) turns a lost race into a 409.
CreateInsert(r) ==
    LET s == call[r].slug IN
    /\ call[r].pc = "insert"
    /\ IF LiveElsewhere(s, NoGroup)
       THEN UNCHANGED <<live, home>>
       ELSE \E g \in Groups :
              /\ live[g] = NoSlug
              /\ live' = [live EXCEPT ![g] = s]
              /\ home' = [home EXCEPT ![s] = g]
    /\ Answer(r)
    /\ UNCHANGED <<alias, old, raced>>

-----------------------------------------------------------------------------
(* PUT /groups/:id, when the new name changes the slug *)

\* Mutant: an unchanged slug goes through the swap as well.
RenameReadSame(r, g, s) ==
    /\ live[g] # NoSlug
    /\ ArriveClaim(r, [pc |-> "renameSlug", group |-> g, slug |-> s, prev |-> live[g]])
    /\ UNCHANGED links

\* The current name and slug are read; the rename below relies on both.
RenameRead(r, g, s) ==
    /\ live[g] \notin {NoSlug, s}
    /\ ArriveClaim(r, [pc |-> "renameSlug", group |-> g, slug |-> s, prev |-> live[g]])
    /\ UNCHANGED links

RenameCheckSlug(r) ==
    /\ call[r].pc = "renameSlug"
    /\ IF LiveElsewhere(call[r].slug, call[r].group) THEN Answer(r) ELSE Proceed(r, "renameAlias")
    /\ UNCHANGED <<links, raced>>

RenameCheckAlias(r) ==
    /\ call[r].pc = "renameAlias"
    /\ IF AliasedElsewhere(call[r].slug, call[r].group) THEN Answer(r) ELSE Proceed(r, "swap")
    /\ UNCHANGED <<links, raced>>

\* Mutant: no alias is left behind.
RenameTxForgetsOld(r) ==
    LET q == call[r] IN
    /\ q.pc = "swap"
    /\ IF LiveElsewhere(q.slug, q.group)
       THEN UNCHANGED links
       ELSE /\ live' = [live EXCEPT ![q.group] = q.slug]
            /\ home' = [home EXCEPT ![q.slug] = q.group]
            /\ UNCHANGED <<alias, old>>
    /\ Answer(r)
    /\ UNCHANGED raced

\* The transaction: delete the group's own alias on the new slug, update the
\* group (UNIQUE aborts it all), point the previous slug at the group, whoever
\* had it before.
RenameTx(r) ==
    LET q == call[r] IN
    /\ q.pc = "swap"
    /\ IF LiveElsewhere(q.slug, q.group)
       THEN UNCHANGED links
       ELSE LET kept == IF alias[q.slug] = q.group THEN NoGroup ELSE alias[q.slug] IN
            /\ live' = [live EXCEPT ![q.group] = q.slug]
            /\ alias' = [alias EXCEPT ![q.slug] = kept, ![q.prev] = q.group]
            /\ old' = {s \in old \ {q.prev} : alias'[s] # NoGroup}
            /\ home' = [home EXCEPT ![q.slug] = q.group]
    /\ Answer(r)
    /\ UNCHANGED raced

-----------------------------------------------------------------------------
(* resolveGroupIdBySlug: GET /groups/info/:slug and POST /groups/:slug/join *)

\* A live slug is answered at once; otherwise the alias is looked up.
ResolveLive(r, s) ==
    /\ ~LiveElsewhere(s, NoGroup)
    /\ StartCall(r, [NoCall EXCEPT !.pc = "viaAlias", !.slug = s])
    /\ UNCHANGED <<links, raced>>

ResolveAlias(r) ==
    /\ call[r].pc = "viaAlias"
    /\ IF alias[call[r].slug] = NoGroup THEN Answer(r) ELSE Proceed(r, "bump")
    /\ UNCHANGED <<links, raced>>

\* UPDATE ... SET last_used_at by slug.
ResolveBump(r) ==
    /\ call[r].pc = "bump"
    /\ old' = old \ {call[r].slug}
    /\ Answer(r)
    /\ UNCHANGED <<live, alias, home, raced>>

-----------------------------------------------------------------------------
(* Time, the reaper, crashes *)

\* Thirty days pass without a hit.  No request takes that long.
AliasAges(s) ==
    /\ \A r \in Calls : call[r].pc = "idle"
    /\ alias[s] # NoGroup
    /\ old' = old \cup {s}
    /\ UNCHANGED <<live, alias, call, home, raced>>

\* reapStaleAliases: one DELETE.  Links with a reaped slug are given up.
Reap ==
    /\ old # {}
    /\ alias' = [s \in Slugs |-> IF s \in old THEN NoGroup ELSE alias[s]]
    /\ home' = [s \in Slugs |-> IF s \in old THEN NoGroup ELSE home[s]]
    /\ old' = {}
    /\ UNCHANGED <<live, call, raced>>

CallsDie ==
    /\ \E r \in Calls : call[r].pc # "idle"
    /\ call' = [r \in Calls |-> NoCall]
    /\ UNCHANGED <<links, raced>>

-----------------------------------------------------------------------------

CallArrival(r) ==
    \E s \in Slugs :
        \/ CreateCheckSlug(r, s)
        \/ ResolveLive(r, s)
        \/ \E g \in Groups : RenameRead(r, g, s)

CallStep(r) ==
    \/ CreateCheckAlias(r)
    \/ CreateInsert(r)
    \/ RenameCheckSlug(r)
    \/ RenameCheckAlias(r)
    \/ RenameTx(r)
    \/ ResolveAlias(r)
    \/ ResolveBump(r)

SlugsNext ==
    \/ \E r \in Calls : CallArrival(r) \/ CallStep(r)
    \/ \E s \in Slugs : AliasAges(s)
    \/ Reap
    \/ CallsDie

SlugsSpec == SlugsInit /\ [][SlugsNext]_slugsVars

-----------------------------------------------------------------------------
(* Properties *)

\* The groups a link with slug s may lead to, by either query.
Route(s) == {g \in Groups : live[g] = s \/ alias[s] = g}

\* Unless a claim of its slug met another claim of that slug, or another rename
\* of that group, a link that was ever given out leads to its group and to no
\* other until its alias is reaped, through any chain of renames (A to B to A
\* included), creations and crashes, and whatever other claims do meanwhile.
LinksResolve ==
    \A s \in Slugs \ raced : Route(s) = {home[s]} \ {NoGroup}

\* Calls that may still take s away from h: they have passed the alias check
\* for s, or have read s as the previous slug of another group.
Contenders(s, h) ==
    {r \in Calls : \/ call[r].pc = "insert" /\ call[r].slug = s
                   \/ call[r].pc = "swap" /\ call[r].slug = s /\ call[r].group # h
                   \/ call[r].pc \in Renaming /\ call[r].prev = s /\ call[r].group # h}

\* An alias reserves its slug, races or not: while nobody is past the checks,
\* only its own group takes it back and only the reaper frees it, once unused.
ReservationHolds ==
    [][\A s \in Slugs, h \in Groups :
          alias[s] = h /\ ~LiveElsewhere(s, h) /\ Contenders(s, h) = {}
            => /\ ~LiveElsewhere(s, h)' /\ Contenders(s, h)' = {}
               /\ \/ alias'[s] = h
                  \/ alias'[s] = NoGroup /\ (s \in old \/ live'[h] = s)]_slugsVars

\* What schema.ts says of aliases: no slug that an alias still points at is
\* another group's, so stale links never misroute.
NoMisroute == \A s \in Slugs : alias[s] # NoGroup => ~LiveElsewhere(s, alias[s])
=============================================================================
