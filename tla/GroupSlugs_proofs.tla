-------------------------- MODULE GroupSlugs_proofs --------------------------
(***************************************************************************)
(* What TLAPS proves of GroupSlugs, for any groups, slugs and slots.       *)
(***************************************************************************)
EXTENDS GroupSlugs, TLAPS

-----------------------------------------------------------------------------
(* Type correctness *)

\* What SlugsTypeOK says of one slot.
SlotOK(q) ==
    /\ q \in Call
    /\ q.pc # "idle" => q.slug \in Slugs
    /\ q.pc \in Renaming => q.group \in Groups /\ q.prev \in Slugs \ {q.slug}

SlotsOK == call \in [Calls -> Call] /\ \A r \in Calls : SlotOK(call[r])

RowsOK ==
    /\ live \in [Groups -> Slug]
    /\ alias \in [Slugs -> Group]
    /\ old \subseteq {s \in Slugs : alias[s] # NoGroup}
    /\ home \in [Slugs -> Group]

LEMMA TypeParts == SlugsTypeOK <=> RowsOK /\ SlotsOK /\ raced \subseteq Slugs
  BY DEF SlugsTypeOK, RowsOK, SlotsOK, SlotOK

LEMMA TypePartsNext == RowsOK' /\ SlotsOK' /\ raced' \subseteq Slugs => SlugsTypeOK'
  BY DEF SlugsTypeOK, RowsOK, SlotsOK, SlotOK

LEMMA SlotType ==
    ASSUME SlotsOK, NEW r \in Calls, NEW rec, SlotOK(rec), call' = [call EXCEPT ![r] = rec]
    PROVE  SlotsOK'
  BY DEF SlotsOK, SlotOK

LEMMA NoCallOK == SlotOK(NoCall) /\ NoCall.pc = "idle"
  BY DEF SlotOK, NoCall, Call, Group, Slug, Renaming

LEMMA RespondType ==
    ASSUME SlotsOK, NEW r \in Calls, Answer(r)
    PROVE  SlotsOK'
  BY NoCallOK, SlotType DEF Answer

\* The handlers' steps, each from one of its own handler.
Hop(from, to) ==
    \/ from = "createAlias" /\ to = "insert"
    \/ from = "renameSlug" /\ to = "renameAlias"
    \/ from = "renameAlias" /\ to = "swap"
    \/ from = "viaAlias" /\ to = "bump"

LEMMA GotoType ==
    ASSUME SlotsOK, NEW r \in Calls, NEW to, Proceed(r, to), Hop(call[r].pc, to)
    PROVE  /\ SlotsOK'
           /\ call'[r] = [call[r] EXCEPT !.pc = to]
           /\ \A q \in Calls \ {r} : call'[q] = call[q]
  <1> DEFINE rec == [call[r] EXCEPT !.pc = to]
  <1>1. call[r] \in Call /\ SlotOK(call[r])
    BY DEF SlotsOK
  <1>2. rec \in Call /\ rec.slug = call[r].slug /\ rec.group = call[r].group
        /\ rec.prev = call[r].prev /\ rec.pc = to
    BY <1>1 DEF Call, Hop, Claiming, Creating, Renaming, Resolving
  <1>3. SlotOK(rec)
    BY <1>1, <1>2 DEF SlotOK, Hop, Renaming
  <1>4. call' = [call EXCEPT ![r] = rec]
    BY DEF Proceed
  <1> HIDE DEF rec
  <1>5. SlotsOK'
    BY <1>3, <1>4, SlotType
  <1>6. QED
    BY <1>4, <1>5 DEF SlotsOK, rec

\* The history notes slugs only.
LEMMA ClaimType ==
    ASSUME SlotsOK, raced \subseteq Slugs, NEW r \in Calls, NEW rec, SlotOK(rec),
           ArriveClaim(r, rec)
    PROVE  raced' \subseteq Slugs
  <1>1. \A q \in Call : Names(q) \subseteq Slugs
    BY DEF Names, Call, Slug
  <1>2. rec \in Call /\ \A q \in Calls : call[q] \in Call
    BY DEF SlotsOK, SlotOK
  <1>3. QED
    BY <1>1, <1>2 DEF ArriveClaim

LEMMA ArrivalType ==
    ASSUME SlugsTypeOK, NEW r \in Calls, CallArrival(r)
    PROVE  SlugsTypeOK'
  <1>a. SlotsOK /\ RowsOK /\ raced \subseteq Slugs
    BY TypeParts
  <1>1. ASSUME NEW s \in Slugs, CreateCheckSlug(r, s)
        PROVE  SlotsOK' /\ raced' \subseteq Slugs
    <2> DEFINE rec == [NoCall EXCEPT !.pc = "createAlias", !.slug = s]
    <2>1. SlotOK(rec)
      BY DEF SlotOK, NoCall, Call, Claiming, Creating, Renaming, Group, Slug
    <2>2. call' = [call EXCEPT ![r] = rec]
      BY <1>1 DEF CreateCheckSlug, ArriveClaim, StartCall
    <2>3. ArriveClaim(r, rec)
      BY <1>1 DEF CreateCheckSlug
    <2> HIDE DEF rec
    <2>4. QED
      BY <1>a, <2>1, <2>2, <2>3, SlotType, ClaimType
  <1>2. ASSUME NEW s \in Slugs, ResolveLive(r, s)
        PROVE  SlotsOK' /\ raced' \subseteq Slugs
    <2> DEFINE rec == [NoCall EXCEPT !.pc = "viaAlias", !.slug = s]
    <2>1. SlotOK(rec)
      BY DEF SlotOK, NoCall, Call, Resolving, Renaming, Group, Slug
    <2>2. call' = [call EXCEPT ![r] = rec]
      BY <1>2 DEF ResolveLive, StartCall
    <2>3. raced' = raced
      BY <1>2 DEF ResolveLive
    <2>4. QED
      BY <1>a, <2>1, <2>2, <2>3, SlotType
  <1>3. ASSUME NEW s \in Slugs, NEW g \in Groups, RenameRead(r, g, s)
        PROVE  SlotsOK' /\ raced' \subseteq Slugs
    <2> DEFINE rec == [pc |-> "renameSlug", group |-> g, slug |-> s, prev |-> live[g]]
    <2>1. live[g] \in Slugs \ {s}
      BY <1>a, <1>3 DEF RowsOK, RenameRead, Slug
    <2>2. SlotOK(rec)
      BY <2>1 DEF SlotOK, Call, Claiming, Renaming, Group, Slug
    <2>3. call' = [call EXCEPT ![r] = rec]
      BY <1>3 DEF RenameRead, ArriveClaim, StartCall
    <2>4. ArriveClaim(r, rec)
      BY <1>3 DEF RenameRead
    <2> HIDE DEF rec
    <2>5. QED
      BY <1>a, <2>2, <2>3, <2>4, SlotType, ClaimType
  <1>4. UNCHANGED links
    BY DEF CallArrival, CreateCheckSlug, ResolveLive, RenameRead, ArriveClaim
  <1>5. RowsOK'
    BY <1>a, <1>4 DEF RowsOK, links
  <1>6. QED
    BY <1>1, <1>2, <1>3, <1>4, <1>5, TypePartsNext DEF CallArrival

LEMMA HandlerType ==
    ASSUME SlugsTypeOK, NEW r \in Calls, CallStep(r)
    PROVE  SlugsTypeOK'
  <1>a. SlotsOK /\ RowsOK /\ raced \subseteq Slugs /\ SlotOK(call[r])
    BY TypeParts DEF SlotsOK
  <1>1. SlotsOK'
    <2>1. CASE Answer(r)
      BY <1>a, <2>1, RespondType
    <2>2. CASE \E to : Proceed(r, to) /\ Hop(call[r].pc, to)
      BY <1>a, <2>2, GotoType
    <2>3. QED
      BY <2>1, <2>2 DEF CallStep, CreateCheckAlias, CreateInsert, RenameCheckSlug,
            RenameCheckAlias, RenameTx, ResolveAlias, ResolveBump, Hop
  <1>2. raced' = raced
    BY DEF CallStep, CreateCheckAlias, CreateInsert, RenameCheckSlug, RenameCheckAlias,
           RenameTx, ResolveAlias, ResolveBump
  <1>3. RowsOK'
    <2>1. CASE UNCHANGED links
      BY <1>a, <2>1 DEF RowsOK, links
    <2>2. CASE CreateInsert(r)
      BY <1>a, <2>2 DEF CreateInsert, RowsOK, SlotOK, Slug, Group
    <2>3. CASE RenameTx(r) /\ ~UNCHANGED links
      <3> DEFINE q == call[r]
                 kept == IF alias[q.slug] = q.group THEN NoGroup ELSE alias[q.slug]
      <3>1. q.group \in Groups /\ q.slug \in Slugs /\ q.prev \in Slugs
        BY <1>a, <2>3 DEF RenameTx, SlotOK, Renaming
      <3>2. /\ live' = [live EXCEPT ![q.group] = q.slug]
            /\ alias' = [alias EXCEPT ![q.slug] = kept, ![q.prev] = q.group]
            /\ old' = {s \in old \ {q.prev} : alias'[s] # NoGroup}
            /\ home' = [home EXCEPT ![q.slug] = q.group]
        BY <2>3 DEF RenameTx
      <3>3. kept \in Group
        BY <1>a, <3>1 DEF RowsOK, Group
      <3> HIDE DEF kept
      <3>4. QED
        BY <1>a, <3>1, <3>2, <3>3 DEF RowsOK, Slug, Group
    <2>4. CASE ResolveBump(r)
      BY <1>a, <2>4 DEF ResolveBump, RowsOK
    <2>5. QED
      BY <2>1, <2>2, <2>3, <2>4
      DEF CallStep, CreateCheckAlias, RenameCheckSlug, RenameCheckAlias, ResolveAlias
  <1>4. QED
    BY <1>a, <1>1, <1>2, <1>3, TypePartsNext

LEMMA TypeStep == SlugsTypeOK /\ [SlugsNext]_slugsVars => SlugsTypeOK'
  <1> SUFFICES ASSUME SlugsTypeOK, [SlugsNext]_slugsVars PROVE SlugsTypeOK'
    OBVIOUS
  <1>a. SlotsOK /\ RowsOK /\ raced \subseteq Slugs
    BY TypeParts
  <1>1. ASSUME NEW s \in Slugs, AliasAges(s) PROVE SlugsTypeOK'
    BY <1>1 DEF SlugsTypeOK, AliasAges
  <1>2. CASE Reap
    <2>1. RowsOK'
      BY <1>a, <1>2 DEF RowsOK, Reap, Group
    <2>2. QED
      BY <1>a, <1>2, <2>1, TypePartsNext DEF Reap, SlotsOK, SlotOK
  <1>3. CASE CallsDie
    <2>1. SlotsOK'
      BY <1>a, <1>3, NoCallOK DEF CallsDie, SlotsOK, SlotOK
    <2>2. RowsOK'
      BY <1>a, <1>3 DEF CallsDie, links, RowsOK
    <2>3. QED
      BY <1>a, <1>3, <2>1, <2>2, TypePartsNext DEF CallsDie
  <1>4. CASE UNCHANGED slugsVars
    BY <1>4 DEF SlugsTypeOK, slugsVars
  <1>5. QED
    BY <1>1, <1>2, <1>3, <1>4, HandlerType, ArrivalType DEF SlugsNext

\* Rows and slots stay well formed: a rename always has a group, a new slug and
\* a different previous one.
THEOREM TypeCorrect == SlugsSpec => []SlugsTypeOK
  <1>1. SlugsInit => SlugsTypeOK
    BY NoCallOK DEF SlugsInit, SlugsTypeOK, SlotOK, Slug, Group
  <1>2. QED
    BY <1>1, TypeStep, PTL DEF SlugsSpec

-----------------------------------------------------------------------------
(* Links resolve *)

\* Claims in flight that have met are noted.
Noted ==
    \A q, r \in Calls :
        q # r /\ call[q].pc \in Claiming /\ call[r].pc \in Claiming /\ Meet(call[q], call[r])
          => Names(call[q]) \cup Names(call[r]) \subseteq raced

Routed == \A s \in Slugs \ raced : Route(s) = {home[s]} \ {NoGroup}

\* No slug is both live and an alias.
NeverBoth == \A s \in Slugs \ raced, g \in Groups : alias[s] # NoGroup => live[g] # s

\* What the handler of slot r has read still holds, or its claim met another.
Fresh(r) ==
    LET q == call[r] IN
    /\ q.pc \in Renaming => live[q.group] = q.prev \/ Names(q) \cup {live[q.group]} \subseteq raced
    /\ q.pc = "insert" => alias[q.slug] = NoGroup \/ q.slug \in raced
    /\ q.pc = "swap" => alias[q.slug] \in {NoGroup, q.group} \/ q.slug \in raced

\* LinksResolve is not inductive: the writes rely on what the reads found.
LinksInv == Noted /\ Routed /\ NeverBoth /\ \A r \in Calls : Fresh(r)

\* A step that changes only the slot r, and there starts no claim.
LEMMA SlotStep ==
    ASSUME LinksInv, NEW r \in Calls, UNCHANGED <<live, alias, home, raced>>,
           \A q \in Calls \ {r} : call'[q] = call[q],
           call'[r].pc \in Claiming =>
             /\ call[r].pc \in Claiming
             /\ call'[r].slug = call[r].slug /\ call'[r].prev = call[r].prev
             /\ call'[r].group = call[r].group,
           Fresh(r)'
    PROVE  LinksInv'
  <1>1. Noted'
    <2> SUFFICES ASSUME NEW p \in Calls, NEW q \in Calls, p # q,
                        call'[p].pc \in Claiming, call'[q].pc \in Claiming, Meet(call'[p], call'[q])
                 PROVE  Names(call'[p]) \cup Names(call'[q]) \subseteq raced'
      BY DEF Noted
    <2>1. \A x \in {p, q} : /\ call[x].pc \in Claiming
                            /\ call'[x].slug = call[x].slug /\ call'[x].prev = call[x].prev
                            /\ call'[x].group = call[x].group
      OBVIOUS
    <2>2. Names(call'[p]) = Names(call[p]) /\ Names(call'[q]) = Names(call[q])
      BY <2>1 DEF Names
    <2>3. Meet(call[p], call[q])
      BY <2>1, <2>2 DEF Meet
    <2>4. QED
      BY <2>1, <2>2, <2>3 DEF LinksInv, Noted
  <1>2. Routed' /\ NeverBoth'
    BY DEF LinksInv, Routed, NeverBoth, Route
  <1>3. ASSUME NEW q \in Calls \ {r} PROVE Fresh(q)'
    <2>1. Fresh(q) /\ call'[q] = call[q] /\ Names(call'[q]) = Names(call[q])
      BY DEF LinksInv
    <2>2. QED
      BY <2>1 DEF Fresh
  <1>4. QED
    BY <1>1, <1>2, <1>3 DEF LinksInv

LEMMA RespondSlot ==
    ASSUME SlugsTypeOK, NEW r \in Calls, Answer(r)
    PROVE  /\ call'[r].pc = "idle" /\ \A q \in Calls \ {r} : call'[q] = call[q]
           /\ call'[r].pc \notin Claiming /\ Fresh(r)'
  <1>1. call'[r].pc = "idle" /\ \A q \in Calls \ {r} : call'[q] = call[q]
    BY NoCallOK DEF SlugsTypeOK, Answer
  <1>2. QED
    BY <1>1 DEF Fresh, Claiming, Creating, Renaming

\* Noting more slugs spoils nothing.
LEMMA NotedMore ==
    ASSUME LinksInv, UNCHANGED <<live, alias, home>>, raced \subseteq raced',
           NEW q \in Calls, call'[q] = call[q]
    PROVE  Routed' /\ NeverBoth' /\ Fresh(q)'
  <1>1. Routed' /\ NeverBoth'
    BY DEF LinksInv, Routed, NeverBoth, Route
  <1>2. Fresh(q) /\ Names(call'[q]) = Names(call[q])
    BY DEF LinksInv
  <1>3. QED
    BY <1>1, <1>2 DEF Fresh

\* An arriving claim is noted with every claim it meets.
LEMMA ClaimStep ==
    ASSUME SlugsTypeOK, LinksInv, NEW r \in Calls, NEW rec, ArriveClaim(r, rec),
           UNCHANGED links, Fresh(r)'
    PROVE  LinksInv'
  <1>1. /\ call'[r] = rec /\ \A q \in Calls \ {r} : call'[q] = call[q]
        /\ call[r].pc = "idle"
    BY DEF ArriveClaim, StartCall, SlugsTypeOK
  <1>2. /\ raced \subseteq raced'
        /\ \A q \in Calls : call[q].pc \in Claiming /\ Meet(call[q], rec)
             => Names(call[q]) \cup Names(rec) \subseteq raced'
    BY DEF ArriveClaim
  <1>3. ASSUME NEW p, NEW q, Meet(p, q) PROVE Meet(q, p)
    BY <1>3 DEF Meet
  <1>4. Noted'
    <2> SUFFICES ASSUME NEW p \in Calls, NEW q \in Calls, p # q,
                        call'[p].pc \in Claiming, call'[q].pc \in Claiming, Meet(call'[p], call'[q])
                 PROVE  Names(call'[p]) \cup Names(call'[q]) \subseteq raced'
      BY DEF Noted
    <2>1. CASE p = r
      <3>1. call'[q] = call[q] /\ call'[p] = rec
        BY <1>1, <2>1
      <3>2. Meet(call[q], rec)
        BY <3>1, <1>3
      <3>3. QED
        BY <1>2, <3>1, <3>2
    <2>2. CASE q = r
      BY <1>1, <1>2, <2>2
    <2>3. CASE p # r /\ q # r
      <3>1. call'[p] = call[p] /\ call'[q] = call[q]
        BY <1>1, <2>3
      <3>2. Names(call[p]) \cup Names(call[q]) \subseteq raced
        BY <3>1 DEF LinksInv, Noted
      <3>3. QED
        BY <1>2, <3>1, <3>2
    <2>4. QED
      BY <2>1, <2>2, <2>3
  <1>5. UNCHANGED <<live, alias, home>>
    BY DEF links
  <1>6. \A q \in Calls \ {r} : Routed' /\ NeverBoth' /\ Fresh(q)'
    BY <1>1, <1>2, <1>5, NotedMore
  <1>7. Routed' /\ NeverBoth'
    BY <1>2, <1>5 DEF LinksInv, Routed, NeverBoth, Route
  <1>8. QED
    BY <1>4, <1>6, <1>7 DEF LinksInv

LEMMA ArrivalLinks ==
    ASSUME SlugsTypeOK, LinksInv, NEW r \in Calls, CallArrival(r)
    PROVE  LinksInv'
  <1>1. ASSUME NEW s \in Slugs, CreateCheckSlug(r, s) PROVE LinksInv'
    <2> DEFINE rec == [NoCall EXCEPT !.pc = "createAlias", !.slug = s]
    <2>1. rec.pc = "createAlias"
      BY DEF NoCall
    <2>2. ArriveClaim(r, rec) /\ UNCHANGED links
      BY <1>1 DEF CreateCheckSlug
    <2>3. call'[r] = rec
      BY <2>2 DEF ArriveClaim, StartCall, SlugsTypeOK
    <2> HIDE DEF rec
    <2>4. Fresh(r)'
      BY <2>1, <2>3 DEF Fresh, Renaming
    <2>5. QED
      BY <2>2, <2>4, ClaimStep
  <1>2. ASSUME NEW s \in Slugs, ResolveLive(r, s) PROVE LinksInv'
    <2>1. call'[r].pc = "viaAlias" /\ \A q \in Calls \ {r} : call'[q] = call[q]
      BY <1>2 DEF ResolveLive, StartCall, NoCall, SlugsTypeOK
    <2>2. UNCHANGED <<live, alias, home, raced>>
      BY <1>2 DEF ResolveLive, links
    <2>3. Fresh(r)' /\ call'[r].pc \notin Claiming
      BY <2>1 DEF Fresh, Claiming, Creating, Renaming
    <2>4. QED
      BY <2>1, <2>2, <2>3, SlotStep
  <1>3. ASSUME NEW s \in Slugs, NEW g \in Groups, RenameRead(r, g, s) PROVE LinksInv'
    <2> DEFINE rec == [pc |-> "renameSlug", group |-> g, slug |-> s, prev |-> live[g]]
    <2>1. ArriveClaim(r, rec) /\ UNCHANGED links
      BY <1>3 DEF RenameRead
    <2>2. call'[r] = rec
      BY <2>1 DEF ArriveClaim, StartCall, SlugsTypeOK
    <2>3. call'[r].pc = "renameSlug" /\ live'[call'[r].group] = call'[r].prev
      BY <2>1, <2>2 DEF links
    <2>4. Fresh(r)'
      BY <2>3 DEF Fresh
    <2> HIDE DEF rec
    <2>5. QED
      BY <2>1, <2>4, ClaimStep
  <1>4. QED
    BY <1>1, <1>2, <1>3 DEF CallArrival

\* A write that ends the handler of slot r leaves only met claims unfresh.
LEMMA WriteStep ==
    ASSUME SlugsTypeOK, LinksInv, NEW r \in Calls, Answer(r), call[r].pc \in Claiming,
           raced' = raced, Routed', NeverBoth',
           \A q \in Calls \ {r} : call[q].pc \in Claiming => Fresh(q)'
    PROVE  LinksInv'
  <1>1. /\ call'[r].pc \notin Claiming /\ Fresh(r)'
        /\ \A q \in Calls \ {r} : call'[q] = call[q]
    BY RespondSlot
  <1>2. Noted'
    <2> SUFFICES ASSUME NEW p \in Calls, NEW q \in Calls, p # q,
                        call'[p].pc \in Claiming, call'[q].pc \in Claiming, Meet(call'[p], call'[q])
                 PROVE  Names(call'[p]) \cup Names(call'[q]) \subseteq raced'
      BY DEF Noted
    <2>1. call'[p] = call[p] /\ call'[q] = call[q]
      BY <1>1
    <2>2. QED
      BY <2>1 DEF LinksInv, Noted
  <1>3. ASSUME NEW q \in Calls, q # r, call[q].pc \notin Claiming PROVE Fresh(q)'
    BY <1>1, <1>3 DEF Fresh, Claiming, Creating, Renaming
  <1>4. QED
    BY <1>1, <1>2, <1>3 DEF LinksInv

\* Another claim of slug s, or another rename of group g, is noted.
LEMMA OthersNoted ==
    ASSUME LinksInv, NEW r \in Calls, NEW q \in Calls, q # r,
           call[r].pc \in Claiming, call[q].pc \in Claiming
    PROVE  /\ Names(call[r]) \cap Names(call[q]) # {} => Names(call[r]) \cup Names(call[q]) \subseteq raced
           /\ call[r].group = call[q].group /\ call[q].group # NoGroup
                => Names(call[r]) \cup Names(call[q]) \subseteq raced
  BY DEF LinksInv, Noted, Meet

LEMMA CreateInsertLinks ==
    ASSUME SlugsTypeOK, LinksInv, NEW r \in Calls, CreateInsert(r),
           NEW s \in Slugs, s = call[r].slug
    PROVE  LinksInv'
  <1>a. /\ call[r].pc = "insert" /\ (alias[s] = NoGroup \/ s \in raced)
        /\ Routed /\ NeverBoth /\ \A q \in Calls : Fresh(q)
        /\ Answer(r) /\ alias' = alias /\ raced' = raced
    BY DEF CreateInsert, LinksInv, Fresh
  <1>b. /\ call'[r].pc \notin Claiming /\ Fresh(r)' /\ call[r].pc \in Claiming
        /\ \A q \in Calls \ {r} : call'[q] = call[q]
    BY <1>a, RespondSlot DEF Claiming, Creating
  <1>1. CASE UNCHANGED <<live, home>>
    <2>1. Routed' /\ NeverBoth'
      BY <1>a, <1>1 DEF Routed, NeverBoth, Route
    <2>2. ASSUME NEW q \in Calls \ {r} PROVE Fresh(q)'
      BY <1>a, <1>b, <1>1 DEF Fresh
    <2>3. QED
      BY <1>a, <1>b, <2>1, <2>2, WriteStep
  <1>2. CASE ~UNCHANGED <<live, home>>
    <2>1. PICK g \in Groups : /\ live[g] = NoSlug
                              /\ live' = [live EXCEPT ![g] = s]
                              /\ home' = [home EXCEPT ![s] = g]
      BY <1>2 DEF CreateInsert
    <2>2. \A h \in Groups : live[h] # s
      BY <1>2, NoneAssumption DEF CreateInsert, LiveElsewhere
    <2>3. s \notin raced => Route(s)' = {g}
      BY <1>a, <2>1, <2>2, NoneAssumption DEF Route, SlugsTypeOK
    <2>4. \A t \in Slugs \ {s} : Route(t)' = Route(t) /\ home'[t] = home[t]
      BY <1>a, <2>1, NoneAssumption DEF Route, SlugsTypeOK
    <2>5. home'[s] = g
      BY <2>1 DEF SlugsTypeOK
    <2>6. Routed'
      BY <1>a, <2>3, <2>4, <2>5, NoneAssumption DEF Routed
    <2>7. NeverBoth'
      BY <1>a, <2>1, NoneAssumption DEF NeverBoth, SlugsTypeOK
    <2>8. ASSUME NEW q \in Calls, q # r, call[q].pc \in Claiming PROVE Fresh(q)'
      <3>1. Fresh(q) /\ call'[q] = call[q]
        BY <1>a, <1>b, <2>8
      <3>2. CASE call[q].pc \in Renaming
        <4>1. call[q].group \in Groups /\ call[q].prev \in Slugs
          BY <3>2 DEF SlugsTypeOK
        <4>2. call[q].group # g
          BY <2>1, <3>1, <3>2, <4>1, NoneAssumption DEF Fresh, SlugsTypeOK
        <4>3. live'[call[q].group] = live[call[q].group]
          BY <2>1, <4>1, <4>2 DEF SlugsTypeOK
        <4>4. QED
          BY <1>a, <3>1, <4>3 DEF Fresh
      <3>3. CASE call[q].pc \notin Renaming
        BY <1>a, <3>1, <3>3 DEF Fresh, Renaming
      <3>4. QED
        BY <3>2, <3>3
    <2>9. QED
      BY <1>a, <1>b, <2>6, <2>7, <2>8, WriteStep
  <1>3. QED
    BY <1>1, <1>2

LEMMA RenameTxLinks ==
    ASSUME SlugsTypeOK, LinksInv, NEW r \in Calls, RenameTx(r),
           NEW g \in Groups, g = call[r].group,
           NEW s \in Slugs, s = call[r].slug, NEW p \in Slugs, p = call[r].prev
    PROVE  LinksInv'
  <1>n. Names(call[r]) = {s, p} /\ NoGroup \notin Groups
    BY NoneAssumption DEF Names
  <1>a. /\ call[r].pc = "swap" /\ p # s
        /\ live[g] = p \/ {s, p, live[g]} \subseteq raced
        /\ alias[s] \in {NoGroup, g} \/ s \in raced
        /\ Routed /\ NeverBoth /\ \A q \in Calls : Fresh(q)
        /\ Answer(r) /\ raced' = raced
    BY <1>n DEF RenameTx, SlugsTypeOK, LinksInv, Fresh, Renaming
  <1>b. /\ call'[r].pc \notin Claiming /\ Fresh(r)' /\ call[r].pc \in Claiming
        /\ \A q \in Calls \ {r} : call'[q] = call[q]
    BY <1>a, RespondSlot DEF Claiming, Renaming
  <1>1. CASE UNCHANGED links
    <2>1. Routed' /\ NeverBoth'
      BY <1>a, <1>1 DEF Routed, NeverBoth, Route, links
    <2>2. ASSUME NEW q \in Calls \ {r} PROVE Fresh(q)'
      BY <1>a, <1>b, <1>1 DEF Fresh, links
    <2>3. QED
      BY <1>a, <1>b, <2>1, <2>2, WriteStep
  <1>2. CASE ~UNCHANGED links
    <2>1. /\ live' = [live EXCEPT ![g] = s]
          /\ home' = [home EXCEPT ![s] = g]
          /\ alias[s] \in {NoGroup, g} => alias'[s] = NoGroup
          /\ alias'[s] \in {NoGroup, alias[s]}
          /\ alias'[p] = g
          /\ \A t \in Slugs \ {s, p} : alias'[t] = alias[t]
      BY <1>a, <1>2 DEF RenameTx, SlugsTypeOK
    <2>2. \A h \in Groups \ {g} : live[h] # s
      BY <1>2 DEF RenameTx, LiveElsewhere
    <2>3. p \notin raced => Route(p) = {g} /\ home[p] = g /\ \A h \in Groups \ {g} : live[h] # p
      <3>1. ASSUME p \notin raced PROVE g \in Route(p) /\ Route(p) = {home[p]} \ {NoGroup}
        BY <1>a, <3>1 DEF Route, Routed
      <3>2. ASSUME p \notin raced PROVE Route(p) = {g} /\ home[p] = g
        BY <3>1, <3>2
      <3>3. QED
        BY <3>2 DEF Route
    <2>4. s \notin raced => Route(s)' = {g}
      BY <1>a, <1>n, <2>1, <2>2 DEF Route, SlugsTypeOK
    <2>5. p \notin raced => Route(p)' = {g}
      BY <1>a, <2>1, <2>3 DEF Route, SlugsTypeOK
    <2>6. \A t \in Slugs \ ({s, p} \cup raced) : Route(t)' = Route(t) /\ home'[t] = home[t]
      BY <1>a, <2>1 DEF Route, SlugsTypeOK
    <2>7. home'[s] = g /\ home'[p] = home[p]
      BY <1>a, <2>1 DEF SlugsTypeOK
    <2>8. Routed'
      BY <1>a, <1>n, <2>3, <2>4, <2>5, <2>6, <2>7 DEF Routed
    <2>9. NeverBoth'
      <3> SUFFICES ASSUME NEW t \in Slugs \ raced, NEW h \in Groups, alias'[t] # NoGroup
                   PROVE  live'[h] # t
        BY <1>a DEF NeverBoth
      <3>1. t # s
        BY <1>a, <2>1
      <3>2. CASE t = p
        BY <1>a, <2>1, <2>3, <3>2 DEF SlugsTypeOK
      <3>3. CASE t # p
        BY <1>a, <2>1, <3>1, <3>3 DEF SlugsTypeOK, NeverBoth
      <3>4. QED
        BY <3>2, <3>3
    <2>10. ASSUME NEW q \in Calls, q # r, call[q].pc \in Claiming PROVE Fresh(q)'
      <3>1. /\ Fresh(q) /\ call'[q] = call[q]
            /\ call[q].slug \in Slugs
            /\ call[q].pc \in Renaming => call[q].group \in Groups /\ call[q].prev \in Slugs
        BY <1>a, <1>b, <2>10 DEF SlugsTypeOK, Claiming, Creating, Renaming
      <3>2. call[q].slug \in Names(call[q])
        BY <3>1, NoneAssumption DEF Names
      <3>3. call[q].pc \in Renaming =>
              live'[call[q].group] = call[q].prev \/ Names(call[q]) \cup {live'[call[q].group]} \subseteq raced
        <4> SUFFICES ASSUME call[q].pc \in Renaming
                     PROVE  live'[call[q].group] = call[q].prev
                              \/ Names(call[q]) \cup {live'[call[q].group]} \subseteq raced
          OBVIOUS
        <4>1. CASE call[q].group = g
          <5>1. {s, p} \cup Names(call[q]) \subseteq raced
            BY <1>b, <1>n, <2>10, <4>1, OthersNoted
          <5>2. live'[call[q].group] = s
            BY <2>1, <4>1 DEF SlugsTypeOK
          <5>3. QED
            BY <5>1, <5>2
        <4>2. CASE call[q].group # g
          <5>1. live'[call[q].group] = live[call[q].group]
            BY <2>1, <3>1, <4>2 DEF SlugsTypeOK
          <5>2. QED
            BY <3>1, <5>1 DEF Fresh
        <4>3. QED
          BY <4>1, <4>2
      <3>4. alias'[call[q].slug] \in {alias[call[q].slug], NoGroup} \/ call[q].slug \in raced
        <4>1. CASE call[q].slug = p
          BY <1>b, <1>n, <2>10, <3>2, <4>1, OthersNoted
        <4>2. CASE call[q].slug # p
          BY <2>1, <3>1, <4>2
        <4>3. QED
          BY <4>1, <4>2
      <3>5. Names(call'[q]) = Names(call[q])
        BY <3>1
      <3>6. QED
        BY <1>a, <3>1, <3>3, <3>4, <3>5 DEF Fresh
    <2>11. QED
      BY <1>a, <1>b, <2>8, <2>9, <2>10, WriteStep
  <1>3. QED
    BY <1>1, <1>2

LEMMA HandlerLinks ==
    ASSUME SlugsTypeOK, LinksInv, NEW r \in Calls, CallStep(r)
    PROVE  LinksInv'
  <1>a. SlotsOK
    BY TypeParts
  <1>b. raced' = raced
    BY DEF CallStep, CreateCheckAlias, CreateInsert, RenameCheckSlug, RenameCheckAlias,
           RenameTx, ResolveAlias, ResolveBump
  <1>1. CASE CreateInsert(r)
    <2>1. call[r].slug \in Slugs
      BY <1>1 DEF CreateInsert, SlugsTypeOK
    <2>2. QED
      BY <1>1, <2>1, CreateInsertLinks
  <1>2. CASE RenameTx(r)
    <2>1. call[r].slug \in Slugs /\ call[r].group \in Groups /\ call[r].prev \in Slugs
      BY <1>2 DEF RenameTx, SlugsTypeOK, Renaming
    <2>2. QED
      BY <1>2, <2>1, RenameTxLinks
  <1>3. CASE Answer(r) /\ UNCHANGED <<live, alias, home>>
    BY <1>3, <1>b, RespondSlot, SlotStep
  <1>4. CASE /\ CreateCheckAlias(r) \/ RenameCheckSlug(r) \/ RenameCheckAlias(r) \/ ResolveAlias(r)
             /\ ~Answer(r)
    <2>1. UNCHANGED <<live, alias, home, raced>>
      BY <1>4 DEF CreateCheckAlias, RenameCheckSlug, RenameCheckAlias, ResolveAlias, links
    <2>2. PICK to : Proceed(r, to) /\ Hop(call[r].pc, to)
      BY <1>4 DEF CreateCheckAlias, RenameCheckSlug, RenameCheckAlias, ResolveAlias, Hop
    <2>3. /\ call'[r] = [call[r] EXCEPT !.pc = to]
          /\ \A q \in Calls \ {r} : call'[q] = call[q]
      BY <1>a, <2>2, GotoType
    <2>4. /\ call'[r].pc = to /\ call'[r].group = call[r].group
          /\ call'[r].slug = call[r].slug /\ call'[r].prev = call[r].prev
      BY <2>3 DEF SlugsTypeOK, Call
    <2>5. call'[r].pc \in Claiming => call[r].pc \in Claiming
      BY <2>2, <2>4 DEF Hop, Claiming, Creating, Renaming
    <2>6. Names(call'[r]) = Names(call[r])
      BY <2>4 DEF Names
    <2>7. Fresh(r)'
      <3>1. to \in Renaming => \/ live'[call'[r].group] = call'[r].prev
                               \/ Names(call'[r]) \cup {live'[call'[r].group]} \subseteq raced'
        BY <2>1, <2>2, <2>4, <2>6 DEF LinksInv, Fresh, Hop, Renaming
      <3>2. to = "insert" => alias'[call'[r].slug] = NoGroup
        BY <1>4, <2>1, <2>2, <2>4 DEF Hop, CreateCheckAlias, RenameCheckSlug, RenameCheckAlias,
              ResolveAlias, AliasedElsewhere
      <3>3. to = "swap" => alias'[call'[r].slug] \in {NoGroup, call'[r].group}
        BY <1>4, <2>1, <2>2, <2>4 DEF Hop, CreateCheckAlias, RenameCheckSlug, RenameCheckAlias,
              ResolveAlias, AliasedElsewhere
      <3>4. QED
        BY <2>4, <3>1, <3>2, <3>3 DEF Fresh
    <2>8. QED
      BY <2>1, <2>3, <2>4, <2>5, <2>7, SlotStep
  <1>5. QED
    BY <1>1, <1>2, <1>3, <1>4 DEF CallStep, CreateCheckAlias, RenameCheckSlug, RenameCheckAlias,
       ResolveAlias, ResolveBump, links

LEMMA ReapLinks ==
    ASSUME SlugsTypeOK, LinksInv, Reap
    PROVE  LinksInv'
  <1>a. /\ UNCHANGED <<live, call, raced>>
        /\ Noted /\ Routed /\ NeverBoth /\ \A q \in Calls : Fresh(q)
    BY DEF Reap, LinksInv
  <1>b. /\ \A s \in old : alias[s] # NoGroup /\ alias'[s] = NoGroup /\ home'[s] = NoGroup
        /\ \A s \in Slugs \ old : alias'[s] = alias[s] /\ home'[s] = home[s]
        /\ \A s \in Slugs : alias'[s] \in {alias[s], NoGroup}
    BY DEF Reap, SlugsTypeOK
  <1>1. Noted'
    BY <1>a DEF Noted
  <1>2. NeverBoth'
    BY <1>a, <1>b DEF NeverBoth
  <1>3. Routed'
    <2>1. ASSUME NEW s \in old \ raced PROVE Route(s)' = {} /\ home'[s] = NoGroup
      BY <1>a, <1>b, NoneAssumption DEF Route, NeverBoth, SlugsTypeOK
    <2>2. ASSUME NEW s \in Slugs \ old PROVE Route(s)' = Route(s) /\ home'[s] = home[s]
      BY <1>a, <1>b DEF Route
    <2>3. QED
      BY <1>a, <2>1, <2>2 DEF Routed
  <1>4. ASSUME NEW q \in Calls PROVE Fresh(q)'
    <2>1. call[q].pc # "idle" => alias'[call[q].slug] \in {alias[call[q].slug], NoGroup}
      BY <1>b DEF SlugsTypeOK
    <2>2. Fresh(q) /\ Names(call'[q]) = Names(call[q])
      BY <1>a
    <2>3. QED
      BY <1>a, <2>1, <2>2 DEF Fresh, Renaming
  <1>5. QED
    BY <1>1, <1>2, <1>3, <1>4 DEF LinksInv

\* Through any chain of creations, renames, hits, reapings and crashes a link
\* leads to the group it was given out for and to no other until its alias is
\* reaped, unless a claim of its slug met another claim of that slug or another
\* rename of the same group.
THEOREM LinksKeepResolving == SlugsSpec => []LinksResolve
  <1>1. SlugsInit => LinksInv
    BY NoneAssumption, NoCallOK
    DEF SlugsInit, LinksInv, Noted, Routed, NeverBoth, Fresh, Route, Claiming, Creating, Renaming
  <1>2. SlugsTypeOK /\ LinksInv /\ [SlugsNext]_slugsVars => LinksInv'
    <2> SUFFICES ASSUME SlugsTypeOK, LinksInv, [SlugsNext]_slugsVars PROVE LinksInv'
      OBVIOUS
    <2>1. CASE UNCHANGED <<live, alias, home, call, raced>>
      BY <2>1 DEF LinksInv, Noted, Routed, NeverBoth, Fresh, Route
    <2>2. CASE CallsDie
      <3>1. \A r \in Calls : call'[r].pc = "idle"
        BY <2>2, NoCallOK DEF CallsDie
      <3>2. UNCHANGED <<live, alias, home, raced>>
        BY <2>2 DEF CallsDie, links
      <3>3. Noted' /\ \A r \in Calls : Fresh(r)'
        BY <3>1 DEF Noted, Fresh, Claiming, Creating, Renaming
      <3>4. Routed' /\ NeverBoth'
        BY <3>2 DEF LinksInv, Routed, NeverBoth, Route
      <3>5. QED
        BY <3>3, <3>4 DEF LinksInv
    <2>3. QED
      BY <2>1, <2>2, ArrivalLinks, HandlerLinks, ReapLinks DEF SlugsNext, AliasAges, slugsVars
  <1>3. LinksInv => LinksResolve
    BY DEF LinksInv, LinksResolve, Routed
  <1>4. QED
    BY <1>1, <1>2, <1>3, TypeCorrect, PTL DEF SlugsSpec

-----------------------------------------------------------------------------
(* Reservations *)

\* The handler of slot r may still take s away from h.
Contends(r, s, h) ==
    \/ call[r].pc = "insert" /\ call[r].slug = s
    \/ call[r].pc = "swap" /\ call[r].slug = s /\ call[r].group # h
    \/ call[r].pc \in Renaming /\ call[r].prev = s /\ call[r].group # h

\* The reservation of s by h, in both its states.
Reserved(s, h) == ~LiveElsewhere(s, h) /\ Contenders(s, h) = {}

LEMMA ContendersEmpty ==
    ASSUME NEW s, NEW h
    PROVE  Contenders(s, h) = {} <=> \A r \in Calls : ~Contends(r, s, h)
  BY DEF Contenders, Contends

\* A step that writes the slot r only, which does not become a contender.
LEMMA ReservedStep ==
    ASSUME NEW s, NEW h, Reserved(s, h), NEW r \in Calls,
           \A q \in Calls \ {r} : call'[q] = call[q],
           ~Contends(r, s, h)', ~LiveElsewhere(s, h)'
    PROVE  Reserved(s, h)'
  BY DEF Reserved, Contenders, Contends

LEMMA RespondReserved ==
    ASSUME SlugsTypeOK, NEW s, NEW h, Reserved(s, h), NEW r \in Calls, Answer(r),
           ~LiveElsewhere(s, h)'
    PROVE  Reserved(s, h)'
  <1>1. ~Contends(r, s, h)'
    BY RespondSlot DEF Contends, Renaming
  <1>2. QED
    BY <1>1, RespondSlot, ReservedStep

LEMMA ArrivalReserved ==
    ASSUME SlugsTypeOK, NEW s \in Slugs, NEW h \in Groups, Reserved(s, h),
           NEW r \in Calls, CallArrival(r)
    PROVE  Reserved(s, h)' /\ alias' = alias
  <1>1. UNCHANGED links
    BY DEF CallArrival, CreateCheckSlug, ResolveLive, RenameRead
  <1>2. \A q \in Calls \ {r} : call'[q] = call[q]
    BY DEF CallArrival, CreateCheckSlug, ResolveLive, RenameRead, ArriveClaim, StartCall, SlugsTypeOK
  <1>3. ~Contends(r, s, h)'
    <2>1. ASSUME NEW t \in Slugs, CreateCheckSlug(r, t) \/ ResolveLive(r, t)
          PROVE  call'[r].pc \in {"createAlias", "viaAlias"}
      BY <2>1 DEF CreateCheckSlug, ResolveLive, ArriveClaim, StartCall, NoCall, SlugsTypeOK
    <2>2. ASSUME NEW t \in Slugs, NEW g \in Groups, RenameRead(r, g, t)
          PROVE  call'[r].pc = "renameSlug" /\ ~(call'[r].prev = s /\ call'[r].group # h)
      BY <2>2 DEF RenameRead, ArriveClaim, StartCall, SlugsTypeOK, Reserved, LiveElsewhere
    <2>3. QED
      BY <2>1, <2>2 DEF CallArrival, Contends, Renaming
  <1>4. ~LiveElsewhere(s, h)'
    BY <1>1 DEF Reserved, LiveElsewhere, links
  <1>5. QED
    BY <1>1, <1>2, <1>3, <1>4, ReservedStep DEF links

LEMMA HandlerReserved ==
    ASSUME SlugsTypeOK, NEW s \in Slugs, NEW h \in Groups, Reserved(s, h), alias[s] = h,
           NEW r \in Calls, CallStep(r)
    PROVE  Reserved(s, h)' /\ (alias'[s] = h \/ (alias'[s] = NoGroup /\ live'[h] = s))
  <1>a. SlotsOK /\ ~Contends(r, s, h) /\ h # NoGroup
    BY TypeParts, ContendersEmpty, NoneAssumption DEF Reserved
  <1>1. CASE Answer(r) /\ UNCHANGED <<live, alias>>
    <2>1. ~LiveElsewhere(s, h)'
      BY <1>1 DEF Reserved, LiveElsewhere
    <2>2. QED
      BY <1>1, <2>1, RespondReserved
  <1>2. CASE CreateInsert(r)
    <2>1. call[r].slug # s /\ alias' = alias /\ Answer(r)
      BY <1>2, <1>a DEF CreateInsert, Contends
    <2>2. ~LiveElsewhere(s, h)'
      BY <1>2, <2>1 DEF CreateInsert, LiveElsewhere, Reserved, SlugsTypeOK
    <2>3. QED
      BY <2>1, <2>2, RespondReserved
  <1>3. CASE RenameTx(r) /\ ~UNCHANGED links
    <2> DEFINE q == call[r]
               kept == IF alias[q.slug] = q.group THEN NoGroup ELSE alias[q.slug]
    <2>1. /\ q.group \in Groups /\ q.slug \in Slugs /\ q.prev \in Slugs /\ q.prev # q.slug
          /\ q.slug = s \/ q.prev = s => q.group = h
      BY <1>3, <1>a DEF RenameTx, SlugsTypeOK, Renaming, Contends
    <2>2. /\ live' = [live EXCEPT ![q.group] = q.slug]
          /\ alias' = [alias EXCEPT ![q.slug] = kept, ![q.prev] = q.group]
          /\ Answer(r)
      BY <1>3 DEF RenameTx
    <2>3. ~LiveElsewhere(s, h)'
      BY <2>1, <2>2 DEF LiveElsewhere, Reserved, SlugsTypeOK
    <2>4. alias'[s] = h \/ (alias'[s] = NoGroup /\ live'[h] = s)
      <3>1. CASE q.slug = s
        BY <2>1, <2>2, <3>1 DEF SlugsTypeOK
      <3>2. CASE q.slug # s
        BY <2>1, <2>2, <3>2 DEF SlugsTypeOK
      <3>3. QED
        BY <3>1, <3>2
    <2>5. QED
      BY <2>2, <2>3, <2>4, RespondReserved
  <1>4. CASE /\ CreateCheckAlias(r) \/ RenameCheckSlug(r) \/ RenameCheckAlias(r) \/ ResolveAlias(r)
             /\ ~Answer(r)
    <2>1. UNCHANGED links
      BY <1>4 DEF CreateCheckAlias, RenameCheckSlug, RenameCheckAlias, ResolveAlias
    <2>2. PICK to : Proceed(r, to) /\ Hop(call[r].pc, to)
      BY <1>4 DEF CreateCheckAlias, RenameCheckSlug, RenameCheckAlias, ResolveAlias, Hop
    <2>3. /\ call'[r] = [call[r] EXCEPT !.pc = to]
          /\ \A q \in Calls \ {r} : call'[q] = call[q]
      BY <1>a, <2>2, GotoType
    <2>4. /\ call'[r].pc = to /\ call'[r].group = call[r].group
          /\ call'[r].slug = call[r].slug /\ call'[r].prev = call[r].prev
      BY <2>3 DEF SlugsTypeOK, Call
    <2>5. to = "insert" => call[r].slug # s
      BY <1>a, <1>4, <2>2 DEF Hop, CreateCheckAlias, RenameCheckSlug, RenameCheckAlias,
              ResolveAlias, AliasedElsewhere
    <2>6. to = "swap" => call[r].slug # s \/ call[r].group = h
      BY <1>a, <1>4, <2>2 DEF Hop, CreateCheckAlias, RenameCheckSlug, RenameCheckAlias,
              ResolveAlias, AliasedElsewhere
    <2>7. ~Contends(r, s, h)'
      BY <1>a, <2>2, <2>4, <2>5, <2>6 DEF Contends, Hop, Renaming
    <2>8. ~LiveElsewhere(s, h)'
      BY <2>1 DEF Reserved, LiveElsewhere, links
    <2>9. QED
      BY <2>1, <2>3, <2>7, <2>8, ReservedStep DEF links
  <1>5. QED
    BY <1>1, <1>2, <1>3, <1>4 DEF CallStep, CreateCheckAlias, RenameCheckSlug,
       RenameCheckAlias, RenameTx, ResolveAlias, ResolveBump, links

\* Races or not, an alias keeps its slug for its group: no creation and no other
\* rename that starts its checks now gets it, and only the reaper frees it.
THEOREM Reservations == SlugsSpec => ReservationHolds
  <1>1. SlugsTypeOK /\ [SlugsNext]_slugsVars =>
          \A s \in Slugs, h \in Groups :
            alias[s] = h /\ ~LiveElsewhere(s, h) /\ Contenders(s, h) = {}
              => /\ ~LiveElsewhere(s, h)' /\ Contenders(s, h)' = {}
                 /\ \/ alias'[s] = h
                    \/ alias'[s] = NoGroup /\ (s \in old \/ live'[h] = s)
    <2> SUFFICES ASSUME SlugsTypeOK, [SlugsNext]_slugsVars, NEW s \in Slugs, NEW h \in Groups,
                        alias[s] = h, Reserved(s, h)
                 PROVE  /\ Reserved(s, h)'
                        /\ \/ alias'[s] = h
                           \/ alias'[s] = NoGroup /\ (s \in old \/ live'[h] = s)
      BY DEF Reserved
    <2>1. CASE UNCHANGED <<live, alias, call>>
      BY <2>1 DEF Reserved, LiveElsewhere, Contenders
    <2>2. CASE Reap
      BY <2>2 DEF Reap, Reserved, LiveElsewhere, Contenders, SlugsTypeOK
    <2>3. CASE CallsDie
      BY <2>3, NoCallOK DEF CallsDie, links, Reserved, LiveElsewhere, Contenders, Renaming
    <2>4. QED
      BY <2>1, <2>2, <2>3, ArrivalReserved, HandlerReserved DEF SlugsNext, AliasAges, slugsVars
  <1>2. QED
    BY <1>1, TypeCorrect, PTL DEF SlugsSpec, ReservationHolds
=============================================================================
