# TribeLife backend in TLA+

Models, model checks and proofs of the TribeLife backend (`src/src`, Express + Socket.IO on
PostgreSQL). Paths below are relative to the repository root, which is `src/` here; so
`routes/groups.ts` is `src/src/routes/groups.ts`.

The program is a single-threaded event loop per process, and several processes. Its handlers are
chains of `await`s on the database. What can go wrong is in between: a handler reads a row, waits, and
writes on the strength of what it read, while another handler, another process, a job or a crash has
changed the row. Few handlers use a transaction and one takes a lock. Every module here is therefore
built the same way:

- the tables are functions, sets or sequences; a row that is never looked into is a model value;
- every handler in flight sits in a *slot* (`req[r]`, `send[s]`, `run[k]`, ...), a record of a program
  counter and of the locals it carries over an `await`;
- one action runs from one `await` to the next; a transaction with a lock is one action, a single SQL
  statement is one action;
- where a handler that breaks off leaves something behind that a property is about, a step of its own
  says so: a failed statement or a process that dies empties a slot, or all of them (`RequestFails`,
  `Crash`, `CallsDie`, `SendFails`, `PassFails`, `Fail`, `Stop`, `CutOff`, `Die`). Elsewhere (read-only
  requests, the tab of a survey) it is a slot that takes no further step.

## Inventory

The state each component keeps, its operations, what is hard, and what makes it correct. The last
column names the module, or says that there is none yet.

| Component | State | Operations | Hard behaviour | Correct when | Module |
|---|---|---|---|---|---|
| Organizations (`routes/orgs.ts`) | memberships, invites | change role, remove, invite (share link, directed), accept | two admins remove each other; an invite accepted twice or rotated away meanwhile; a request that breaks off half-way | an admin remains; closed invites stay closed; share links stay few | OrgMembership (what a change of rights does to sockets: Rooms) |
| Group membership (`routes/groups.ts`) | conversation, participant rows, roles, archive | create, join, leave, kick | counts, tiers and roles read before the write; create in two statements | limit overshot only by the concurrent joins; last admin archives; kicks stick | GroupMembership |
| Group slugs (`routes/groups.ts`, `jobs/aliasReaper.ts`) | `invite_slug`, alias table | create, rename, resolve, reap | "taken" read in two queries before the write | links lead home; an alias reserves its slug | GroupSlugs |
| Receipts (`socket/receipts.ts`) | `last_delivered_at`, `last_read_at` | delivered on send, back-fill on connection, read | watermarks written out of order; failures between write and announcement, only logged | a delivery is lost only to a failure, and until the next connection | Receipts |
| Sending (`socket/dmHandler.ts`) | messages, `hidden_at`, `archived_at`, `muted_at`, `left_at` | `dm:message`, `dm:voice` | four gates, six writes and three late reads per send | bars hold; conversations come back before anyone is told; mutes and leaving are respected | Messaging |
| Active viewing (`socket/activeViewing.ts`, `socket/index.ts`) | per-socket room and foreground bit | four events, asked by every fan-out | asked late in the send | who looks is not told | Messaging |
| Bell (`routes/notifications.ts`, `services/notificationSummary.ts`) | notification rows, read positions | read-all by tab, read-context, single read | rows and positions cleared by separate statements | what a request was about is off the bell and read | Bell |
| Beacons (`routes/beacons.ts`, `jobs/beaconMatcher.ts`, `services/limitChecks.ts`) | beacons, matches, dismissals | create, edit, delete, dismiss, daily matching | slots counted before a language model is asked; each process runs the matcher | slots bounded; dismissed and blocked pairs left alone; a match closes its beacons to edits | Beacons |
| Accounts (`routes/auth.ts`, `middleware/auth.ts`) | users, profiles with provider ids, referrals, handles | sign in (Google, Apple), onboard, change handle, delete | users and profiles in two inserts; sign-ins that meet; a ban against every way back in; retried onboarding | an identity leads to one account, none past a ban; an onboarding counts once | SignIn, Onboarding; deletion also in OrgMembership, GroupMembership, Beacons |
| Moderation (`routes/moderation.ts`, `routes/admin.ts`, classifiers, `services/docTakedown.ts`) | blocks, bans, reports, stored objects | block, ban, report, take down | a block between a send's reads; a take-down that fails half-way | blocked senders do not get through; what stays linked was let through and is there | bars in Messaging, Beacons and SignIn; take-downs in MessageContent and Uploads |
| Conversation content (`routes/chat.ts`, `routes/reactions.ts`, `routes/pins.ts`) | messages, audit rows, translations, pins, reactions | edit, delete, translate, react, pin | edit against edit, translation against translation, pin against delete, events told out of order | the audit keeps every version; clients end with what is stored; deleted words are gone | MessageContent, Reactions |
| Rooms (`socket/globeHandler.ts`, `socket/roomHandler.ts`, `routes/globe.ts`, `services/capabilityInvalidation.ts`) | memberships, zones, tier cached on the socket | join, leave, mute, move, send by two doors, evict | handshake, auto-join and eviction each in several steps; eviction passes overlap and fail unseen; the fan-out is deferred | members are told; a lapsed tier loses foreign feeds as far as a pass goes through | Rooms |
| Rate limit (`socket/rateLimit.ts`) | token buckets | ask, sweep | refill and sweep at the boundary of a second | one message a second, none refused that waited | RateLimit, implementing Spacing |
| Histories and lists (`routes/chat.ts`, `routes/chats.ts`, `routes/globe.ts`) | messages by time, read positions | page, search, window around a message, list with unread counts | cursors cut to milliseconds; answers from several queries | no gap in pages and windows, counts current | History |
| Billing (`routes/revenuecat.ts`, `services/capabilities.ts`) | subscription columns, conversions | webhook events | events out of order, twice, or redelivered after a failure | access follows the store; a purchase told with its expiration is put down to its referrer once, in the end | Billing |
| News (`services/news`, `jobs/newsIngester.ts`) | articles, spend meter, push history | ingest, enrich, dispatch, retain | overlapping sweeps; midnight | no push twice (overlapping sweeps break it: `news`); quota and cap kept | NewsSweep |
| Process (`server.ts`, `lib/shutdown.ts`) | guard, timers, pool | start, SIGTERM | any step stalls; second signal | ends once told | Shutdown |
| Uploads (`routes/upload.ts`, `services/storage.ts`) | objects, their visibility, the rows that name them | presign, confirm, attach, take down | publish, delete, write in three steps; confirm repeated | the picture a row names is served, public files are named | Uploads |
| Survey (`routes/tribe.ts`) | survey, votes | vote, read the tab | submit-once is a read before the insert | the first vote stands (overlapping submits break it: `survey`) | Survey |
| Marketplace (`services/esek`, `routes/marketplace.ts`) | products, delisted or not | sync, reconcile, feed | pages shift, fail or overlap; what was not seen is delisted | a good run leaves what the shop has; a walk is whole | Catalog |
| Jobs (`services/jobs`, `routes/jobs.ts`) | postings with view counts | scrape, feed | the sort key is rewritten under the reader | a job that did not move is shown once | JobFeed |
| Today panel, link previews, e-mail, static pages, web site, migrations | caches of upstream data, files | | | | none: I/O, or no state of their own |

How they interact: Messaging produces the messages that Receipts moves watermarks over and the rows
that Bell clears; GroupMembership decides who is a recipient (`left_at`), GroupSlugs who finds the
group; capabilities computed for Billing bound GroupMembership's limit, Beacons' slots and what Rooms
lets a reader listen to; account deletion cuts through all of them. The modules share those tables by assumption: where one module
needs another's table it lets it change in every way the other allows (tiers change at any time,
members leave at any time, rows arrive late or never).

## The modules

Each is instantiated for TLC by an `MC` module, several of them together where they share nothing
(MCConversations, MCInbox, MCServer). The runs that end in a counterexample take the component's module
as it is. Proofs are in `_proofs` modules.

### OrgMembership

`role` is `organization_memberships`, `invite` the invite table by token. Actions come in pairs: a gate
(`SetRoleGate`, `RemoveGate`, `InviteGate`, `AcceptReadInvite`), whose reads are outside any
transaction, and the transaction (`SetRoleTx`, `RemoveTx`, `AcceptTx`) under
`LOCK TABLE organization_memberships IN EXCLUSIVE MODE`, a single action. `RequestFails` breaks a
request off between any two. The `caps:invalidated` that follows a commit touches no row and is
best-effort (it is skipped without io, and its failures are only logged): no property depends on it, and
what it does to the feeds a socket has joined is modelled in Rooms.

### GroupMembership

One group. Every read of `POST /:slug/join`, `POST /:id/leave`, `DELETE /:id/members/:userId` and the
two inserts of `POST /groups` is a step (`JoinReadGroup`, `JoinReadRow`, `JoinCount`, `JoinReadTier`,
`Rejoin`, `InsertMember`; `LeaveRead`, `LeaveCountAdmins`, `LeaveTx`; `KickGate`, `KickReadTarget`,
`Kick`; `InsertConversation`, `InsertAdminRow`). The owner's tier changes and accounts disappear at
any time.

### GroupSlugs

`live` is the unique `invite_slug`, `alias` the table of old slugs, `old` the aliases past the reaper's
30 days. Creates and renames check the slug in two reads and write in a third step. `home` and `raced`
are history: to which group the links of a slug were given out, and the slugs of claims that met another
claim of the same slug or a rename of the same group while they were in flight. Claims of other slugs
overlap without leaving a trace there.

### Receipts

One reader of one conversation. Time is the number of messages. Sends check presence, stamp a time,
update the watermark and emit; a connection's back-fill queries, advances and fans out; an open moves
the read watermark, claims and emits. Every statement of these may fail, which the callers log and
leave (`SendFails`, `FillFails`, `OpenFails`), whether the reader stays connected or not; `lost` is
history, up to which message a failure may have cost a receipt.

### Messaging

One sender and one reader of a conversation that is 1:1 or a group. A timestamp column is the number
of messages there were when it was set, or `Never`. `CheckMember`, `CheckConvo`, `CheckBlock`,
`CheckBan` are the four reads before `Insert`; `Unhide` and `Unarchive` bring the conversation back
(voice messages skip the second, as the code does); `ReadMembers`, `CheckViewing`, `ReadMute` are the
late reads; `Notify` is the bell row and the `chat:notification`, `Push` what follows. The reader's
four socket events and seven operations on their row may come between any two. `under`, `since` and
`cut` are history.

### MessageContent

One message after it was sent: words only, with images, or a voice. `EditRead`, `EditTx`, `EditTell`
(and likewise for delete, translate, pin and unpin) are the statement a handler reads the message with,
the one it writes it with, and the event; the transaction of an edit is one action. The moderation job
that the send starts and nobody waits for is `job`: `JudgeImages`, one `StoreImage` per object to
remove, `ReadImages`, `StripImages`; `JudgeVoice`, then `SaveTranscript` or `DeleteVoice`,
`UnlinkVoice`. The classifiers' verdicts and whether enforcement is on are free choices at the step
that reads them. `told` is what the events so far have told open clients. Words are numbers: what
matters is which version an audit row, a translation, a pin or a client has. `past` and `loose` are
history: the versions replaced, and which overlaps and lost events there have been.

### Bell

One reader, some 1:1 conversations and groups, the notification rows of their messages. `Ring` lets a
row arrive any time after its message, or never, which is all that Messaging's many paths amount to
here. `ContextDirected`, `ContextGroup`, `ContextAdvance` are `PUT /read-context`; `TabFind`,
`TabRows`, `TabCross`, `TabAdvance` are `PUT /read-all` for the stored tabs, `GroupsNow`,
`GroupsRows`, `GroupsAdvance` for the groups tab. `was` and `took` in a slot are history.

### Beacons

Users' beacons, matches as pairs of beacons, create requests between limit check and insert, and the
matcher run of each process with its snapshot, its list of pairs and the pair under comparison. The
verdict of the language model is nondeterministic. The text of a beacon, and so edits, are abstracted
away.

### Rooms

One room, a topic or a time zone, and one possible member. `Handshake`, `Connect`, `ListRooms`,
`Subscribe` are the socket's way to its feed, with the tier and zone cached at the first; `GlobeJoin`,
`JoinRoom`, `LeaveRoom`, `MoveIn`, `MoveAway` are the reader's operations. `ChangeTier` writes the tier and
owes a call; `EvictCall` to `EvictLeave` is the background pass that follows, several of which overlap,
each with its own reads, and `PassFails` is what ends one early: no io, no profile, a failed query, a
process that dies before the call or after it. A send goes through `Gate`, `Mention`, `Store`, `Emit`,
`Look`, `Ring` and the deferred `Fan`, by either door of a zone (`GlobeArrive`, `RoomArrive`). `loose`
is history: the ways in which the code lets a feed outlive the tier (the last pass failing is one). So is `lost`, the messages
whose send broke off after the insert: nobody is told of those. `MembersAreTold` counts a reader who belonged
since before the message until the deferred fan-out.

### Spacing and RateLimit

Spacing is what the limiter promises: a message a second and room, and no refusal once a second has
passed. RateLimit is the code: tokens, refill by elapsed time, a sweep of idle buckets. `SpacesMessages`
in RateLimit is Spacing's specification under the refinement mapping that remembers the last message
let through.

### History

One place, its messages with times in microseconds, and the answers that are put together from several
queries: pages with a cursor cut to a millisecond, a window around a message, and a list row with its
unread count. `Write` is mark-read with the time it took before.

### SignIn, Onboarding

SignIn is one person with an identity at each provider; accounts are numbered rows with a profile that
holds the ids. `LookUp`, `FindByEmail`, `Link`, `InsertUser`, `InsertProfile` are the awaits of
`POST /auth/google` and `/auth/apple`; `Ban`, `Erase` and `Onboard` come between any two. Onboarding is
`POST /auth/onboarding` statement by statement, with `PUT /auth/handle` as its rival for handles.

### Billing

The store makes events; each is delivered until it is answered 200. `Apply` is the switch over event
types, `LookUpReferral` and `InsertConversion` the attribution. `TellAmiss` lets the store tell an event
without an expiration or of a user the server does not know, which the handler answers 200 at once, a
purchase included. Time is in billing periods.

### NewsSweep

One run goes from `Fetch` over `LoadUsage`, `SelectRows`, `Charge`, `PersistUsage` to `PickArticles`,
`CheckQuota`, `CheckCooldown`, `InsertHistory`. `Midnight`, `Hour` and `Retain` move time.

### Uploads, Survey, Reactions, Shutdown

Uploads: keys, the objects behind them, which are public, and which rows name them; every call to the
storage service may fail, and a message may name any document of its sender, as the send looks no further. Survey: a ballot with its checks, and the tab that reads counts and own votes
apart. Reactions: one reaction of one user, on a message or an article, with what a client shows.
Shutdown: the steps of `registerShutdownSignals`, each of which may hang, and the watchdog.

### Catalog, JobFeed

Catalog: the shop is external, a sequence of products that changes at any time; a run fetches it page
by page (`FetchPage`, `SkipPage`, `GiveUp`), writes one batch (`Upsert`, which fails when shifted pages
brought a product twice) and delists the rest (`Reconcile`). The reader walks the feed by identifier.
JobFeed: runs upsert whatever boards say, while a reader walks by view count and identifier.

### MCConversations, MCInbox, MCAccounts, MCPlatform, MCServer

Components that share no state at this grain are put side by side: `side`, `focus`, `part` and
`piece` say which of them a behaviour moves, and every property names the components it speaks of.
MCConversations holds GroupMembership, GroupSlugs and Receipts. MCInbox holds what a reader is told and shown: Rooms, RateLimit, History and Bell. MCAccounts holds what
the platform keeps of a user: SignIn, NewsSweep, Billing, Onboarding, Survey and Reactions. MCPlatform
holds what it keeps of things elsewhere, and the process: Uploads, Catalog, JobFeed and Shutdown. MCServer
is one instance of both (over the constants of MCSlots): each of its behaviours moves one `half`, so it is a
behaviour of AccountsSpec and of PlatformSpec (`ServerIsBoth`), and what is proved of those holds of it.

## What is checked

| Run | Shows |
|---|---|
| `orgs` | An admin is left after any two interleaved handlers (`AdminsKept`); a closed invite is never taken up again (`ClosedInvitesStayClosed`); pending share links are at most the concurrent invite requests (`PendingLinksBounded`). |
| `conversations` | Groups: `CapacityBounded`, `SoleAdmin`, `AdminLossArchives`, `ClosedDoorsStayClosed` (archived groups only shrink, kicked users stay out): how far each unlocked check can be wrong, and from when archiving and kicking are final. `AdminLossArchives` has one exception, which the code leaves open: deleting the last admin's account (`routes/auth.ts`) leaves the group open and without an admin. Slugs: `LinksResolve` for every slug whose own claims did not meet, through any chain of renames and crashes and beside any claims of other slugs; `ReservationHolds` even when they do meet. Receipts: `DeliveryKept` for a 1:1 conversation: a delivery goes untold only where a statement failed or a process died, and only until the reader connects with nothing under way. |
| `messaging` | `BarHolds`: a bar that stood before a send keeps it out. `ShownAgain`: a message brings its conversation back. `ToldRightly`: mutes, departures and looks older than the message are respected, and nobody is told of what is not listed. |
| `content` | `RecordsAgree`: the audit has every replaced version, and once no event is owed clients show the stored words, deletion and pin; `TranslationsStay`; `ModerationSettles`: what moderation leaves behind, whatever fails on the way. Each excuses only its own overlaps and lost events. |
| `beacons` | `SlotsBounded` (with creates that overlap, the limit is passed by one per extra create and no more), `RunsKeepOff` (pairs at rest, dismissed, blocked or withdrawn are left alone), `MatchesAreStamped`. |
| `inbox` | `MembersAreTold` (a send that ran to its end rang for, or was seen by, whoever belonged since before the message) and `FeedIsPaidFor` of rooms (passes that overlap judge each for itself, and one that fails costs the feed only if no other is behind it); `SpacesMessages`, the refinement of Spacing by RateLimit; `AnswersAreWhole` of pages, windows and counts; `BellSettles`: what a clearing request was about is off the bell and read when it ends, for every tab and any other request at the same time, and opening a conversation never clears the row of an unread message. |
| `server` | MCAccounts: `IdentityHolds` (one account per identity, bans outlive every way in); `NewsKeepsToLimits` (one push of what two runs never held at once, quota, cap); `RepeatsCountOnce` (store events answered in order, onboardings tried again after a failure, votes and taps one at a time); `PurchasesAreAttributed` (under fairness, of purchases told with an expiration and a known user). MCPlatform: `CopiesAgree` (pictures, products and jobs against the rows that stand for them, and no public file that nothing names); `ShutdownEnds` (under fairness). |

Five runs end in a counterexample, because the code does not do what a comment of the repository says;
each is described, with the quotation, under `findings` in `PROJECT.json`:

| Run | What happens |
|---|---|
| `slug_misroute` | Two overlapping claims of one slug: a stale link opens another group. |
| `receipts_group` | In a group, one sender's delivery stamp hides another sender's undelivered message from the back-fill. |
| `pin_deleted` | The pin of a deleted message is still answered with its words. |
| `news` | Two sweeps that hold one article for one reader both queue its push, though the second history row conflicts. |
| `survey` | Two submits of one user that both found no vote record the options of both. |

### Bounds, and why they are enough

Every hazard listed in `PROJECT.json` needs two actors on one piece of state, sometimes with a third
event (a deletion, a reader's step) in between. So each instance has two handlers of a kind in flight,
two or three objects for them to meet on, and everything else free:

- `orgs`: 3 accounts, 3 tokens, 2 requests: two admins and a member, rotation with one link to spare.
- `conversations`: a behaviour moves one `side`. Members: 4 accounts, 2 requests, limits 1 and 2: the limit is
  reached, passed and lowered. Links: 3 groups, 3 slugs, 2 requests: a chain of renames with a claim beside it.
  Receipts: 1 sender, 2 sends, 2 connections, 1 open, 2 messages (`MaxMessages`), any number of failures (`MayFail`) and
  reconnections. The sides share model values so that the same permutations are sound for all three.
- `messaging`: 2 sends, `MaxMessages = 2`: one message before and one after any operation of the reader.
- `content`: 2 requests, 2 edits, 2 languages, 2 images. `MaxLoose = 1` (a state constraint) follows a
  behaviour until a second overlap or lost event: each property excuses only its own, so the others
  are checked with any one of them present.
- `beacons`: 2 users, 3 beacons, a limit of 1 slot. With two creates in flight (`crowd` is "creates", the matcher
  rests) both count a free slot and the limit is overshot by one; with two matcher runs in flight the creates
  come one at a time, since the matcher neither counts nor takes slots. 3 beacons give a pair of the same owner
  and two others.
- `inbox`: rooms with 1 send and 1 message (`RoomMessages`) against any sequence of the reader's and the socket's steps
  (two sends never touch each other's rows), and, apart from sends, which neither read nor write what a pass does,
  with 2 eviction passes that overlap, one failing behind the other included; a second of 3 ticks, a sweep after 4, 15 ticks, which is two
  sweeps and their refills; histories of 3 messages (`PlaceMessages`) over 4 microseconds (`PlaceTime`), 2 to the millisecond (`Milli`), pages of 1 (`PageRows`, `HalfRows`),
  so that two messages share a cut time and a third lies apart; the bell with a 1:1, a group, 2 requests
  and 2 messages, `BellMessages` (read positions of different conversations never depend on each other).
- `server`, accounts: 2 requests, hooks, ballots or taps in flight (`Slots`); 2 accounts (`Signups`); news as one run
  over 2 articles and as two runs over 1 article, with a cap of 2 and a quota of 1, so that both are met
  and could be passed; 2 `Events` in 2 billing `Periods` with 1 failure (`Faults`); 2 `Referrals`; 3 rows
  of `Reactions`. A failure more only repeats one that is there: what follows starts from the same rows. Two
  events are a purchase and what follows it, told and answered in either order; an EXPIRATION beside a RENEWAL takes a
  third, and is covered by the proof only, where the number of events is free. Sign-ins and files are followed up to the
  step that excuses them for good (`excused`, `clumsy`), since nothing is claimed of them after it.
- `server`, platform: 2 confirms or works in flight; 2 keys (`KeyBound`), and 1 presign an hour (`HourBound`), so that
  the limit is met; a shop of 2 products in 2 pages (`PageBound`) with one run, and of 1 product with two; 2 jobs
  with 0 or 1 views (`ViewBound`).

`MaxMessages`, `MaxEdits`, `MaxAccounts` (`Signups`), `MaxEvents` (`Events`), `MaxPeriod`
(`Periods`), `MaxReferrals` (`Referrals`), `MaxRows` (`Reactions`), `MaxKeys` (`KeyBound`), `Tokens`, `Groups` and `BeaconIds` bound what may ever be created; they do
not bound how often existing things are renamed, left, blocked, opened or expired. Symmetry is used
where the constants are interchangeable and only invariants and action properties are checked. Most
configurations say `CHECK_DEADLOCK FALSE`: with a bound reached and every slot idle, nothing need happen.

Each property is backed by a mutant listed in `PROJECT.json`: an operator in the module
marked "Mutant", which changes one definition the way a plausible bug would and makes the property fail.

### Fairness

Two places of the code justify it, and there a liveness property is checked:

- Billing, `PurchasesAreAttributed`: RevenueCat delivers an event again until it is answered 200 (weak fairness of `Deliver` for
  each event), and a handler that is not cut off comes to its answer (weak fairness of its steps).
  Failures are bounded by `MaxFaults` (`Faults`), so that the last delivery goes through.
- Shutdown, `ShutdownEnds`: the handler goes on by itself up to the close of the sockets, and a timer that is set goes
  off (weak fairness of `Force`). The closes and the queries have none: they may hang, and the process
  must end all the same.

Everywhere else requests come when clients please and handlers may break off, so the
eventual delivery that comments speak of is stated as safety instead ("when nothing is in flight,
then ..."), as in `DeliveryKept`, `RecordsAgree` or `AccessFollowsStore`.

### Met on the way

Behaviour that the models show and the properties excuse by name, where we found no comment, document or
test of the repository that denies it (where one does, it is a counterexample above):

- A referral's months replace a longer paid expiry (`routes/auth.ts`, `GrantReferrer`), and onboarding
  again under a new handle makes another referral of the same user, for which the referrer is paid again
  (`JoinsOnce` bounds the months by the referrals, the welcome and the trial by one). Sent again under one's own handle it answers 409, so
  a first attempt that failed after the profile was written never grants the trial.
- Two submits of an onboarding at once, two taps of a reaction at once and events of the store answered in another
  order than they were made spoil what `RepeatsCountOnce` says of them (`broken`, `jostled`, `disordered`).
- Overlapping news sweeps lose each other's spending. Once an article was pushed to anyone it is not offered
  again to readers that were skipped.
- A purchase told without an expiration, or of a user the server does not know, is answered 200 and put down to
  nobody: the store does not tell it again.
- A pass that takes feeds away after a change of tier is best-effort: if the last of them fails, the socket keeps
  its feed until it reconnects.
- A sync that loses pages delists the products on them, and one whose pages shift fails as a whole,
  because one statement may not touch a row twice; the next undisturbed sync repairs both.
- Between the delete of an old picture and the write of the new url the row names nothing that is
  there; a confirm sent again deletes its own object. A document whose quarantine failed stays public
  after the message has forgotten it, and one put or confirmed again after the takedown becomes public again.
  Sends check whose key a document has, not that it was put or confirmed, so a message may name one that is
  not served.
- A sign-in that dies between its two inserts leaves an account without a profile: Google then links no
  row, Apple's relay address is taken. An account deletion in flight when the ban falls frees the identity.
- Queries of a cron that is still running fail once the pool ends (`lib/shutdown.ts:75` lets it finish).
- `PUT /read-all?tab=groups` dates the read positions before it clears the rows, so a message in between
  is off the bell and unread in its chat.

## What is proved

With TLAPS, for all values of the constants that satisfy the named assumptions (finitely many users and
requests, absent values outside their sets, limits in `Nat`):

- **OrgMembership**: `TypeCorrect`, `LastAdminSafe`, `InvitesStayClosed`, `LinksAreBounded`.
  `TypeOK` carries them: it ties a slot's step to its locals. `LastAdminSafe` rests on the re-count
  being in the transaction that writes (`LockedTxKeepsAdmins`), so that it holds wherever a request breaks off.
- **GroupMembership**: `TypeCorrect`, `AdminIsSole`, `LastAdminArchives`, `ArchivedShrinks` and
  `KicksStick`, which are `DoorsStayClosed`, `CapacityHolds`. `SoleAdmin` is written to be inductive: it says of every slot on its
  way to a leave or a kick that its user is not, and cannot become, the admin; with the plain "at most
  one admin" the kick step cannot be shown to spare the admin. `CapacityBounded` follows from
  `RoomLeft`: members plus joins past the count stay below the largest limit plus the slots.
- **GroupSlugs**: `TypeCorrect`, `LinksKeepResolving`, `Reservations`. The inductive invariant
  `LinksInv` adds to `LinksResolve` that claims in flight that have met are in `raced` (`Noted`) and, of the
  slugs outside `raced`, that none is both live and an alias and that what a claim has read of one is still
  true (`NeverBoth`, `Fresh`): any number of claims may be in flight at once.
- **Receipts**: `TypeCorrect`, and `NoReceiptLost` under the assumption `Direct` (one other member;
  without it the statement is false, which `receipts_group` shows). The inductive invariant `Kept` says
  of each message after `lost` that it is told, before the watermark, or carried by a send or back-fill that
  has yet to announce it.
- **Messaging**: `TypeCorrect`, `BarsHold`, `MessagesAreShown`, `ReaderIsToldRightly`. `BarHolds` is
  about the moment of the insert; what is inductive is `Screened`, which says of a send past each of the
  four reads that the bar it read did not stand when the send began. `ToldRightly` is carried by
  `AllSettled`, which says what the unhide, the unarchive and the three late reads have established at
  each program counter, and which operations of the reader may since have undone it.
- **MessageContent**: `TypeCorrect`, `RecordsDoAgree`, `TranslationsAreKept`, `ModerationDoesSettle`.
  `RecordsAgree` speaks of moments at which no event is owed; the inductive `Recorded` and `Owed`
  name, for what clients do not show yet, the handler that will tell them. `Held` says which version a
  translation in flight was asked for, `Moderated` and `Spoken` what the moderation job has done at each
  step and what a failure leaves. The type invariant needs a pigeonhole (`RoomForEdit`): edits in
  flight and edits written are together bounded by `MaxEdits`.
- **Beacons**: `TypeCorrect`, `SlotsAreBounded`, `MatchesGetStamps`, `RunsAreKeptOff`. `SlotsBounded`
  rests on `RoomLeft`: a user's slots taken plus their creates past the count stay below the limit plus
  the requests. `RunsKeepOff` is an action property: `RunsMove` shows that a run that makes a match has its
  pair from a snapshot that was clear of dismissals and blocks.
- **Inbox** (over MCInbox, whatever the bounds on the messages of a room, a history and the bell):
  `Refines`, that every behaviour of the token bucket is one of Spacing, for every number of users and
  rooms, every length of a second and every sweep threshold of at least a second. Its invariant says that
  the tokens of a bucket are the time since the last message was let through, up to a second, and that a
  key without a bucket never sent or was swept at least a second after its last message;
  `StepSimulation` maps each step to a step of Spacing or a stutter.
  `FeedsArePaidFor` and `MembersHear` for rooms. For the first, `Paid` follows the entitlement from the
  handshake to the last step of an eviction: a feed nobody pays for has a pass that is yet to
  take it, however many overlap and fail, or one of the gaps in `loose`. For the second, `RungOnce` says that a message belongs to one
  send and has rung only where that send is past ringing, so that the deferred fan-out adds no second row.
  `BellDoesSettle` for the bell: `RequestsKept` says of every request in flight which of the rows it was
  about it has dealt with, and which read positions it has yet to set, at each program counter.
  `AnswersStayWhole` for histories, whatever the bounds, the microseconds of a millisecond and the rows of a
  page or a window; `PlaceKept` is the invariant. `InOrder`: messages are numbered in the order of their
  times. `ScrollKept`: what a client has yet to get is older than its cursor, unless it shares a
  millisecond with another message; `AroundKept` and `ListKept` say what a window and a row of a list hold.
  They rest on what a page is: `NewestOf` shows that the newest n of a set are newer than the rest of it, no more
  than n, and fewer only if they are all, and `CutsDown` that times between a cut and the time it was cut from
  are cut alike. Induction over a number is had from the least counterexample (`Least`, `Largest`).
  `InboxTypeCorrect` puts the types of the four components together; that nobody gets a third bell row
  is `RungOnce`.
- **Accounts** (over MCAccounts, whatever the numbers of slots, accounts, articles, readers, events and rows):
  `IdentitiesHold`, by `Identified`: an account that a session was given of, or is about to be, holds the
  identity it was given for, an account without a profile is about to have one, and a barred id is on a
  banned account that is there; the first two until `excused` says that a sign-in wrote no profile, or died
  before it did.
  `RepeatsDoCountOnce`. Billing: `Booked`, `Answered` and `Applied` say which events the subscription row
  has, which a delivery in flight is about to give it, and which are still owed. Onboarding: `Joining`
  says what a submit at each statement has written and `Rewarded` that a referrer was given months no more than
  once per referral row, exactly once where no request was cut off (`cut`), and the user welcomed at most once. Survey: `Voted` and `TabKept`. Reactions: `Followed`: the row a tap is about is as the tap
  read it, unless another tap overlapped it.
  `NewsKeepToLimits`, by `NewsKept`. `PushedRests`: a pair that was pushed is in nobody's hands and no
  candidate again, since its history row is there, or went with a retention that finds the article too
  old to be picked. `SweptAlone`: while runs do not overlap and none loses a charge, the calls of the day are
  in the stored usage or in the run that is about to write it, and the pushes of the day have their rows
  in the history, which is where the quota is counted.
  `AccountsTypeCorrect`, which all of these invariants carry.
- **Platform** (over MCPlatform, whatever the numbers of confirms, keys, products, pages, jobs and runs):
  `CopiesDoAgree`, by `PlatformKept`, which has a conjunct for each piece. `FilesKept`: a file that is public has
  passed its checks; and while confirms do not overlap, the picture of the row is public unless a
  confirm that has just deleted it is about to write the new one, and a public picture is named or in the
  hands of a confirm. `CatalogKept`: rows are numbered apart and upward (`Numbered`, which the batch
  of an upsert keeps: `UpsertNumbers`); a run that nothing disturbed has a prefix of the shop, up to the last
  page it may ask for (`Fetched`), so two such runs write the same (`CalmAlike`); and of what was on sale all along,
  what the reader has not seen lies behind the cursor (`Walked`). `JobsKept`: the same of jobs that
  stood still, in the order of views and numbers, which `TopIsTop` shows to be total.
  `CleanEndCutsNothing`, the safety part of `ShutdownEnds`, by `ProcessKept`: after the pool has
  ended there is no query, and none begins.

Constants are assumed to be what the code makes them: bounds in `Nat`, at least one page of the shop, at least one microsecond in a millisecond, `Requests` finite where slots
are counted, `NoChat`, the chat of a request that has none, no chat; a
cap of at least one call, finitely many articles, products and jobs, and no handle that looks like a placeholder (`_temp_`). TLC evaluates the assumptions in
the runs.

### Model-checked only

- `PurchasesAreAttributed` and `ShutdownEnds`: liveness under fairness is out of the prover's reach.
  Of `ShutdownEnds` the safety part is proved (`CleanEndCutsNothing`).
- `DeliveryKept` outside the assumption `Direct`, and the five counterexamples: they are false there, and
  a run shows how.

## What is left out, and why

- Formatting, payloads, logging, localisation, moderation word lists: no property is about them.
- Push delivery by Expo and FCM, object storage, mail, language models: outside; what they answer is a
  nondeterministic choice where it matters.
- Read-only routes (lists, search, previews) have no state of their own.
- Database replication, clock skew between database and servers: the modules take one clock.
- A handler's `try`/`catch` that only logs is folded into the step it guards.

## Not modelled

- The Today panel and `lib/redisCache.ts`: every failure is a miss, and what is cached is upstream data.
- Link previews, mail, support forms, version and deep-link routes: I/O, nothing is kept.
- Edits of beacons, profiles, organizations and groups that write plain columns; preferences; search.
- The creation of a 1:1 conversation, whose two requests may race to two conversations.
- The marketing site, migrations and seeds.

## Plan

1. **Composition**: Messaging's `Notify` implements Bell's `Ring`, and Messaging's sends implement
   Receipts' `Insert`, by refinement mappings checked as properties.
2. **The creation of 1:1 conversations**, and beacons with versions of their text.
