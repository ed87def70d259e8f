----------------------------- MODULE MCPlatform -----------------------------
(***************************************************************************)
(* What the platform keeps of things elsewhere: files at the storage       *)
(* service, the products of a shop and the jobs of boards; and the server  *)
(* process that stops in the middle of it.  They share no state at the     *)
(* grain of these models, so a behaviour moves one piece of it and the     *)
(* others rest in their initial states.  The catalogue has two pieces: one *)
(* run at a time over all products, for the pages, and all runs over one   *)
(* product, for the overlaps.                                              *)
(***************************************************************************)
EXTENDS MCSlots, Naturals, FiniteSets

CONSTANTS
    Products,
    KeyBound, HourBound, PageBound, ViewBound   \* bounds, see the instances

ASSUME SizesAssumption ==
    KeyBound \in Nat /\ HourBound \in Nat /\ PageBound \in Nat \ {0} /\ ViewBound \in Nat
ASSUME FiniteAssumption == IsFiniteSet(Products) /\ IsFiniteSet(Options)

VARIABLES
    piece,
    kind, fit, stored, public, url, attached, started, confirm, removal, spared, downed, clumsy,
    shop, sold, product, sync, reader, settled,
    posting, scrape, walk,
    process, step, watchdog, cron, clients, pool, work

U == INSTANCE Uploads WITH Confirms <- Slots, MaxKeys <- KeyBound, PerHour <- HourBound
C == INSTANCE Catalog WITH Syncs <- Slots, MaxPages <- PageBound, row <- product
F == INSTANCE JobFeed WITH Jobs <- Options, Scrapes <- One, MaxViews <- ViewBound
P == INSTANCE Shutdown WITH Works <- Slots

uvars == <<kind, fit, stored, public, url, attached, started, confirm, removal, spared, downed, clumsy>>
cvars == <<shop, sold, product, sync, reader, settled>>
fvars == <<posting, scrape, walk>>
pvars == <<process, step, watchdog, cron, clients, pool, work>>

platformVars == <<piece, uvars, cvars, fvars, pvars>>

PlatformInit ==
    /\ piece \in {"uploads", "catalog", "sync overlap", "jobs", "process"}
    /\ U!Init /\ C!Init /\ F!Init /\ P!Init

OneSync == \A s \in Slots \ One : sync[s].at = "idle"
OneProduct == \A i \in DOMAIN shop : shop[i] \in One

PlatformNext ==
    \/ piece = "uploads" /\ U!Next
       /\ UNCHANGED <<piece, cvars, fvars, pvars>>
    \/ piece = "catalog" /\ C!Next /\ OneSync'
       /\ UNCHANGED <<piece, uvars, fvars, pvars>>
    \/ piece = "sync overlap" /\ C!Next /\ OneProduct'
       /\ UNCHANGED <<piece, uvars, fvars, pvars>>
    \/ piece = "jobs" /\ F!Next
       /\ UNCHANGED <<piece, uvars, cvars, pvars>>
    \/ piece = "process" /\ P!Next
       /\ UNCHANGED <<piece, uvars, cvars, fvars>>

PlatformSpec == PlatformInit /\ [][PlatformNext]_platformVars /\ P!Fairness

-----------------------------------------------------------------------------
(* Properties *)

\* The component in the piece that moves has its types.
PlatformTypeOK ==
    CASE piece = "uploads" -> U!TypeOK
      [] piece \in {"catalog", "sync overlap"} -> C!TypeOK
      [] piece = "jobs" -> F!TypeOK
      [] piece = "process" -> P!TypeOK

\* What the tables say of things kept elsewhere is so, as far as it can be: while
\* confirms neither overlap nor repeat, the picture a row names is served, and what is
\* public is named unless the bucket failed or the client put it there again (of the
\* document a message names, only its key is known); the products on sale are the
\* shop's once a run that nothing disturbed has written; and who walks the feeds of
\* products and jobs sees each of them once.
CopiesAgree ==
    /\ PlatformTypeOK
    /\ piece = "uploads" => U!NamedIsServed /\ U!PublicIsNamed
    /\ piece \in {"catalog", "sync overlap"} => C!CatalogFollowsShop /\ C!WalkIsWhole
    /\ piece = "jobs" => F!UnmovedShownOnce

\* A process that is told to stop stops.
ShutdownEnds == P!EndsWhenTold
=============================================================================
