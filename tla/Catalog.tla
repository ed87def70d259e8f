------------------------------- MODULE Catalog -------------------------------
(***************************************************************************)
(* The marketplace: the products of a shop elsewhere, fetched page by page *)
(* once a day by every server process (jobs/esekSync.ts and                *)
(* services/esek), and the feed that a reader walks with a cursor          *)
(* (routes/marketplace.ts).                                                *)
(*                                                                         *)
(* A page holds one product, of the shop and of the feed.  The shop shows  *)
(* its newest product first, so its pages shift while they are fetched.    *)
(***************************************************************************)
EXTENDS Naturals, FiniteSets, Sequences, SequencesExt

CONSTANTS
    Products,
    Syncs,     \* slots of runs in flight
    MaxPages   \* MAX_PAGES of the client

VARIABLES
    shop,      \* the products of the shop, newest first
    sold,      \* the products that are sold out there
    row,       \* esek_products
    sync,      \* the run in each slot
    reader,    \* the walk of a reader through the feed
    settled    \* history: a run that nothing disturbed has written, nothing since

catalogVars == <<shop, sold, row, sync, reader, settled>>

Ids == 0..Cardinality(Products)
NoRow == [id |-> 0, available |-> FALSE, delisted |-> FALSE]
Sync == [at : {"idle", "fetch", "upsert", "reconcile"}, page : 1..MaxPages,
         seen : SeqOf(Products, MaxPages), fit : SUBSET Products, calm : BOOLEAN]
NoSync == [at |-> "idle", page |-> 1, seen |-> <<>>, fit |-> {}, calm |-> TRUE]
Reader == [at : {"idle", "more", "done"}, cursor : Ids,
           got : SeqOf(Products, Cardinality(Products)), steady : SUBSET Products]
NoReader == [at |-> "idle", cursor |-> 0, got |-> <<>>, steady |-> {}]

TypeOK ==
    /\ shop \in SeqOf(Products, Cardinality(Products)) /\ IsInjective(shop)
    /\ sold \subseteq Products
    /\ row \in [Products -> [id : Ids, available : BOOLEAN, delisted : BOOLEAN]]
    /\ sync \in [Syncs -> Sync]
    /\ reader \in Reader
    /\ settled \in BOOLEAN

Init ==
    /\ shop = <<>> /\ sold = {}
    /\ row = [p \in Products |-> NoRow]
    /\ sync = [s \in Syncs |-> NoSync]
    /\ reader = NoReader
    /\ settled = FALSE

\* The products that the feed shows of a table.
OnSale(table) == {p \in Products : table[p].id # 0 /\ table[p].available /\ ~table[p].delisted}

\* The table is written: what went off sale on the way of a reader is not steady.
Save(table) ==
    /\ row' = table
    /\ reader' = [reader EXCEPT !.steady = @ \intersect OnSale(table)]

\* The run of slot s becomes new; a run between its two writes does not
\* stay calm when one that is not calm writes.
Wrote(s, new) ==
    sync' = [k \in Syncs |->
               IF k = s THEN new
               ELSE [sync[k] EXCEPT !.calm = @ /\ (sync[s].calm \/ sync[k].at # "reconcile")]]

-----------------------------------------------------------------------------
(* A run: fetchAllProducts, upsertProducts, reconcileDelisted *)

StartSync(s) ==
    /\ sync[s].at = "idle"
    /\ sync' = [sync EXCEPT ![s] = [NoSync EXCEPT !.at = "fetch"]]
    /\ UNCHANGED <<shop, sold, row, reader, settled>>

\* The next page after page n, or the upsert once there are enough.
NextPage(run) ==
    IF run.page = MaxPages THEN [run EXCEPT !.at = "upsert"] ELSE [run EXCEPT !.page = @ + 1]

\* An empty page is the end of the catalogue.
FetchPage(s) ==
    LET run == sync[s] IN
    /\ run.at = "fetch"
    /\ sync' = [sync EXCEPT ![s] =
         IF run.page > Len(shop) THEN [run EXCEPT !.at = "upsert"]
         ELSE NextPage([run EXCEPT !.seen = Append(@, shop[run.page]),
                                   !.fit = @ \union ({shop[run.page]} \ sold)])]
    /\ UNCHANGED <<shop, sold, row, reader, settled>>

\* A page that cannot be fetched or parsed is left out.
SkipPage(s) ==
    /\ sync[s].at = "fetch"
    /\ sync' = [sync EXCEPT ![s] = [NextPage(sync[s]) EXCEPT !.calm = FALSE]]
    /\ UNCHANGED <<shop, sold, row, reader, settled>>

\* The shop refuses the page four times: the run goes on with what it has.
GiveUp(s) ==
    /\ sync[s].at = "fetch"
    /\ sync' = [sync EXCEPT ![s].at = "upsert", ![s].calm = FALSE]
    /\ UNCHANGED <<shop, sold, row, reader, settled>>

\* Rows new to the table are numbered in the order of the batch.
Unknown(ps) == {q \in ps : row[q].id = 0}
NewId(p, batch) ==
    LET place == CHOOSE i \in DOMAIN batch : batch[i] = p IN
    IF row[p].id # 0 THEN row[p].id
    ELSE Cardinality(Products \ Unknown(Products))
           + Cardinality(Unknown({batch[i] : i \in 1..place}))

\* Mutant: a product that is known already keeps being delisted.
KeepsDelisted(run) ==
    [p \in Products |->
       IF p \notin ToSet(run.seen) THEN row[p]
       ELSE [id |-> NewId(p, run.seen),
             available |-> p \in run.fit, delisted |-> row[p].delisted]]

\* The row is made, or refreshed and listed again.
Upserted(run) ==
    [p \in Products |->
       IF p \notin ToSet(run.seen) THEN row[p]
       ELSE [id |-> NewId(p, run.seen),
             available |-> p \in run.fit, delisted |-> FALSE]]

\* One statement for the whole batch.  A product that is in it twice, because
\* the pages shifted, is an error, which ends the run.
Upsert(s) ==
    LET run == sync[s] IN
    /\ run.at = "upsert"
    /\ IF IsInjective(run.seen)
       THEN /\ Save(Upserted(run))
            /\ Wrote(s, [run EXCEPT !.at = "reconcile"])
            /\ settled' = (settled /\ run.calm)
       ELSE /\ sync' = [sync EXCEPT ![s] = NoSync]
            /\ UNCHANGED <<row, reader, settled>>
    /\ UNCHANGED <<shop, sold>>

\* Everything that this run has not seen is delisted; an empty fetch is taken
\* for a failed one.
Reconcile(s) ==
    LET run == sync[s] IN
    /\ run.at = "reconcile"
    /\ IF run.seen = <<>>
       THEN /\ sync' = [sync EXCEPT ![s] = NoSync]
            /\ UNCHANGED <<row, reader, settled>>
       ELSE /\ Save([p \in Products |->
                       IF p \in ToSet(run.seen) \/ row[p].id = 0 THEN row[p]
                       ELSE [row[p] EXCEPT !.delisted = TRUE]])
            /\ Wrote(s, NoSync)
            /\ settled' = run.calm
    /\ UNCHANGED <<shop, sold>>

\* A statement fails, which the run logs, or the process dies.
Stop(s) ==
    /\ sync[s].at # "idle"
    /\ sync' = [sync EXCEPT ![s] = NoSync]
    /\ UNCHANGED <<shop, sold, row, reader, settled>>

-----------------------------------------------------------------------------
(* The shop *)

ShopChanges ==
    /\ \/ \E p \in Products \ ToSet(shop) : shop' = <<p>> \o shop /\ UNCHANGED sold
       \/ \E i \in DOMAIN shop : shop' = RemoveAt(shop, i) /\ UNCHANGED sold
       \/ \E p \in Products :
            sold' = (IF p \in sold THEN sold \ {p} ELSE sold \union {p}) /\ UNCHANGED shop
    /\ settled' = FALSE
    /\ sync' = [s \in Syncs |-> IF sync[s].at = "idle" THEN sync[s]
                                ELSE [sync[s] EXCEPT !.calm = FALSE]]
    /\ UNCHANGED <<row, reader>>

-----------------------------------------------------------------------------
(* The feed *)

\* Mutant: the row of the cursor is on the next page again.
FromCursor(cursor) == {p \in OnSale(row) : cursor = 0 \/ row[p].id <= cursor}

\* What lies behind the cursor; a cursor of 0 is none.
Behind(cursor) == {p \in OnSale(row) : cursor = 0 \/ row[p].id < cursor}

Newest(ps) == CHOOSE p \in ps : \A q \in ps : row[q].id <= row[p].id

\* One page more than asked for tells whether there is a next one.
Page(walk) ==
    LET rest == Behind(walk.cursor) IN
    IF rest = {} THEN [walk EXCEPT !.at = "done"]
    ELSE [walk EXCEPT !.got = Append(@, Newest(rest)), !.cursor = row[Newest(rest)].id,
                      !.at = IF Cardinality(rest) > 1 THEN "more" ELSE "done"]

OpenFeed ==
    /\ reader.at # "more"
    /\ reader' = Page([NoReader EXCEPT !.steady = OnSale(row)])
    /\ UNCHANGED <<shop, sold, row, sync, settled>>

ReadOn ==
    /\ reader.at = "more"
    /\ reader' = Page(reader)
    /\ UNCHANGED <<shop, sold, row, sync, settled>>

Next ==
    \/ \E s \in Syncs :
         \/ StartSync(s) \/ FetchPage(s) \/ SkipPage(s) \/ GiveUp(s)
         \/ Upsert(s) \/ Reconcile(s) \/ Stop(s)
    \/ ShopChanges \/ OpenFeed \/ ReadOn

-----------------------------------------------------------------------------
(* Properties *)

\* Once a run that nothing disturbed has written, and until the shop changes or
\* a run that was disturbed writes, what is on sale is what the shop has in
\* stock, as far as the pages go.
CatalogFollowsShop ==
    settled => OnSale(row) = {shop[i] : i \in 1..Len(shop)} \ sold
               \/ Len(shop) > MaxPages

\* A walk through the feed shows nothing twice, and misses nothing that was on
\* sale all along, whatever runs write meanwhile.
WalkIsWhole ==
    /\ IsInjective(reader.got)
    /\ reader.at = "done" => reader.steady \subseteq ToSet(reader.got)
=============================================================================
