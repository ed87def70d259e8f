------------------------------ MODULE Shutdown ------------------------------
(***************************************************************************)
(* The start and the end of one process (server.ts, lib/shutdown.ts): a    *)
(* signal stops the crons, warns the clients, closes the sockets, the HTTP *)
(* connections and the pool, and exits; a watchdog exits when that stalls. *)
(***************************************************************************)
EXTENDS Naturals

CONSTANT Works   \* slots of requests, events and cron runs at work

VARIABLES
    process,    \* how far it has started, and how it has ended
    step,       \* the step of the shutdown that comes next
    watchdog,   \* the timer is set
    cron,       \* the crons are scheduled
    clients,    \* sockets and connections are open
    pool,       \* the pool takes queries, is draining, or is closed
    work        \* what each slot does: in a query, or between two

shutdownVars == <<process, step, watchdog, cron, clients, pool, work>>

Ended == {"clean", "forced", "killed"}

TypeOK ==
    /\ process \in {"boot", "up"} \cup Ended
    /\ step \in {"none", "http", "crons", "warn", "io", "connections", "pool", "exit"}
    /\ watchdog \in BOOLEAN /\ cron \in BOOLEAN /\ clients \in BOOLEAN
    /\ pool \in {"open", "draining", "closed"}
    /\ work \in [Works -> {"idle", "query", "between"}]
    /\ watchdog <=> step # "none"

Init ==
    /\ process = "boot" /\ step = "none"
    /\ watchdog = FALSE /\ cron = FALSE /\ clients = FALSE
    /\ pool = "open"
    /\ work = [w \in Works |-> "idle"]

-----------------------------------------------------------------------------
(* server.ts *)

\* The server listens, the crons are scheduled, the signals get their handler.
Listen ==
    /\ process = "boot"
    /\ process' = "up" /\ cron' = TRUE /\ clients' = TRUE
    /\ UNCHANGED <<step, watchdog, pool, work>>

\* Before that a failure or a signal ends the process at once.
DieYoung ==
    /\ process = "boot"
    /\ process' = "killed"
    /\ UNCHANGED <<step, watchdog, cron, clients, pool, work>>

\* A client, an open connection too, or a cron starts something.
Begin(w) ==
    /\ process = "up" /\ work[w] = "idle"
    /\ clients \/ cron
    /\ work' = [work EXCEPT ![w] = "between"]
    /\ UNCHANGED <<process, step, watchdog, cron, clients, pool>>

\* The pool refuses a query once it is ending: the work fails.
Query(w) ==
    /\ process = "up" /\ work[w] = "between"
    /\ work' = [work EXCEPT ![w] = IF pool = "open" THEN "query" ELSE "idle"]
    /\ UNCHANGED <<process, step, watchdog, cron, clients, pool>>

QueryEnds(w) ==
    /\ process = "up" /\ work[w] = "query"
    /\ \E next \in {"between", "idle"} : work' = [work EXCEPT ![w] = next]
    /\ UNCHANGED <<process, step, watchdog, cron, clients, pool>>

-----------------------------------------------------------------------------
(* registerShutdownSignals *)

\* A second signal is ignored.
Signal ==
    /\ process = "up" /\ step = "none"
    /\ step' = "http" /\ watchdog' = TRUE
    /\ UNCHANGED <<process, cron, clients, pool, work>>

Working == <<process, watchdog, work>>

\* The server takes no new connection; those that are open stay.
CloseHttp ==
    /\ process = "up" /\ step = "http"
    /\ step' = "crons"
    /\ UNCHANGED <<cron, clients, pool, Working>>

StopCrons ==
    /\ process = "up" /\ step = "crons"
    /\ cron' = FALSE /\ step' = "warn"
    /\ UNCHANGED <<clients, pool, Working>>

\* server:shutdown, and five seconds for the clients to go elsewhere.
WarnClients ==
    /\ process = "up" /\ step = "warn"
    /\ step' = "io"
    /\ UNCHANGED <<cron, clients, pool, Working>>

\* io.close calls back in its own time, if ever.
CloseSockets ==
    /\ process = "up" /\ step = "io"
    /\ step' = "connections"
    /\ UNCHANGED <<cron, clients, pool, Working>>

CloseConnections ==
    /\ process = "up" /\ step = "connections"
    /\ clients' = FALSE /\ step' = "pool"
    /\ UNCHANGED <<cron, pool, Working>>

\* pool.end refuses what is new and waits for the queries it has given out.
EndPool ==
    /\ process = "up" /\ step = "pool" /\ pool = "open"
    /\ pool' = "draining"
    /\ UNCHANGED <<step, cron, clients, Working>>

\* Mutant: the pool does not wait for its queries.
PoolEndsAtOnce ==
    /\ process = "up" /\ step = "pool" /\ pool = "draining"
    /\ pool' = "closed" /\ step' = "exit"
    /\ UNCHANGED <<cron, clients, Working>>

PoolEnds ==
    /\ process = "up" /\ step = "pool" /\ pool = "draining"
    /\ \A w \in Works : work[w] # "query"
    /\ pool' = "closed" /\ step' = "exit"
    /\ UNCHANGED <<cron, clients, Working>>

Exit ==
    /\ process = "up" /\ step = "exit"
    /\ process' = "clean"
    /\ UNCHANGED <<step, watchdog, cron, clients, pool, work>>

\* Mutant: the watchdog is cleared once the sockets are closing.
ForceBefore ==
    /\ process = "up" /\ watchdog
    /\ step = "warn"
    /\ process' = "forced"
    /\ UNCHANGED <<step, watchdog, cron, clients, pool, work>>

\* Ten seconds after the signal.
Force ==
    /\ process = "up" /\ watchdog
    /\ step \notin {"http", "crons", "warn"}
    /\ process' = "forced"
    /\ UNCHANGED <<step, watchdog, cron, clients, pool, work>>

Next ==
    \/ Listen \/ DieYoung
    \/ \E w \in Works : Begin(w) \/ Query(w) \/ QueryEnds(w)
    \/ Signal \/ CloseHttp \/ StopCrons \/ WarnClients \/ CloseSockets \/ CloseConnections
    \/ EndPool \/ PoolEnds \/ Exit \/ Force

\* The handler goes on by itself up to the close of the sockets, and a timer
\* that is set goes off; the closes themselves and the queries may hang.
Fairness == WF_shutdownVars(CloseHttp \/ StopCrons \/ WarnClients) /\ WF_shutdownVars(Force)

-----------------------------------------------------------------------------
(* Properties *)

\* A process that is told to stop stops, whatever hangs; and when it says it
\* stopped cleanly, no query was cut off.
EndsWhenTold ==
    /\ step = "http" ~> process \in Ended
    /\ [](process = "clean" => \A w \in Works : work[w] # "query")
=============================================================================
