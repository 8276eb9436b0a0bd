--------------------------- MODULE ServerProcess ---------------------------
(***************************************************************************)
(* The process of the server, as ServerLife takes it to its end, and what  *)
(* nobody may see of it: a worker without its collector, or the end in the *)
(* middle of a transaction.                                                *)
(***************************************************************************)
EXTENDS Naturals

VARIABLES
    phase,      \* of main: "serving", "stopping", "closing", "down"
    worker,     \* per worker: "up", "forced" (told to stop at once), "gone"
    request,    \* per request: where it is, its worker, the connections to take
    has,        \* per request: the connections it has
    queue,      \* the requests that wait for a connection, in their order
    collector   \* the task of TokenStorage::new: "running", "cancelled", "dropped"

AllBack == \A r \in DOMAIN has : has[r] = 0

\* As long as a worker serves, the collector runs: a worker that ends first
\* does not cancel it under the others (lib.rs:46-50, 76-89).
CollectorOutlivesWorkers ==
    (\E w \in DOMAIN worker : worker[w] = "up") => collector = "running"

\* main returns only when no handler has a connection: the process does not
\* end in the middle of a transaction, requests of workers that were stopped
\* by the timeout included (main.rs:43-54).
NobodyCutOff == phase = "down" => AllBack
=============================================================================
