----------------------------- MODULE ServerLife -----------------------------
(***************************************************************************)
(* The parts of the server put together (server/src/main.rs and app.rs,    *)
(* app_state, the head of token_storage) and their end: workers that share *)
(* one AppState, the pool they take connections from, the task that        *)
(* collects expired tokens, and main, which waits for the server, closes   *)
(* the pool and returns.                                                   *)
(*                                                                         *)
(* A handler takes a connection, works with it, gives it back, and may     *)
(* take another; what it does with one is in the other modules.            *)
(***************************************************************************)
EXTENDS ServerProcess, Sequences, FiniteSets, SequencesExt

CONSTANTS
    Workers,
    Requests,
    Connections,  \* the size of the pool (10 is the default of sqlx)
    MaxTakes      \* the most connections a handler takes, one after another

ASSUME ServerLifeAssumption ==
    /\ Workers # {} /\ Connections \in Nat \ {0} /\ MaxTakes \in Nat \ {0}

vars == <<phase, worker, request, has, queue, collector>>

\* Each connection that is lent, as the how-manieth of whose.
Lent == UNION {{r} \X (1..has[r]) : r \in Requests}
Busy == {r \in Requests : request[r].at \in {"working", "waiting"}}
Closed == phase \in {"closing", "down"}

TypeOK ==
    /\ phase \in {"serving", "stopping", "closing", "down"}
    /\ worker \in [Workers -> {"up", "forced", "gone"}]
    /\ request \in [Requests -> [at : {"none"}] \cup
          [at : {"working", "waiting", "answered", "failed", "dropped"},
           worker : Workers, takes : 0..MaxTakes]]
    /\ collector \in {"running", "cancelled", "dropped"}
    /\ queue \in Seq(Requests) /\ IsInjective(queue)
    /\ ToSet(queue) = {r \in Requests : request[r].at = "waiting"}
    /\ has \in [Requests -> 0..MaxTakes] /\ Cardinality(Lent) <= Connections
    /\ \A r \in Requests \ Busy : has[r] = 0

Moves(r, at) == request' = [request EXCEPT ![r].at = at]

-----------------------------------------------------------------------------
(* Requests and the pool.                                                  *)

\* On a new connection, or on one that is kept alive after the signal.
Arrive(r, w, takes) ==
    /\ phase \in {"serving", "stopping"} /\ worker[w] = "up" /\ request[r].at = "none"
    /\ request' = [request EXCEPT ![r] = [at |-> "working", worker |-> w, takes |-> takes]]
    /\ UNCHANGED <<phase, worker, has, queue, collector>>

Asks(r) ==
    /\ request[r].at = "working" /\ request[r].takes > 0
    /\ IF Closed THEN Moves(r, "failed") /\ has' = [has EXCEPT ![r] = 0] /\ UNCHANGED queue
       ELSE Moves(r, "waiting") /\ queue' = Append(queue, r) /\ UNCHANGED has
    /\ UNCHANGED <<phase, worker, collector>>

\* Mutant: a handler asks the pool again while it is in a transaction.
AskNested(r) == Asks(r)

\* pool.acquire() or pool.begin(); a closed pool refuses.
Ask(r) == has[r] = 0 /\ Asks(r)

\* A connection of an open pool is free for the one that has waited longest.
Grant ==
    /\ queue # <<>> /\ Cardinality(Lent) < Connections /\ ~ Closed
    /\ LET r == Head(queue)
       IN  /\ request' = [request EXCEPT ![r] =
                             [request[r] EXCEPT !.at = "working",
                                                !.takes = request[r].takes - 1]]
           /\ has' = [has EXCEPT ![r] = @ + 1]
    /\ queue' = Tail(queue)
    /\ UNCHANGED <<phase, worker, collector>>

\* The transaction ends and the connection goes back, before the next is
\* asked for and before the answer.
GiveBack(r) ==
    /\ request[r].at = "working" /\ has[r] > 0
    /\ has' = [has EXCEPT ![r] = 0]
    /\ UNCHANGED <<phase, worker, request, queue, collector>>

AnswerIt(r) ==
    /\ request[r].at = "working" /\ request[r].takes = 0 /\ has[r] = 0
    /\ Moves(r, "answered")
    /\ UNCHANGED <<phase, worker, has, queue, collector>>

\* The request ends without an answer of its handler: what it has goes back.
Abandon(r, at) ==
    /\ Moves(r, at)
    /\ has' = [has EXCEPT ![r] = 0]
    /\ queue' = IF r \in ToSet(queue)
                THEN RemoveAt(queue, CHOOSE i \in DOMAIN queue : queue[i] = r)
                ELSE queue
    /\ UNCHANGED <<phase, worker, collector>>

\* The 30 seconds of acquire_timeout pass.
TimeOut(r) == request[r].at = "waiting" /\ Abandon(r, "failed")

-----------------------------------------------------------------------------
(* The end.                                                                *)

\* SIGTERM or SIGINT: no new connections.
Signal ==
    /\ phase = "serving"
    /\ phase' = "stopping"
    /\ UNCHANGED <<worker, request, has, queue, collector>>

\* Who keeps the TokenStorageInner alive: the AppState, through the clone of
\* its web::Data that each worker has and the one in the closure of the
\* server, and the clone of the storage the collector's task has itself.
Holders(ws, serverUp) ==
    {w \in Workers : ws[w] # "gone"}
      \cup (IF serverUp THEN {"HttpServer"} ELSE {})
      \cup (IF collector = "running" THEN {"task_storage"} ELSE {})

\* Mutant: an AppState for each worker, and Drop for TokenStorage, so that the
\* first clone that goes cancels.
DroppedWithAny(ws, serverUp) ==
    IF \E w \in Workers : ws[w] = "gone" THEN "cancelled" ELSE collector

\* Drop for TokenStorageInner: cancel_token.cancel().
Dropped(ws, serverUp) ==
    IF Holders(ws, serverUp) = {} THEN "cancelled" ELSE collector

Ends(w) ==
    LET ws == [worker EXCEPT ![w] = "gone"]
    IN  /\ worker' = ws
        /\ collector' = Dropped(ws, ~ Closed)

\* A worker that has answered all its requests, or had to let them go.
WorkerEnds(w) ==
    /\ phase # "serving" /\ worker[w] # "gone"
    /\ \A r \in Busy : request[r].worker # w
    /\ Ends(w)
    /\ UNCHANGED <<phase, request, has, queue>>

\* shutdown_timeout: the worker reports that it ends, its requests are let go.
StopByForce(w) ==
    /\ phase = "stopping" /\ worker[w] = "up"
    /\ worker' = [worker EXCEPT ![w] = "forced"]
    /\ UNCHANGED <<phase, request, has, queue, collector>>

LetGo(r) ==
    /\ r \in Busy /\ worker[request[r].worker] = "forced"
    /\ Abandon(r, "dropped")

\* http_server(..)?.await returns, pool.close() starts and turns away who waits.
ServerEnds ==
    /\ phase = "stopping"
    /\ \A w \in Workers : worker[w] # "up"
    /\ phase' = "closing"
    /\ request' = [r \in Requests |->
                     IF request[r].at = "waiting" THEN [request[r] EXCEPT !.at = "failed"]
                     ELSE request[r]]
    /\ queue' = <<>>
    /\ collector' = Dropped(worker, FALSE)
    /\ UNCHANGED <<worker, has>>

\* Mutant: main does not wait for the pool.
ReturnAtOnce ==
    /\ phase = "closing"
    /\ phase' = "down" /\ collector' = "dropped"
    /\ UNCHANGED <<worker, request, has, queue>>

\* Mutant: main waits for the collector's task to see its cancellation.
ReturnJoined ==
    /\ phase = "closing" /\ AllBack /\ collector # "running"
    /\ phase' = "down"
    /\ UNCHANGED <<worker, request, has, queue, collector>>

\* pool.close().await: every connection is back.  main returns, its runtime
\* goes, and with it the task.
Return ==
    /\ phase = "closing" /\ AllBack
    /\ phase' = "down" /\ collector' = "dropped"
    /\ UNCHANGED <<worker, request, has, queue>>

-----------------------------------------------------------------------------
Init ==
    /\ phase = "serving"
    /\ worker = [w \in Workers |-> "up"]
    /\ request = [r \in Requests |-> [at |-> "none"]]
    /\ has = [r \in Requests |-> 0]
    /\ queue = <<>>
    /\ collector = "running"

Work(r) == Ask(r) \/ GiveBack(r) \/ AnswerIt(r)

Next ==
    \/ \E r \in Requests, w \in Workers, n \in 0..MaxTakes : Arrive(r, w, n)
    \/ \E r \in Requests : Work(r) \/ TimeOut(r) \/ LetGo(r)
    \/ Grant
    \/ Signal \/ ServerEnds \/ Return
    \/ \E w \in Workers : WorkerEnds(w) \/ StopByForce(w)

\* Handlers and the pool go on, and once told to, workers and main end.
\* Every request of Requests arrives once at most, so that nothing needs a
\* timeout; a client that never stopped asking would need shutdown_timeout.
Spec ==
    /\ Init /\ [][Next]_vars
    /\ WF_vars(Grant) /\ WF_vars(ServerEnds) /\ WF_vars(Return)
    /\ \A r \in Requests : WF_vars(Work(r)) /\ WF_vars(LetGo(r))
    /\ \A w \in Workers : WF_vars(WorkerEnds(w))

-----------------------------------------------------------------------------
(* Properties, beside those of ServerProcess.                              *)

\* However few the connections are, handlers never wait for one another for
\* good: none asks for a connection while it has one.
RequestsAreAnswered ==
    \A r \in Requests : (r \in Busy) ~> (r \notin Busy)

\* The server comes to an end once it is told to, and the collector's task
\* with it, although the task holds the storage whose Drop would cancel it.
ShutdownCompletes == (phase = "stopping") ~> (phase = "down" /\ collector # "running")

=============================================================================
