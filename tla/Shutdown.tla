------------------------------ MODULE Shutdown ------------------------------
(***************************************************************************)
(* The life of a server process (src/src/index.ts): start, service, and a  *)
(* shutdown that drains the HTTP connections, stops both workers, closes   *)
(* the database and exits, each wait bounded by a timer.  A handler goes   *)
(* on when its client is gone, and a worker's batch may never end.         *)
(***************************************************************************)
CONSTANTS
  Clients,  \* clients of the HTTP server, each with one connection
  Workers   \* the embedding and the consolidation worker

VARIABLES
  phase,     \* where the process is in its life
  code,      \* exit code so far
  conn,      \* client -> its connection
  handlers,  \* clients whose last request has a handler that is not done
  worker,    \* worker -> what it does
  pending    \* workers whose stop has not settled

vars == <<phase, code, conn, handlers, worker, pending>>

Phases == {"loading", "serving", "draining", "stopping", "exited", "crashed"}

-----------------------------------------------------------------------------
(* Service *)

\* main, once initEmbeddings has returned: the workers that could be set up run.
Start ==
  /\ phase = "loading"
  /\ phase' = "serving"
  /\ \E up \in SUBSET Workers :
       worker' = [w \in Workers |-> IF w \in up THEN "waiting" ELSE "off"]
  /\ UNCHANGED <<code, conn, handlers, pending>>

\* A new connection, or the next request on one kept alive.
Request(c) ==
  /\ \/ phase = "serving" /\ conn[c] = "none" /\ c \notin handlers
     \/ phase \in {"serving", "draining"} /\ conn[c] = "idle"
  /\ conn' = [conn EXCEPT ![c] = "busy"]
  /\ handlers' = handlers \cup {c}
  /\ UNCHANGED <<phase, code, worker, pending>>

Alive == phase \notin {"loading", "exited", "crashed"}

Respond(c) ==
  /\ Alive /\ c \in handlers
  /\ handlers' = handlers \ {c}
  /\ conn' = [conn EXCEPT ![c] = IF @ = "busy" THEN "idle" ELSE @]
  /\ UNCHANGED <<phase, code, worker, pending>>

\* The client goes away; what it asked for is still being done.
Disconnect(c) ==
  /\ Alive /\ conn[c] # "none"
  /\ conn' = [conn EXCEPT ![c] = "none"]
  /\ UNCHANGED <<phase, code, handlers, worker, pending>>

StartBatch(w) ==
  /\ Alive /\ worker[w] = "waiting"
  /\ worker' = [worker EXCEPT ![w] = "busy"]
  /\ UNCHANGED <<phase, code, conn, handlers, pending>>

\* The batch of a worker that is being stopped settles its stop.
EndBatch(w) ==
  /\ Alive /\ worker[w] = "busy"
  /\ worker' = [worker EXCEPT ![w] = IF w \in pending THEN "off" ELSE "waiting"]
  /\ pending' = pending \ {w}
  /\ UNCHANGED <<phase, code, conn, handlers>>

\* A batch rejects, say because the database stays locked: its stop takes note,
\* and without a stop nobody does, and Node ends the process.
BatchRejects(w) ==
  /\ Alive /\ worker[w] = "busy"
  /\ worker' = [worker EXCEPT ![w] = "off"]
  /\ pending' = pending \ {w}
  /\ code' = 1
  /\ phase' = IF w \in pending THEN phase ELSE "crashed"
  /\ UNCHANGED <<conn, handlers>>

-----------------------------------------------------------------------------
(* runGracefulShutdown *)

\* SIGINT, SIGTERM, or the failure of main; a second call of shutdown does nothing.
Shutdown(fatal) ==
  /\ IF fatal THEN phase = "loading" ELSE phase \in {"loading", "serving"}
  /\ phase' = "draining"
  /\ code' = IF fatal THEN 1 ELSE 0
  /\ UNCHANGED <<conn, handlers, worker, pending>>

\* closeIdleConnections, at once and every 100 ms.
Sweep ==
  /\ phase = "draining"
  /\ \E c \in Clients : conn[c] = "idle"
  /\ conn' = [c \in Clients |-> IF conn[c] = "idle" THEN "none" ELSE conn[c]]
  /\ UNCHANGED <<phase, code, handlers, worker, pending>>

\* Mutant: the connections that hold the drain up are left alone.
ClosedAs == {c \in Clients : conn[c] = "idle"}

\* closeAllConnections
Closed == Clients

\* SHUTDOWN_DRAIN_TIMEOUT_MS
DrainTimeout ==
  /\ phase = "draining" /\ \E c \in Clients : conn[c] # "none"
  /\ conn' = [c \in Clients |-> IF c \in Closed THEN "none" ELSE conn[c]]
  /\ UNCHANGED <<phase, code, handlers, worker, pending>>

\* Mutant: the drain waits for the answers that are due, and not for what follows.
DrainedAs == \A c \in Clients : conn[c] # "busy"

\* The callback of httpServer.close.
Drained == \A c \in Clients : conn[c] = "none"

\* Both workers are told to stop: none starts another batch.
StopWorkers ==
  /\ phase = "draining" /\ Drained
  /\ phase' = "stopping"
  /\ worker' = [w \in Workers |-> IF worker[w] = "waiting" THEN "off" ELSE worker[w]]
  /\ pending' = {w \in Workers : worker[w] = "busy"}
  /\ UNCHANGED <<code, conn, handlers>>

\* The database is closed, which may fail, and the process exits.
End(c) ==
  /\ phase' = "exited"
  /\ code' \in {c, 1}
  /\ UNCHANGED <<conn, handlers, worker, pending>>

WorkersStopped == phase = "stopping" /\ pending = {} /\ End(code)

TimedOutCode == 1

\* SHUTDOWN_WORKER_STOP_TIMEOUT_MS
StopTimeout == phase = "stopping" /\ pending # {} /\ End(TimedOutCode)

-----------------------------------------------------------------------------

Init ==
  /\ phase = "loading" /\ code = 0
  /\ conn = [c \in Clients |-> "none"] /\ handlers = {}
  /\ worker = [w \in Workers |-> "off"] /\ pending = {}

Step == Sweep \/ DrainTimeout \/ StopWorkers \/ WorkersStopped \/ StopTimeout

Next ==
  \/ Start \/ Step
  \/ \E fatal \in BOOLEAN : Shutdown(fatal)
  \/ \E c \in Clients : Request(c) \/ Respond(c) \/ Disconnect(c)
  \/ \E w \in Workers : StartBatch(w) \/ EndBatch(w) \/ BatchRejects(w)

Spec == Init /\ [][Next]_vars

\* Timers fire and callbacks are called; no handler, client or batch needs to end.
Fairness ==
  /\ WF_vars(DrainTimeout) /\ WF_vars(StopWorkers)
  /\ WF_vars(WorkersStopped) /\ WF_vars(StopTimeout)

-----------------------------------------------------------------------------
(* Properties *)

\* Every variable has its type.
TypeOK ==
  /\ phase \in Phases /\ code \in {0, 1}
  /\ conn \in [Clients -> {"none", "idle", "busy"}] /\ handlers \subseteq Clients
  /\ worker \in [Workers -> {"off", "waiting", "busy"}] /\ pending \subseteq Workers

\* The database is closed under no client that still waits for an answer, and a
\* process that reports success cut off no batch of a worker and lost no failure.
CleanExit ==
  /\ phase = "exited" => \A c \in Clients : conn[c] = "none"
  /\ phase = "exited" /\ code = 0 => \A w \in Workers : worker[w] = "off"

\* A shutdown ends, though clients, handlers and batches may hang.
ShutdownEnds == phase = "draining" ~> phase \in {"exited", "crashed"}

=============================================================================
