---------------------------- MODULE Orchestrator ----------------------------
(***************************************************************************)
(* The life of the orchestrator process (cmd/orchestrator/main.go): the    *)
(* order in which main builds its parts, the ways in which start-up ends   *)
(* early, the servers and the calls they have in progress, and the         *)
(* shutdown, with the deferred calls in reverse order.  The node registry  *)
(* runs inside it; the engine is reduced to the state of each run and is   *)
(* modelled in full by module Engine.                                      *)
(***************************************************************************)
EXTENDS NodeRegistry, Sequences

CONSTANTS
  Runs,       \* run IDs
  Self,       \* the process's own node ID, a member of Nodes
  MaxOutages  \* bound on the changes of Postgres' and Redis' reachability

ASSUME OrchestratorAssumptions == Self \in Nodes /\ MaxOutages \in Nat

VARIABLES
  stage,    \* where main is, or how the process ended
  backend,  \* the store main chose
  bus,      \* the event bus
  engine,   \* the execution engine
  grpc,     \* the gRPC server
  rest,     \* the HTTP server
  up,       \* which of Postgres and Redis are reachable
  outages,
  run,      \* per run: its state as main sees it
  polls,    \* runs whose VM has a GetCommand call waiting
  stream,   \* a client holds a telemetry stream open
  http      \* a REST request is being served

backendVars == <<backend, bus, up, outages>>
callVars == <<polls, stream, http>>
vars == <<nodeVars, stage, backendVars, engine, grpc, rest, run, callVars>>

Ended == {"exited", "refused", "fatal", "killed", "panicked"}
StartUp == {"load", "tracer", "bus", "store", "recover", "engine", "listen", "gateway", "nodes", "summary"}
Stopping == {"shutdown", "stop engine", "close store", "close bus"}

\* The process starts; runs may be unfinished in Postgres from an earlier one.
Init ==
  /\ NewNodeRegistry
  /\ stage = "load"
  /\ backend = "none" /\ bus = "none" /\ engine = "none"
  /\ grpc = "none" /\ rest = "none"
  /\ up \in SUBSET {"postgres", "redis"} /\ outages = 0
  /\ run \in [Runs -> {"none", "stored"}]
  /\ polls = {} /\ stream = FALSE /\ http = FALSE

----------------------------------------------------------------------------
(* Start-up                                                                *)

\* The devices file, the global configuration or the logger may be at fault.
LoadConfig ==
  /\ stage = "load"
  /\ stage' \in {"tracer", "refused"}
  /\ UNCHANGED <<nodeVars, backendVars, engine, grpc, rest, run, callVars>>

\* The exporter may not be created: Fatal.
InitTracer ==
  /\ stage = "tracer"
  /\ stage' \in {"bus", "fatal"}
  /\ UNCHANGED <<nodeVars, backendVars, engine, grpc, rest, run, callVars>>

\* An unreachable Redis disables the bus for the life of the process.
NewEventBus ==
  /\ stage = "bus"
  /\ bus' = IF "redis" \in up THEN "enabled" ELSE "disabled"
  /\ stage' = "store"
  /\ UNCHANGED <<nodeVars, backend, up, outages, engine, grpc, rest, run, callVars>>

\* -storage=postgres falls back to memory; -storage=memory asks for it.
OpenStore ==
  /\ stage = "store"
  /\ backend' \in IF "postgres" \in up THEN {"postgres", "memory"} ELSE {"memory"}
  /\ stage' = "recover"
  /\ UNCHANGED <<nodeVars, bus, up, outages, engine, grpc, rest, run, callVars>>

\* RecoverState enqueues what the store has; its error is only logged.
Recover ==
  /\ stage = "recover"
  /\ run' = [r \in Runs |-> IF run[r] = "stored" /\ backend = "postgres" /\ "postgres" \in up
                              THEN "queued" ELSE run[r]]
  /\ stage' = "engine"
  /\ UNCHANGED <<nodeVars, backendVars, engine, grpc, rest, callVars>>

\* The engine executes recovered runs from here on.
StartEngine ==
  /\ stage = "engine"
  /\ engine' = "on"
  /\ stage' = "listen"
  /\ UNCHANGED <<nodeVars, backendVars, grpc, rest, run, callVars>>

\* net.Listen fails: Fatal.  Otherwise a goroutine will call Serve.
Listen ==
  /\ stage = "listen"
  /\ \/ stage' = "fatal" /\ UNCHANGED grpc
     \/ stage' = "gateway" /\ grpc' = "starting"
  /\ UNCHANGED <<nodeVars, backendVars, engine, rest, run, callVars>>

RegisterGateway ==
  /\ stage = "gateway"
  /\ stage' \in {"nodes", "fatal"}
  /\ UNCHANGED <<nodeVars, backendVars, engine, grpc, rest, run, callVars>>

\* The process registers itself, once, and starts RunEviction and the HTTP server's goroutine.
RegisterSelf ==
  /\ stage = "nodes"
  /\ nodes' = [nodes EXCEPT ![Self] = [status |-> "healthy", LastSeen |-> now]]
  /\ RunEviction
  /\ rest' = "starting"
  /\ stage' = "summary"
  /\ UNCHANGED <<backendVars, engine, grpc, run, callVars>>

\* main logs its summary and calls signal.Notify.
NotifySignals ==
  /\ stage = "summary"
  /\ stage' = "serving"
  /\ UNCHANGED <<nodeVars, backendVars, engine, grpc, rest, run, callVars>>

\* The goroutine calls Serve, which returns when it cannot accept, or ErrServerStopped when
\* it is called after GracefulStop.  Either is Fatal.
Serve ==
  /\ \/ grpc = "starting" /\ grpc' = "serving" /\ UNCHANGED stage
     \/ grpc \in {"serving", "closed"} /\ grpc' = "stopped" /\ stage' = "fatal"
  /\ UNCHANGED <<nodeVars, backendVars, engine, rest, run, callVars>>

\* The goroutine calls ListenAndServe.  ErrServerClosed is fine; another error, of listening
\* (also when Shutdown comes just before it) or of accepting, is Fatal.
ListenAndServe ==
  /\ \/ rest = "starting" /\ rest' = "serving" /\ UNCHANGED stage
     \/ rest = "closed" /\ rest' = "stopped" /\ UNCHANGED stage
     \/ rest \in {"starting", "closed", "serving"} /\ rest' = "stopped" /\ stage' = "fatal"
  /\ UNCHANGED <<nodeVars, backendVars, engine, grpc, run, callVars>>

----------------------------------------------------------------------------
(* Calls and runs while the process is up                                  *)

AcceptsCalls == grpc = "serving"

Readyz ==
  /\ backend = "postgres" => "postgres" \in up
  /\ bus = "enabled" /\ "redis" \in up

\* SubmitTestRun has stored the run and has not enqueued it yet.
SubmitArrives(r) ==
  /\ AcceptsCalls
  /\ run[r] = "none"
  /\ run' = [run EXCEPT ![r] = "submitting"]
  /\ UNCHANGED <<nodeVars, stage, backendVars, engine, grpc, rest, callVars>>

SubmitReturns(r) ==
  /\ run[r] = "submitting"
  /\ run' = [run EXCEPT ![r] = "queued"]
  /\ UNCHANGED <<nodeVars, stage, backendVars, engine, grpc, rest, callVars>>

Dispatch(r) ==
  /\ engine \in {"on", "stopping"}
  /\ run[r] = "queued"
  /\ run' = [run EXCEPT ![r] = "executing"]
  /\ UNCHANGED <<nodeVars, stage, backendVars, engine, grpc, rest, callVars>>

\* The VM of the run is unregistered by then.
RunEnds(r) ==
  /\ run[r] = "executing"
  /\ run' = [run EXCEPT ![r] = "done"]
  /\ UNCHANGED <<nodeVars, stage, backendVars, engine, grpc, rest, callVars>>

\* No resources: the execution returns and leaves a goroutine that will enqueue the run.
RunDefers(r) ==
  /\ run[r] = "executing"
  /\ r \notin polls
  /\ run' = [run EXCEPT ![r] = "deferred"]
  /\ UNCHANGED <<nodeVars, stage, backendVars, engine, grpc, rest, callVars>>

\* Enqueue panics once the scheduler is closed.
DeferredEnqueues(r) ==
  /\ run[r] = "deferred"
  /\ IF engine = "on"
       THEN run' = [run EXCEPT ![r] = "queued"] /\ UNCHANGED stage
       ELSE stage' = "panicked" /\ UNCHANGED run
  /\ UNCHANGED <<nodeVars, backendVars, engine, grpc, rest, callVars>>

\* A guest agent asks for its next command.
GetCommandArrives(r) ==
  /\ AcceptsCalls
  /\ run[r] = "executing"
  /\ r \notin polls
  /\ polls' = polls \cup {r}
  /\ UNCHANGED <<nodeVars, stage, backendVars, engine, grpc, rest, run, stream, http>>

\* Mutant: the end of the VM does not wake the call.
GetCommandWaitsForCommand(r) ==
  /\ r \in polls
  /\ run[r] = "executing"
  /\ polls' = polls \ {r}
  /\ UNCHANGED <<nodeVars, stage, backendVars, engine, grpc, rest, run, stream, http>>

\* It has a command, or its VM is gone.
GetCommandReturns(r) ==
  /\ r \in polls
  /\ polls' = polls \ {r}
  /\ UNCHANGED <<nodeVars, stage, backendVars, engine, grpc, rest, run, stream, http>>

\* A telemetry stream ends when its client ends it.
StreamChanges ==
  /\ AcceptsCalls \/ stream
  /\ stream' = ~stream
  /\ UNCHANGED <<nodeVars, stage, backendVars, engine, grpc, rest, run, polls, http>>

\* A request whose handler runs; no time-out bounds how long its client takes to send it.
RequestArrives ==
  /\ rest = "serving" /\ ~http
  /\ http' = TRUE
  /\ UNCHANGED <<nodeVars, stage, backendVars, engine, grpc, rest, run, polls, stream>>

\* The handler of another request, or of a heartbeat it refuses, returns.
RequestReturns ==
  /\ http
  /\ http' = FALSE
  /\ UNCHANGED <<nodeVars, stage, backendVars, engine, grpc, rest, run, polls, stream>>

\* The request was POST /cluster/heartbeat of another node, and could be decoded.
Heartbeat(n) ==
  /\ http
  /\ n # Self
  /\ Register(n)
  /\ http' = FALSE
  /\ UNCHANGED <<stage, backendVars, engine, grpc, rest, run, polls, stream>>

BackendChanges(b) ==
  /\ outages < MaxOutages
  /\ outages' = outages + 1
  /\ up' = IF b \in up THEN up \ {b} ELSE up \cup {b}
  /\ UNCHANGED <<nodeVars, stage, backend, bus, engine, grpc, rest, run, callVars>>

----------------------------------------------------------------------------
(* Shutdown                                                                *)

\* A signal before signal.Notify has its default effect, even if both servers serve.
SignalKills ==
  /\ stage \in StartUp
  /\ stage' = "killed"
  /\ UNCHANGED <<nodeVars, backendVars, engine, grpc, rest, run, callVars>>

\* The signal main waits for; GracefulStop refuses new calls.  Later ones are ignored.
Signal ==
  /\ stage = "serving"
  /\ stage' = "draining"
  /\ grpc' = IF grpc = "starting" THEN "closed" ELSE "stopped"
  /\ UNCHANGED <<nodeVars, backendVars, engine, rest, run, callVars>>

\* What GracefulStop waits for.
Drained == (\A r \in Runs : run[r] # "submitting") /\ polls = {} /\ ~stream

\* Mutant: the HTTP server is not shut down.
GracefulStopOnly ==
  /\ stage = "draining"
  /\ Drained
  /\ stage' = "shutdown"
  /\ UNCHANGED <<nodeVars, backendVars, engine, grpc, rest, run, callVars>>

\* GracefulStop returns; Shutdown closes the HTTP listener.
GracefulStop ==
  /\ stage = "draining"
  /\ Drained
  /\ stage' = "shutdown"
  /\ rest' = IF rest = "starting" THEN "closed" ELSE "stopped"
  /\ UNCHANGED <<nodeVars, backendVars, engine, grpc, run, callVars>>

\* Mutant: Close in place of Shutdown, which does not wait for requests.
ShutdownAtOnce ==
  /\ stage = "shutdown"
  /\ stage' = "stop engine"
  /\ StopEviction
  /\ UNCHANGED <<backendVars, engine, grpc, rest, run, callVars>>

\* Shutdown returns; the deferred cancel ends RunEviction.
Shutdown ==
  /\ stage = "shutdown"
  /\ ~http
  /\ stage' = "stop engine"
  /\ StopEviction
  /\ UNCHANGED <<backendVars, engine, grpc, rest, run, callVars>>

\* engine.Stop cancels the context and closes the scheduler ...
StopEngine ==
  /\ stage = "stop engine"
  /\ engine = "on"
  /\ engine' = "stopping"
  /\ UNCHANGED <<nodeVars, stage, backendVars, grpc, rest, run, callVars>>

\* ... the worker leaves when it finds it closed ...
WorkerExits ==
  /\ engine = "stopping"
  /\ engine' = "closed"
  /\ UNCHANGED <<nodeVars, stage, backendVars, grpc, rest, run, callVars>>

\* Mutant: Stop does not wait for the executions.
EngineIdleAtOnce == engine = "closed"

EngineIdle == engine = "closed" /\ \A r \in Runs : run[r] # "executing"

\* ... and Stop waits for the executions.
EngineStopped ==
  /\ stage = "stop engine"
  /\ EngineIdle
  /\ stage' = "close store"
  /\ UNCHANGED <<nodeVars, backendVars, engine, grpc, rest, run, callVars>>

CloseStore ==
  /\ stage = "close store"
  /\ backend' = "closed"
  /\ stage' = "close bus"
  /\ UNCHANGED <<nodeVars, bus, up, outages, engine, grpc, rest, run, callVars>>

CloseBus ==
  /\ stage = "close bus"
  /\ bus' = "closed"
  /\ stage' = "exited"
  /\ UNCHANGED <<nodeVars, backend, up, outages, engine, grpc, rest, run, callVars>>

----------------------------------------------------------------------------

Main ==
  \/ LoadConfig \/ InitTracer \/ NewEventBus \/ OpenStore \/ Recover \/ StartEngine \/ Listen
  \/ RegisterGateway \/ RegisterSelf \/ NotifySignals \/ GracefulStop \/ Shutdown \/ StopEngine
  \/ EngineStopped \/ CloseStore \/ CloseBus

Goroutines(r) ==
  \/ SubmitReturns(r) \/ Dispatch(r) \/ RunEnds(r) \/ RunDefers(r) \/ DeferredEnqueues(r)

Clients ==
  \/ \E r \in Runs : SubmitArrives(r) \/ GetCommandArrives(r)
  \/ StreamChanges \/ RequestArrives \/ RequestReturns
  \/ \E n \in Nodes : Heartbeat(n)

Next ==
  /\ stage \notin Ended
  /\ \/ Main \/ Serve \/ ListenAndServe \/ WorkerExits \/ Clients
     \/ \E r \in Runs : Goroutines(r) \/ GetCommandReturns(r)
     \/ SignalKills \/ Signal
     \/ \E b \in {"postgres", "redis"} : BackendChanges(b)
     \/ (Evict \/ TimePasses) /\ UNCHANGED <<stage, backendVars, engine, grpc, rest, run, callVars>>

\* main and its goroutines run; runs end (runCtx has a deadline) and so do the waits for a
\* command of a VM that is gone.  Clients, and with them the requests they send, signals
\* and backends owe nothing.
Fairness ==
  /\ WF_vars(stage \notin Ended /\ (Main \/ WorkerExits))
  /\ \A r \in Runs : /\ WF_vars(stage \notin Ended /\ SubmitReturns(r))
                     /\ WF_vars(stage \notin Ended /\ RunEnds(r))
                     /\ WF_vars(stage \notin Ended /\ run[r] # "executing" /\ GetCommandReturns(r))

Spec == Init /\ [][Next]_vars /\ Fairness

----------------------------------------------------------------------------
(* Properties                                                              *)

\* A run that executes, or a call that submits one, has a store and an event bus that main
\* has opened and not closed, however start-up and shutdown interleave with it.
BackendsOutliveTheirUsers ==
  (\E r \in Runs : run[r] \in {"submitting", "executing"}) =>
     backend \in {"memory", "postgres"} /\ bus \in {"enabled", "disabled"}

\* /readyz answers 200 without a gRPC server that takes calls only before its goroutine
\* has started and while the process drains.
ReadyMeansServing ==
  stage \notin Ended /\ rest = "serving" /\ Readyz => AcceptsCalls \/ grpc = "starting" \/ stage = "draining"

\* A process exits with no call, request, execution or eviction in progress, whatever was
\* in progress when the signal came; and Fatal cuts a shutdown short past GracefulStop only
\* if the goroutine of a server had not begun to serve when that server was stopped.
ExitsInOrder ==
  [][/\ stage' = "exited" => /\ \A r \in Runs : run[r] \notin {"submitting", "executing"}
                             /\ polls = {} /\ ~stream /\ ~http /\ ~evicting
     /\ stage \in Stopping /\ stage' = "fatal" => "closed" \in {grpc, rest}]_vars

\* A shutdown ends, unless one client keeps its telemetry stream or its request open for
\* ever: nothing bounds the waits of GracefulStop and Shutdown.
ShutdownCompletes == stage = "draining" ~> stage \in Ended \/ []stream \/ []http
=============================================================================
