------------------------- MODULE OrchestratorProofs -------------------------
(***************************************************************************)
(* Proofs about Orchestrator.tla and NodeRegistry.tla, for any number of   *)
(* runs, nodes and outages and any heartbeat TTL.                          *)
(*                                                                         *)
(* PartsInStep ties the state of every part of the process to the place    *)
(* main has reached, CallsInStep the runs and calls; a process that ended  *)
(* early stays as it was.  The registry needs a bound on the next tick of  *)
(* the eviction timer that holds between ticks (TickInTime).               *)
(***************************************************************************)
EXTENDS Orchestrator, TLAPS

\* From one stage of main to another, in the order main goes through them.
BeforeStore == {"load", "tracer", "bus", "store"}
BeforeListen == {"load", "tracer", "bus", "store", "recover", "engine", "listen"}
BeforeREST == BeforeListen \cup {"gateway", "nodes"}
Listening == {"gateway", "nodes", "summary", "serving"}
Closing == {"close store", "close bus"}

Stages == StartUp \cup {"serving", "draining"} \cup Stopping \cup Ended

\* The shape of the state.
OrchTypeOK ==
  /\ stage \in Stages
  /\ run \in [Runs -> {"none", "stored", "submitting", "queued", "executing", "deferred", "done"}]
  /\ nodes \in [Nodes -> [status : {"absent", "healthy", "offline"}, LastSeen : Nat]]
  /\ now \in Nat
  /\ nextTick \in Nat
  /\ evicting \in BOOLEAN

\* The parts main has built and not stopped.
PartsInStep ==
  /\ stage \notin Ended \cup {"load", "tracer", "bus"} => bus \in {"enabled", "disabled"}
  /\ stage \notin Ended \cup BeforeStore \cup {"close bus"} => backend \in {"memory", "postgres"}
  /\ stage \in BeforeListen \ {"listen"} => engine = "none"
  /\ stage \in Closing => engine = "closed"
  /\ stage \in BeforeListen => grpc = "none"
  /\ stage \in Listening => grpc \in {"starting", "serving"}
  /\ stage \in {"draining"} \cup Stopping => grpc \in {"closed", "stopped"}
  /\ stage \in BeforeREST => rest = "none" /\ ~evicting /\ ~http
  /\ stage \in {"summary", "serving", "draining"} => rest \in {"starting", "serving"}
  /\ stage \in Stopping => rest \in {"closed", "stopped"} /\ polls = {} /\ ~stream
  /\ stage \in {"stop engine"} \cup Closing => ~evicting /\ ~http

\* The calls and executions that may be in progress.
CallsInStep ==
  \A r \in Runs :
    /\ run[r] = "submitting" => stage \in Listening \cup {"draining"} \cup (Ended \ {"exited"})
    /\ run[r] = "executing" => stage \notin (BeforeListen \ {"listen"}) \cup Closing \cup {"exited"}

\* Between two ticks no healthy node can outlive its TTL by more than a period.
TickInTime ==
  /\ stage \in BeforeREST => \A n \in Nodes : nodes[n].status = "absent"
  /\ evicting => now <= nextTick /\ nextTick <= now + Period
  /\ \A n \in Nodes :
       /\ evicting /\ nodes[n].status = "healthy" => nextTick - nodes[n].LastSeen <= TTL + Period
       /\ nodes[n].status = "offline" => now - nodes[n].LastSeen > TTL

OrchInv ==
  /\ OrchTypeOK
  /\ PartsInStep
  /\ CallsInStep
  /\ TickInTime
  /\ BackendsOutliveTheirUsers

----------------------------------------------------------------------------
(* The inductive invariant                                                 *)

\* The period of the eviction timer is a number of units of time.
LEMMA PeriodType == Period \in Nat
BY RegistryAssumptions DEF Period

\* The invariant holds when the process starts.
LEMMA InitOrchInv == Init => OrchInv
<1> SUFFICES ASSUME Init PROVE OrchInv
  OBVIOUS
<1>1. OrchTypeOK
  BY DEF Init, NewNodeRegistry, OrchTypeOK, Stages, StartUp
<1>2. PartsInStep
  BY DEF Init, NewNodeRegistry, PartsInStep, BeforeStore, BeforeListen, BeforeREST, Listening, Stopping, Closing,
         StartUp, Ended
<1>3. CallsInStep /\ BackendsOutliveTheirUsers
  <2>1. \A r \in Runs : run[r] \notin {"submitting", "executing"}
    BY DEF Init
  <2> QED
    BY <2>1 DEF CallsInStep, BackendsOutliveTheirUsers
<1>4. TickInTime
  BY DEF Init, NewNodeRegistry, TickInTime
<1> QED
  BY <1>1, <1>2, <1>3, <1>4 DEF OrchInv

\* Every step keeps the shape of the state.
LEMMA OrchTypeStep == OrchTypeOK /\ [Next]_vars => OrchTypeOK'
<1> SUFFICES ASSUME OrchTypeOK, [Next]_vars PROVE OrchTypeOK'
  OBVIOUS
<1> USE DEF OrchTypeOK, nodeVars, backendVars, callVars
<1>1. CASE LoadConfig \/ InitTracer \/ NewEventBus \/ OpenStore \/ StartEngine \/ Listen
           \/ RegisterGateway
  BY <1>1 DEF LoadConfig, InitTracer, NewEventBus, OpenStore, StartEngine, Listen, RegisterGateway,
              Stages, StartUp, Ended
<1>2. CASE Recover
  BY <1>2 DEF Recover, Stages, StartUp
<1>3. CASE RegisterSelf
  BY <1>3, PeriodType, OrchestratorAssumptions DEF RegisterSelf, RunEviction, Stages, StartUp
<1>4. CASE GracefulStop \/ Shutdown \/ StopEngine \/ EngineStopped \/ CloseStore \/ CloseBus \/ Signal
           \/ SignalKills \/ NotifySignals
  BY <1>4 DEF NotifySignals, GracefulStop, Shutdown, StopEviction, StopEngine, EngineStopped, CloseStore, CloseBus,
              Signal, SignalKills, Stages, Stopping, Ended
<1>5. CASE Serve \/ ListenAndServe \/ WorkerExits \/ RequestReturns \/ StreamChanges \/ RequestArrives
  BY <1>5 DEF Serve, ListenAndServe, WorkerExits, RequestReturns, StreamChanges, RequestArrives,
              Stages, Ended
<1>6. ASSUME NEW r \in Runs,
             SubmitArrives(r) \/ GetCommandArrives(r) \/ Goroutines(r) \/ GetCommandReturns(r)
      PROVE  OrchTypeOK'
  BY <1>6 DEF SubmitArrives, GetCommandArrives, GetCommandReturns, Goroutines, SubmitReturns,
              Dispatch, RunEnds, RunDefers, DeferredEnqueues, Stages, Ended
<1>7. ASSUME NEW n \in Nodes, Heartbeat(n) PROVE OrchTypeOK'
  BY <1>7 DEF Heartbeat, Register
<1>8. ASSUME NEW b \in {"postgres", "redis"}, BackendChanges(b) PROVE OrchTypeOK'
  BY <1>8 DEF BackendChanges
<1>9. CASE Evict /\ UNCHANGED <<stage, backendVars, engine, grpc, rest, run, callVars>>
  BY <1>9, PeriodType DEF Evict, Expired
<1>10. CASE TimePasses /\ UNCHANGED <<stage, backendVars, engine, grpc, rest, run, callVars>>
  BY <1>10 DEF TimePasses
<1>11. CASE UNCHANGED vars
  BY <1>11 DEF vars
<1> QED
  BY <1>1, <1>2, <1>3, <1>4, <1>5, <1>6, <1>7, <1>8, <1>9, <1>10, <1>11 DEF Next, Main, Clients

\* Every part is built and stopped at its place in main.
LEMMA PartsStep == OrchTypeOK /\ PartsInStep /\ [Next]_vars => PartsInStep'
<1> SUFFICES ASSUME OrchTypeOK, PartsInStep, [Next]_vars PROVE PartsInStep'
  OBVIOUS
<1> USE DEF nodeVars, backendVars, callVars, PartsInStep, BeforeStore, BeforeListen, BeforeREST, Listening,
            Stopping, Closing, StartUp, Ended
<1>1a. CASE LoadConfig
  BY <1>1a DEF LoadConfig
<1>1b. CASE InitTracer
  BY <1>1b DEF InitTracer
<1>2. CASE NewEventBus
  BY <1>2 DEF NewEventBus
<1>3. CASE OpenStore
  BY <1>3 DEF OpenStore
<1>4a. CASE Recover
  BY <1>4a DEF Recover
<1>4b. CASE StartEngine
  BY <1>4b DEF StartEngine
<1>5a. CASE Listen
  BY <1>5a DEF Listen
<1>5b. CASE RegisterGateway
  BY <1>5b DEF RegisterGateway
<1>6. CASE RegisterSelf
  BY <1>6 DEF RegisterSelf, RunEviction
<1>6a. CASE NotifySignals
  BY <1>6a DEF NotifySignals
<1>7. CASE GracefulStop
  BY <1>7 DEF GracefulStop, Drained
<1>8. CASE Shutdown
  BY <1>8 DEF Shutdown, StopEviction
<1>9a. CASE StopEngine
  BY <1>9a DEF StopEngine
<1>9b. CASE EngineStopped
  BY <1>9b DEF EngineStopped, EngineIdle
<1>10a. CASE CloseStore
  BY <1>10a DEF CloseStore
<1>10b. CASE CloseBus
  BY <1>10b DEF CloseBus
<1>11a. CASE Signal
  BY <1>11a DEF Signal
<1>11b. CASE SignalKills
  BY <1>11b DEF SignalKills
<1>12. CASE Serve
  BY <1>12 DEF Serve, OrchTypeOK, Stages
<1>13. CASE ListenAndServe
  BY <1>13 DEF ListenAndServe, OrchTypeOK, Stages
<1>14. CASE WorkerExits
  BY <1>14 DEF WorkerExits
<1>15. ASSUME stage' = stage \/ stage' \in Ended,
              UNCHANGED <<backend, bus, engine, grpc, rest, evicting, callVars>>
       PROVE  PartsInStep'
  BY <1>15
<1>15a. AcceptsCalls => stage \notin Stopping
  BY DEF AcceptsCalls
<1>16. CASE RequestReturns
  BY <1>16 DEF RequestReturns
<1>16c. CASE RequestArrives
  <2>1. stage \notin BeforeREST \cup Stopping
    BY <1>16c DEF RequestArrives
  <2> QED
    BY <1>16c, <2>1 DEF RequestArrives
<1>16b. CASE StreamChanges
  BY <1>15a, <1>16b DEF StreamChanges
<1>16a. CASE UNCHANGED vars
  BY <1>15, <1>16a DEF vars
<1>17. ASSUME NEW r \in Runs, SubmitArrives(r) \/ Goroutines(r) PROVE PartsInStep'
  BY <1>15, <1>17 DEF SubmitArrives, Goroutines, SubmitReturns, Dispatch, RunEnds, RunDefers, DeferredEnqueues
<1>17a. ASSUME NEW r \in Runs, GetCommandArrives(r) \/ GetCommandReturns(r) PROVE PartsInStep'
  <2>1. /\ UNCHANGED <<stage, backend, bus, engine, grpc, rest, evicting, stream, http>>
        /\ stage \notin Stopping \/ polls' = polls \ {r}
    BY <1>15a, <1>17a DEF GetCommandArrives, GetCommandReturns
  <2> QED
    BY <2>1
<1>18. ASSUME NEW n \in Nodes, Heartbeat(n) PROVE PartsInStep'
  BY <1>18 DEF Heartbeat, Register
<1>19. ASSUME NEW b \in {"postgres", "redis"}, BackendChanges(b) PROVE PartsInStep'
  BY <1>15, <1>19 DEF BackendChanges
<1>20. CASE (Evict \/ TimePasses) /\ UNCHANGED <<stage, backendVars, engine, grpc, rest, run, callVars>>
  BY <1>15, <1>20 DEF Evict, TimePasses
<1> QED
  BY <1>1a, <1>1b, <1>2, <1>3, <1>4a, <1>4b, <1>5a, <1>5b, <1>6, <1>6a, <1>7, <1>8, <1>9a,
     <1>9b, <1>10a, <1>10b, <1>11a, <1>11b, <1>12, <1>13, <1>14, <1>16, <1>16a, <1>16b, <1>16c, <1>17, <1>17a, <1>18,
     <1>19, <1>20
     DEF Next, Main, Clients

\* Every call and every execution begins and ends while its parts are there.
LEMMA CallsStep ==
  OrchTypeOK /\ PartsInStep /\ CallsInStep /\ [Next]_vars => CallsInStep'
<1> SUFFICES ASSUME OrchTypeOK, PartsInStep, CallsInStep, [Next]_vars PROVE CallsInStep'
  OBVIOUS
<1> USE DEF nodeVars, backendVars, callVars, BeforeListen, BeforeREST, Listening, Stopping, Closing, StartUp, Ended
<1>t. run \in [Runs -> {"none", "stored", "submitting", "queued", "executing", "deferred", "done"}]
      /\ stage \in Stages
  BY DEF OrchTypeOK
<1>1. CASE LoadConfig \/ InitTracer \/ NewEventBus \/ OpenStore \/ StartEngine \/ Listen
           \/ RegisterGateway \/ RegisterSelf \/ NotifySignals
  BY <1>1 DEF LoadConfig, InitTracer, NewEventBus, OpenStore, StartEngine, Listen, RegisterGateway,
              RegisterSelf, NotifySignals, CallsInStep
<1>2. CASE Recover
  BY <1>2, <1>t DEF Recover, CallsInStep
<1>3. CASE GracefulStop
  BY <1>3 DEF GracefulStop, Drained, CallsInStep
<1>4. CASE Shutdown \/ StopEngine \/ CloseStore \/ CloseBus \/ Signal \/ SignalKills
  BY <1>4 DEF Shutdown, StopEngine, CloseStore, CloseBus, Signal, SignalKills, CallsInStep
<1>5. CASE EngineStopped
  BY <1>5 DEF EngineStopped, EngineIdle, CallsInStep
<1>6. CASE Serve \/ ListenAndServe \/ WorkerExits \/ RequestReturns \/ StreamChanges \/ RequestArrives
           \/ UNCHANGED vars
  BY <1>6 DEF Serve, ListenAndServe, WorkerExits, RequestReturns, StreamChanges, RequestArrives, vars,
              CallsInStep
<1>7. ASSUME NEW r \in Runs, SubmitArrives(r) PROVE CallsInStep'
  <2>1. run' # run
    BY <1>7, <1>t DEF SubmitArrives
  <2>2. stage \in Listening
    BY <1>7, <1>t, <2>1 DEF SubmitArrives, AcceptsCalls, PartsInStep, Stages, Next, vars
  <2> QED
    BY <1>7, <1>t, <2>2 DEF SubmitArrives, CallsInStep
<1>8. ASSUME NEW r \in Runs, Dispatch(r) PROVE CallsInStep'
  <2>1. stage \notin (BeforeListen \ {"listen"}) \cup Closing
    BY <1>8 DEF Dispatch, PartsInStep
  <2>2. stage # "exited"
    <3>1. run' # run
      BY <1>8, <1>t DEF Dispatch
    <3> QED
      BY <3>1 DEF Next, vars
  <2> QED
    BY <1>8, <1>t, <2>1, <2>2 DEF Dispatch, CallsInStep
<1>9. ASSUME NEW r \in Runs,
             GetCommandArrives(r) \/ SubmitReturns(r) \/ RunEnds(r) \/ RunDefers(r)
               \/ DeferredEnqueues(r) \/ GetCommandReturns(r)
      PROVE  CallsInStep'
  BY <1>9, <1>t DEF GetCommandArrives, GetCommandReturns, SubmitReturns, RunEnds, RunDefers,
                    DeferredEnqueues, CallsInStep
<1>10. ASSUME NEW n \in Nodes, Heartbeat(n) PROVE CallsInStep'
  BY <1>10 DEF Heartbeat, CallsInStep
<1>11. ASSUME NEW b \in {"postgres", "redis"}, BackendChanges(b) PROVE CallsInStep'
  BY <1>11 DEF BackendChanges, CallsInStep
<1>12. CASE (Evict \/ TimePasses) /\ UNCHANGED <<stage, backendVars, engine, grpc, rest, run, callVars>>
  BY <1>12 DEF CallsInStep
<1> QED
  BY <1>1, <1>2, <1>3, <1>4, <1>5, <1>6, <1>7, <1>8, <1>9, <1>10, <1>11, <1>12
     DEF Next, Main, Clients, Goroutines

\* No step lets a healthy node outlive its TTL by more than a period, or shows a node as
\* offline that was heard of within the TTL.
LEMMA TickStep ==
  OrchTypeOK /\ PartsInStep /\ TickInTime /\ [Next]_vars => TickInTime'
<1> SUFFICES ASSUME OrchTypeOK, PartsInStep, TickInTime, [Next]_vars PROVE TickInTime'
  OBVIOUS
<1> USE DEF nodeVars, backendVars, callVars, BeforeREST, BeforeListen
<1>t. /\ nodes \in [Nodes -> [status : {"absent", "healthy", "offline"}, LastSeen : Nat]]
      /\ now \in Nat /\ nextTick \in Nat
      /\ Period \in Nat /\ TTL \in Nat
  BY PeriodType, RegistryAssumptions DEF OrchTypeOK
<1>1. ASSUME UNCHANGED <<nodes, now, nextTick>>, evicting' => evicting,
             stage' \in BeforeREST => stage \in BeforeREST
      PROVE  TickInTime'
  BY <1>1 DEF TickInTime
<1>2. CASE RegisterSelf
  <2>1. /\ \A n \in Nodes : nodes[n].status = "absent"
        /\ nodes' = [nodes EXCEPT ![Self] = [status |-> "healthy", LastSeen |-> now]]
        /\ now' = now /\ nextTick' = now + Period /\ stage' = "summary"
    BY <1>2 DEF RegisterSelf, RunEviction, TickInTime
  <2>2. \A n \in Nodes : nodes'[n].status = "absent"
                         \/ (nodes'[n].status = "healthy" /\ nodes'[n].LastSeen = now)
    BY <1>t, <2>1
  <2> QED
    BY <1>t, <2>1, <2>2 DEF TickInTime
<1>3. ASSUME NEW m \in Nodes, Heartbeat(m) PROVE TickInTime'
  <2>1. /\ nodes' = [nodes EXCEPT ![m] = [status |-> "healthy", LastSeen |-> now]]
        /\ UNCHANGED <<now, nextTick, evicting, stage>>
        /\ http
    BY <1>3 DEF Heartbeat, Register
  <2>2. stage \notin BeforeREST
    BY <2>1 DEF PartsInStep
  <2>3. \A n \in Nodes : nodes'[n] = nodes[n]
                         \/ (nodes'[n].status = "healthy" /\ nodes'[n].LastSeen = now)
    BY <1>t, <2>1
  <2>4. evicting => nextTick - now <= TTL + Period
    BY <1>t DEF TickInTime
  <2> QED
    BY <1>t, <2>1, <2>2, <2>3, <2>4 DEF TickInTime
<1>4. CASE Evict /\ UNCHANGED <<stage, backendVars, engine, grpc, rest, run, callVars>>
  <2>1. /\ evicting /\ now = nextTick /\ nextTick' = now + Period
        /\ UNCHANGED <<now, evicting, stage>>
        /\ nodes' = [n \in Nodes |-> IF Expired(n) THEN [nodes[n] EXCEPT !.status = "offline"]
                                                   ELSE nodes[n]]
    BY <1>4 DEF Evict
  <2>2. stage \notin BeforeREST
    BY <2>1 DEF PartsInStep
  <2>3. ASSUME NEW n \in Nodes
        PROVE  \/ /\ now - nodes[n].LastSeen > TTL
                  /\ nodes'[n].status = "offline" /\ nodes'[n].LastSeen = nodes[n].LastSeen
               \/ /\ nodes'[n] = nodes[n]
                  /\ nodes[n].status = "healthy" => now - nodes[n].LastSeen <= TTL
    <3>1. nodes[n] \in [status : {"absent", "healthy", "offline"}, LastSeen : Nat]
      BY <1>t
    <3>2. nodes'[n] = IF Expired(n) THEN [nodes[n] EXCEPT !.status = "offline"] ELSE nodes[n]
      BY <2>1
    <3> QED
      BY <1>t, <3>1, <3>2 DEF Expired
  <2>4. ASSUME NEW n \in Nodes
        PROVE  /\ nodes'[n].status = "healthy" => nextTick' - nodes'[n].LastSeen <= TTL + Period
               /\ nodes'[n].status = "offline" => now' - nodes'[n].LastSeen > TTL
    <3>1. nodes[n].LastSeen \in Nat
      BY <1>t
    <3> QED
      BY <1>t, <2>1, <2>3, <3>1 DEF TickInTime
  <2>5. now' <= nextTick' /\ nextTick' <= now' + Period
    BY <1>t, <2>1
  <2> QED
    BY <2>1, <2>2, <2>4, <2>5 DEF TickInTime
<1>5. CASE TimePasses /\ UNCHANGED <<stage, backendVars, engine, grpc, rest, run, callVars>>
  <2>1. evicting /\ now < nextTick /\ now' = now + 1 /\ UNCHANGED <<nodes, nextTick, evicting, stage>>
    BY <1>5 DEF TimePasses
  <2>2. stage \notin BeforeREST
    BY <2>1 DEF PartsInStep
  <2>3. \A n \in Nodes : nodes[n].LastSeen \in Nat
    BY <1>t
  <2> QED
    BY <1>t, <2>1, <2>2, <2>3 DEF TickInTime
<1>6. CASE LoadConfig \/ InitTracer \/ NewEventBus \/ OpenStore \/ Recover \/ StartEngine \/ Listen
           \/ RegisterGateway
  BY <1>1, <1>6 DEF LoadConfig, InitTracer, NewEventBus, OpenStore, Recover, StartEngine, Listen,
                    RegisterGateway
<1>7. CASE Shutdown
  BY <1>1, <1>7 DEF Shutdown, StopEviction
<1>8. CASE NotifySignals \/ GracefulStop \/ StopEngine \/ EngineStopped \/ CloseStore \/ CloseBus \/ Signal \/ SignalKills
  BY <1>1, <1>8 DEF NotifySignals, GracefulStop, StopEngine, EngineStopped, CloseStore, CloseBus, Signal, SignalKills
<1>9. CASE Serve \/ ListenAndServe \/ WorkerExits \/ RequestReturns \/ StreamChanges \/ RequestArrives
           \/ UNCHANGED vars
  BY <1>1, <1>9 DEF Serve, ListenAndServe, WorkerExits, RequestReturns, StreamChanges, RequestArrives,
                    vars
<1>10. ASSUME NEW r \in Runs,
              SubmitArrives(r) \/ GetCommandArrives(r) \/ Goroutines(r) \/ GetCommandReturns(r)
       PROVE  TickInTime'
  BY <1>1, <1>10 DEF SubmitArrives, GetCommandArrives, GetCommandReturns, Goroutines, SubmitReturns,
                     Dispatch, RunEnds, RunDefers, DeferredEnqueues
<1>11. ASSUME NEW b \in {"postgres", "redis"}, BackendChanges(b) PROVE TickInTime'
  BY <1>1, <1>11 DEF BackendChanges
<1> QED
  BY <1>2, <1>3, <1>4, <1>5, <1>6, <1>7, <1>8, <1>9, <1>10, <1>11 DEF Next, Main, Clients

\* While the process is up its users have their backends; where it ends early, it stays as
\* it was.
LEMMA BackendStep ==
  ASSUME OrchInv, OrchTypeOK', PartsInStep', CallsInStep', [Next]_vars
  PROVE  BackendsOutliveTheirUsers'
<1> USE DEF StartUp, BeforeStore, BeforeListen, BeforeREST, Listening, Stopping, Closing, Ended
<1>1. CASE stage' \notin Ended
  <2> SUFFICES ASSUME NEW r \in Runs, run'[r] \in {"submitting", "executing"}
               PROVE  backend' \in {"memory", "postgres"} /\ bus' \in {"enabled", "disabled"}
    BY DEF BackendsOutliveTheirUsers
  <2>1. stage' \notin BeforeStore \cup Closing
    BY <1>1 DEF CallsInStep
  <2> QED
    BY <1>1, <2>1 DEF PartsInStep
<1>2. CASE stage' = "exited"
  BY <1>2 DEF CallsInStep, BackendsOutliveTheirUsers
<1>3. CASE stage' \in Ended \ {"exited"}
  <2>1. CASE UNCHANGED vars
    BY <2>1 DEF OrchInv, BackendsOutliveTheirUsers, vars, backendVars
  <2>2. CASE Next
    <3> USE DEF backendVars
    <3>0. stage' # stage
      BY <1>3, <2>2 DEF Next
    <3>1. CASE LoadConfig \/ InitTracer \/ Listen \/ RegisterGateway \/ SignalKills \/ Serve
               \/ ListenAndServe
      BY <3>1 DEF LoadConfig, InitTracer, Listen, RegisterGateway, SignalKills, Serve,
                  ListenAndServe, OrchInv, BackendsOutliveTheirUsers
    <3>2. ASSUME NEW r \in Runs, DeferredEnqueues(r) PROVE BackendsOutliveTheirUsers'
      BY <3>0, <3>2 DEF DeferredEnqueues, OrchInv, BackendsOutliveTheirUsers
    <3>3. CASE NewEventBus \/ OpenStore \/ Recover \/ StartEngine \/ RegisterSelf \/ NotifySignals
               \/ GracefulStop \/ Shutdown \/ EngineStopped \/ CloseStore \/ CloseBus \/ Signal
      BY <1>3, <3>3 DEF NewEventBus, OpenStore, Recover, StartEngine, RegisterSelf, NotifySignals, GracefulStop,
                        Shutdown, EngineStopped, CloseStore, CloseBus, Signal
    <3>4. CASE StopEngine \/ WorkerExits \/ RequestReturns \/ StreamChanges \/ RequestArrives
      BY <3>0, <3>4 DEF StopEngine, WorkerExits, RequestReturns, StreamChanges, RequestArrives
    <3>5. ASSUME NEW r \in Runs,
                 SubmitArrives(r) \/ GetCommandArrives(r) \/ SubmitReturns(r) \/ Dispatch(r)
                   \/ RunEnds(r) \/ RunDefers(r) \/ GetCommandReturns(r)
          PROVE  FALSE
      BY <3>0, <3>5 DEF SubmitArrives, GetCommandArrives, SubmitReturns, Dispatch, RunEnds,
                        RunDefers, GetCommandReturns
    <3>6. ASSUME NEW n \in Nodes, Heartbeat(n) PROVE FALSE
      BY <3>0, <3>6 DEF Heartbeat
    <3>7. ASSUME NEW b \in {"postgres", "redis"}, BackendChanges(b) PROVE FALSE
      BY <3>0, <3>7 DEF BackendChanges
    <3> QED
      BY <2>2, <3>0, <3>1, <3>2, <3>3, <3>4, <3>5, <3>6, <3>7 DEF Next, Main, Clients, Goroutines
  <2> QED
    BY <2>1, <2>2
<1> QED
  BY <1>1, <1>2, <1>3

\* The inductive invariant holds in every reachable state of the process.
THEOREM OrchestratorInvariant == Spec => []OrchInv
<1>1. OrchInv /\ [Next]_vars => OrchInv'
  <2> SUFFICES ASSUME OrchInv, [Next]_vars PROVE OrchInv'
    OBVIOUS
  <2>1. OrchTypeOK' /\ PartsInStep' /\ CallsInStep' /\ TickInTime'
    BY OrchTypeStep, PartsStep, CallsStep, TickStep DEF OrchInv
  <2>2. BackendsOutliveTheirUsers'
    BY <2>1, BackendStep
  <2> QED
    BY <2>1, <2>2 DEF OrchInv
<1> QED
  BY <1>1, InitOrchInv, PTL DEF Spec

\* main opens the store and the bus before anything uses them and closes them after
\* everything that does, for any number of runs.
THEOREM OrchestratorBackendsOutliveTheirUsers == Spec => []BackendsOutliveTheirUsers
<1>1. OrchInv => BackendsOutliveTheirUsers
  BY DEF OrchInv
<1> QED
  BY <1>1, OrchestratorInvariant, PTL

\* /readyz answers 200 ahead of the gRPC server in a start-up and behind it in a shutdown,
\* and never else.
THEOREM OrchestratorReadyMeansServing == Spec => []ReadyMeansServing
<1>1. OrchInv => ReadyMeansServing
  <2> SUFFICES ASSUME OrchInv, stage \notin Ended, rest = "serving"
               PROVE  AcceptsCalls \/ grpc = "starting" \/ stage = "draining"
    BY DEF ReadyMeansServing
  <2>1. stage \in {"summary", "serving", "draining"}
    BY DEF OrchInv, OrchTypeOK, PartsInStep, Stages, StartUp, Stopping, BeforeREST, BeforeListen
  <2> QED
    BY <2>1 DEF OrchInv, PartsInStep, Listening, AcceptsCalls
<1> QED
  BY <1>1, OrchestratorInvariant, PTL

\* ListHealthy is never late by more than a period of the eviction timer, and no node is
\* shown as offline that was heard of within the TTL, for any TTL and any number of nodes.
THEOREM OrchestratorNodeStatusIsTimely == Spec => []NodeStatusIsTimely
<1>1. OrchInv => NodeStatusIsTimely
  <2> SUFFICES ASSUME OrchInv, NEW n \in Nodes
               PROVE  /\ nodes[n].status = "healthy" /\ evicting => now - nodes[n].LastSeen <= TTL + Period
                      /\ nodes[n].status = "offline" => now - nodes[n].LastSeen > TTL
    BY DEF NodeStatusIsTimely
  <2>1. now \in Nat /\ nextTick \in Nat /\ nodes[n].LastSeen \in Nat /\ TTL \in Nat /\ Period \in Nat
    BY PeriodType, RegistryAssumptions DEF OrchInv, OrchTypeOK
  <2> QED
    BY <2>1 DEF OrchInv, TickInTime
<1> QED
  BY <1>1, OrchestratorInvariant, PTL

\* The process exits with nothing in progress, and past GracefulStop only a server whose
\* goroutine was late makes it end otherwise by Fatal.
THEOREM OrchestratorExitsInOrder == Spec => ExitsInOrder
<1> DEFINE InOrder ==
      /\ stage' = "exited" => /\ \A r \in Runs : run[r] \notin {"submitting", "executing"}
                              /\ polls = {} /\ ~stream /\ ~http /\ ~evicting
      /\ stage \in Stopping /\ stage' = "fatal" => "closed" \in {grpc, rest}
<1>1. OrchInv /\ [Next]_vars => [InOrder]_vars
  <2> SUFFICES ASSUME OrchInv, Next PROVE InOrder
    OBVIOUS
  <2>0. stage \notin Ended
    BY DEF Next
  <2>1. stage = "close bus" => /\ \A r \in Runs : run[r] \notin {"submitting", "executing"}
                               /\ polls = {} /\ ~stream /\ ~http /\ ~evicting
    BY DEF OrchInv, PartsInStep, CallsInStep, Listening, Stopping, Closing, Ended
  <2> USE DEF StartUp, Stopping, Ended
  <2>3. CASE LoadConfig \/ InitTracer \/ Listen \/ RegisterGateway \/ SignalKills
    BY <2>3 DEF LoadConfig, InitTracer, Listen, RegisterGateway, SignalKills
  <2>4. CASE Serve \/ ListenAndServe
    <3>1. stage' = stage \/ stage' = "fatal"
      BY <2>4 DEF Serve, ListenAndServe
    <3>2. stage \in Stopping => grpc \in {"closed", "stopped"} /\ rest \in {"closed", "stopped"}
      BY DEF OrchInv, PartsInStep
    <3> QED
      BY <2>0, <2>4, <3>1, <3>2 DEF Serve, ListenAndServe
  <2>5. CASE NewEventBus \/ OpenStore \/ Recover \/ StartEngine \/ RegisterSelf \/ NotifySignals
             \/ GracefulStop \/ Shutdown \/ EngineStopped \/ CloseStore \/ Signal
    BY <2>5 DEF NewEventBus, OpenStore, Recover, StartEngine, RegisterSelf, NotifySignals, GracefulStop,
                Shutdown, EngineStopped, CloseStore, Signal
  <2>6. CASE CloseBus
    BY <2>1, <2>6 DEF CloseBus
  <2>7. ASSUME stage' = stage PROVE InOrder
    BY <2>0, <2>7
  <2>8. CASE StopEngine \/ WorkerExits \/ RequestReturns \/ StreamChanges \/ RequestArrives
    BY <2>7, <2>8 DEF StopEngine, WorkerExits, RequestReturns, StreamChanges, RequestArrives
  <2>9. ASSUME NEW r \in Runs,
               SubmitArrives(r) \/ GetCommandArrives(r) \/ Goroutines(r) \/ GetCommandReturns(r)
        PROVE  InOrder
    BY <2>0, <2>9 DEF SubmitArrives, GetCommandArrives, Goroutines, SubmitReturns, Dispatch, RunEnds,
                      RunDefers, DeferredEnqueues, GetCommandReturns
  <2>10. ASSUME NEW n \in Nodes, Heartbeat(n) PROVE InOrder
    BY <2>7, <2>10 DEF Heartbeat
  <2>11. ASSUME NEW b \in {"postgres", "redis"}, BackendChanges(b) PROVE InOrder
    BY <2>7, <2>11 DEF BackendChanges
  <2> QED
    BY <2>3, <2>4, <2>5, <2>6, <2>7, <2>8, <2>9, <2>10, <2>11 DEF Next, Main, Clients
<1> QED
  BY <1>1, OrchestratorInvariant, PTL DEF Spec, ExitsInOrder
=============================================================================
