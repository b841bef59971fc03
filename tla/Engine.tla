------------------------------- MODULE Engine -------------------------------
(***************************************************************************)
(* The life of a test run in the orchestrator: SubmitTestRun and           *)
(* CancelTestRun of api/grpc_server.go, the worker, executeTestRun, the    *)
(* deferral goroutine and Stop of core/execution_engine.go, RecoverState   *)
(* of core/state_manager.go, and the start-up and shutdown order of        *)
(* cmd/orchestrator/main.go, over the test_runs table of the store.        *)
(*                                                                         *)
(* The scheduler is its abstract specification (RunQueue), the host budget *)
(* is ResourceAllocator.  What happens inside the guest is abstracted to   *)
(* the outcomes executeTestRun distinguishes; RunWorkflow.tla has the      *)
(* details of the test phase.                                              *)
(***************************************************************************)
EXTENDS RunQueue, ResourceAllocator, FiniteSets

CONSTANTS
  HostCPUs, HostMemMB,  \* cfg.Cluster limits
  VMCPUs, VMMemMB,      \* cfg.QEMU defaults: what every VM needs
  Postgres,             \* TRUE: PostgresStore, FALSE: MemoryStore
  Cancellable,          \* runs for which a user may call CancelTestRun
  MayTimeOut,           \* runs whose TestTimeoutSeconds may elapse
  MayStop,              \* whether the orchestrator may be asked to shut down
  MayCrash,             \* whether the process may die at any point
  MaxRestarts,          \* bound on restarts of the process
  MaxFaults             \* bound on transient store errors

ASSUME EngineAssumptions ==
  /\ IsFiniteSet(Runs)
  /\ HostCPUs \in Nat /\ HostMemMB \in Nat
  /\ VMCPUs \in Nat /\ VMMemMB \in Nat
  /\ Postgres \in BOOLEAN /\ MayStop \in BOOLEAN /\ MayCrash \in BOOLEAN
  /\ Cancellable \subseteq Runs /\ MayTimeOut \subseteq Runs
  /\ MaxRestarts \in Nat /\ MaxFaults \in Nat

VARIABLES
  store,        \* status column of test_runs; "none" before CreateTestRun
  phase,        \* of the orchestrator process
  workerUp,     \* the worker goroutine has not returned
  pc,           \* per run, the stage of its executeTestRun goroutine
  releasing,    \* goroutines past executeTestRun that still hold their slot
  deferred,     \* runs whose two-second resubmission goroutine is sleeping
  expired,      \* executing runs whose runCtx deadline has passed
  submit,       \* per run, the SubmitTestRun handler
  cancel,       \* per run, the CancelTestRun handler
  toRecover,    \* runs RecoverState has listed and not yet handled
  interrupted,  \* unfinished when the process ended, not started again since
  vms,          \* executing runs whose QEMU process was started and not stopped or killed
  survivors,    \* number of QEMU processes that outlived the orchestrator that started them
  restarts, faults

vars == <<queue, activeCount, shut, budget, store, phase, workerUp, pc, releasing, deferred,
          expired, submit, cancel, toRecover, interrupted, vms, survivors, restarts, faults>>

Statuses == {"PENDING", "RUNNING", "PASSED", "FAILED", "ERRORED", "CANCELLED"}
Unfinished == {"PENDING", "RUNNING"}
Terminal == Statuses \ Unfinished

alloc == [CPUs |-> VMCPUs, MemMB |-> VMMemMB]

Init ==
  /\ RQInit
  /\ budget = NewResourceAllocator(HostCPUs, HostMemMB)
  /\ store = [r \in Runs |-> "none"]
  /\ phase = "up"
  /\ workerUp = TRUE
  /\ pc = [r \in Runs |-> "idle"]
  /\ releasing = 0
  /\ deferred = {}
  /\ expired = {}
  /\ submit = [r \in Runs |-> "new"]
  /\ cancel = [r \in Runs |-> "none"]
  /\ toRecover = {}
  /\ interrupted = {}
  /\ vms = {} /\ survivors = 0
  /\ restarts = 0
  /\ faults = 0

\* Groups of variables that actions leave alone.
queueVars == <<queue, activeCount, shut>>
apiVars == <<submit, cancel>>
processVars == <<phase, workerUp, toRecover, restarts>>
vmVars == <<vms, survivors>>
hostVars == <<budget, vmVars>>

----------------------------------------------------------------------------
(* The store                                                               *)

\* runCtx is done: the deadline passed or Stop cancelled the engine's context.
CtxDone(r) == r \in expired \/ shut

Updated(r, s) ==
  /\ store' = [store EXCEPT ![r] = s]
  /\ UNCHANGED faults

\* A transient error of the database; the memory store has none.
Fault ==
  /\ Postgres
  /\ faults < MaxFaults
  /\ faults' = faults + 1
  /\ UNCHANGED store

\* UpdateTestRunStatus(runCtx, r, s): the memory store ignores the context, the
\* Postgres store fails without effect once the context is done.
UpdateOK(r, s) == ~(Postgres /\ CtxDone(r)) /\ Updated(r, s)
UpdateFails(r) == (Postgres /\ CtxDone(r) /\ UNCHANGED <<store, faults>>) \/ Fault

\* An update whose error the caller ignores.
TryUpdate(r, s) == UpdateOK(r, s) \/ UpdateFails(r)

\* Mutant: only RUNNING runs are listed, as the name of the query says.
ListOnlyRunning == {r \in Runs : store[r] = "RUNNING"}

\* The query behind recovery lists RUNNING, QUEUED (which is never written) and PENDING.
ListRunningTestRuns == {r \in Runs : store[r] \in Unfinished}

----------------------------------------------------------------------------
(* The API handlers                                                        *)

\* SubmitTestRun up to a CreateTestRun that succeeds (otherwise there is no run).
SubmitCreate(r) ==
  /\ phase = "up"
  /\ submit[r] = "new"
  /\ submit' = [submit EXCEPT ![r] = "created"]
  /\ store' = [store EXCEPT ![r] = "PENDING"]
  /\ UNCHANGED <<queueVars, processVars, hostVars, pc, releasing, deferred, expired, cancel,
                 interrupted, faults>>

\* SubmitTestRun, engine.SubmitTestRun(created).
SubmitEnqueue(r) ==
  /\ submit[r] = "created"
  /\ submit' = [submit EXCEPT ![r] = "submitted"]
  /\ RQEnqueue(r)
  /\ UNCHANGED <<processVars, hostVars, store, pc, releasing, deferred, expired, cancel,
                 interrupted, faults>>

\* CancelTestRun reads the run and tests its status ...
CancelCheck(r) ==
  /\ phase = "up"
  /\ r \in Cancellable
  /\ cancel[r] = "none"
  /\ store[r] \in Unfinished
  /\ cancel' = [cancel EXCEPT ![r] = "checked"]
  /\ UNCHANGED <<queueVars, processVars, hostVars, store, pc, releasing, deferred, expired, submit,
                 interrupted, faults>>

\* ... and writes CANCELLED in a second statement; the reply is Success = true, or an
\* error if the write failed.
CancelWrite(r) ==
  /\ cancel[r] = "checked"
  /\ \/ /\ Updated(r, "CANCELLED")
        /\ cancel' = [cancel EXCEPT ![r] = "acknowledged"]
        /\ interrupted' = interrupted \ {r}
     \/ Fault /\ cancel' = [cancel EXCEPT ![r] = "none"] /\ UNCHANGED interrupted
  /\ UNCHANGED <<queueVars, processVars, hostVars, pc, releasing, deferred, expired, submit>>

----------------------------------------------------------------------------
(* The worker and executeTestRun                                           *)

\* executeTestRun returns; the goroutine goes on to its deferred scheduler.Release.
Return(r) ==
  /\ pc' = [pc EXCEPT ![r] = "idle"]
  /\ expired' = expired \ {r}
  /\ releasing' = releasing + 1

Goto(r, stage) ==
  /\ pc' = [pc EXCEPT ![r] = stage]
  /\ UNCHANGED <<expired, releasing>>

\* The worker takes the head of the queue and starts a goroutine for it.
Dispatch(r) ==
  /\ workerUp
  /\ RQDispatch(r)
  /\ Goto(r, "start")
  /\ interrupted' = interrupted \ {r}
  /\ UNCHANGED <<apiVars, processVars, hostVars, store, deferred, faults>>

\* Step 1: the status becomes RUNNING, or executeTestRun gives up.
MarkRunning(r) ==
  /\ pc[r] = "start"
  /\ \/ UpdateOK(r, "RUNNING") /\ Goto(r, "gate")
     \/ UpdateFails(r) /\ Return(r)
  /\ UNCHANGED <<queueVars, apiVars, processVars, hostVars, deferred, interrupted>>

\* Steps 2, 2a, 2b: unknown device, device without QEMU support, unloadable suite.
GateRejects(r) ==
  /\ pc[r] = "gate"
  /\ \E s \in {"ERRORED", "CANCELLED"} : TryUpdate(r, s)
  /\ Return(r)
  /\ UNCHANGED <<queueVars, apiVars, processVars, hostVars, deferred, interrupted>>

\* Step 2c: the budget has room for one more VM.
GateAcquires(r) ==
  /\ pc[r] = "gate"
  /\ TryAcquire(alloc)
  /\ Goto(r, "vm")
  /\ UNCHANGED <<queueVars, apiVars, processVars, vmVars, store, deferred, interrupted, faults>>

\* Mutant: nobody resubmits the run.
GateDrops(r) ==
  /\ pc[r] = "gate"
  /\ ~Acquirable(alloc)
  /\ TryUpdate(r, "PENDING")
  /\ Return(r)
  /\ UNCHANGED <<queueVars, apiVars, processVars, hostVars, deferred, interrupted>>

\* Mutant: the run is put back at once and resubmitted later.
GateRequeuesAndDefers(r) ==
  /\ pc[r] = "gate"
  /\ ~Acquirable(alloc)
  /\ TryUpdate(r, "PENDING")
  /\ deferred' = deferred \cup {r}
  /\ RQEnqueue(r)
  /\ Return(r)
  /\ UNCHANGED <<apiVars, processVars, hostVars, interrupted>>

\* Step 2c: it has not, and a goroutine outside the wait group will resubmit.
GateDefers(r) ==
  /\ pc[r] = "gate"
  /\ ~Acquirable(alloc)
  /\ TryUpdate(r, "PENDING")
  /\ deferred' = deferred \cup {r}
  /\ Return(r)
  /\ UNCHANGED <<queueVars, apiVars, processVars, hostVars, interrupted>>

\* Step 3: CreateVM, RegisterVM and StartVM succeed (StartVM cannot once the
\* context is done) ...
VMStarts(r) ==
  /\ pc[r] = "vm"
  /\ ~CtxDone(r)
  /\ Goto(r, "guest")
  /\ vms' = vms \cup {r}
  /\ UNCHANGED <<queueVars, apiVars, processVars, budget, survivors, store, deferred, interrupted,
                 faults>>

\* Mutant: an early return before the release of the resources is deferred.
VMFailsLeaks(r) ==
  /\ pc[r] = "vm"
  /\ TryUpdate(r, "ERRORED")
  /\ Return(r)
  /\ UNCHANGED <<queueVars, apiVars, processVars, hostVars, deferred, interrupted>>

\* ... or one of them fails, perhaps StartVM after it has started QEMU, which DestroyVM
\* then does not find among the live VMs.
VMFails(r) ==
  /\ pc[r] = "vm"
  /\ TryUpdate(r, "ERRORED")
  /\ Goto(r, "free")
  /\ vms' \in {vms, vms \cup {r}}
  /\ UNCHANGED <<queueVars, apiVars, processVars, budget, survivors, deferred, interrupted>>

\* Steps 4 and 5: the agent registers, the driver loads, the device verifies.
GuestReady(r) ==
  /\ pc[r] = "guest"
  /\ Goto(r, "tests")
  /\ UNCHANGED <<queueVars, apiVars, processVars, hostVars, store, deferred, interrupted, faults>>

\* Steps 4, 5 or 6 return an error that is not a test failure.
GuestOrWorkflowErrors(r) ==
  /\ pc[r] \in {"guest", "tests"}
  /\ TryUpdate(r, "ERRORED")
  /\ Goto(r, "teardown")
  /\ UNCHANGED <<queueVars, apiVars, processVars, hostVars, deferred, interrupted>>

\* Steps 6 and 7: the workflow is done and the stored results give the verdict.
Verdict(r) ==
  /\ pc[r] = "tests"
  /\ \E s \in {"PASSED", "FAILED"} : TryUpdate(r, s)
  /\ Goto(r, "teardown")
  /\ UNCHANGED <<queueVars, apiVars, processVars, hostVars, deferred, interrupted>>

\* Mutant: an error of the teardown is recorded as the run's status.
TeardownErrors(r) ==
  /\ pc[r] = "teardown"
  /\ TryUpdate(r, "ERRORED")
  /\ Goto(r, "free")
  /\ UNCHANGED <<queueVars, apiVars, processVars, hostVars, deferred, interrupted>>

\* The deferred teardown: UnregisterVM, StopVM, DestroyVM.
Teardown(r) ==
  /\ pc[r] = "teardown"
  /\ Goto(r, "free")
  /\ vms' = vms \ {r}
  /\ UNCHANGED <<queueVars, apiVars, processVars, budget, survivors, store, deferred, interrupted,
                 faults>>

\* Mutant: the allocation is not returned.
FreeNothing(r) ==
  /\ pc[r] = "free"
  /\ Return(r)
  /\ UNCHANGED <<queueVars, apiVars, processVars, hostVars, store, deferred, interrupted, faults>>

\* The deferred allocator.Release.  runCancel was deferred earlier and so comes after it;
\* it is a step of its own when it has a process to end.
FreeResources(r) ==
  /\ pc[r] = "free"
  /\ Release(alloc)
  /\ IF r \in vms THEN Goto(r, "cancel") ELSE Return(r)
  /\ UNCHANGED <<queueVars, apiVars, processVars, vmVars, store, deferred, interrupted, faults>>

\* The deferred runCancel ends the QEMU process of a StartVM that failed.
RunCancel(r) ==
  /\ pc[r] = "cancel"
  /\ vms' = vms \ {r}
  /\ Return(r)
  /\ UNCHANGED <<queueVars, apiVars, processVars, budget, survivors, store, deferred, interrupted,
                 faults>>

\* The deferred scheduler.Release of some goroutine.
FreeSlot ==
  /\ releasing > 0
  /\ releasing' = releasing - 1
  /\ RQRelease
  /\ UNCHANGED <<apiVars, processVars, hostVars, store, pc, deferred, expired, interrupted, faults>>

\* The deferral goroutine wakes up; its Enqueue panics on a closed scheduler.
Resubmit(r) ==
  /\ r \in deferred
  /\ deferred' = deferred \ {r}
  /\ IF shut
       THEN phase' = "panicked" /\ UNCHANGED queueVars
       ELSE RQEnqueue(r) /\ UNCHANGED phase
  /\ UNCHANGED <<apiVars, hostVars, store, workerUp, pc, releasing, expired, toRecover, interrupted,
                 restarts, faults>>

\* The deadline of runCtx passes.
TimeOut(r) ==
  /\ r \in MayTimeOut
  /\ pc[r] # "idle"
  /\ r \notin expired
  /\ expired' = expired \cup {r}
  /\ UNCHANGED <<queueVars, apiVars, processVars, hostVars, store, pc, releasing, deferred,
                 interrupted, faults>>

----------------------------------------------------------------------------
(* Shutdown, crash and recovery                                            *)

\* A signal arrives: GracefulStop refuses new calls.
Drain ==
  /\ MayStop
  /\ phase = "up"
  /\ phase' = "draining"
  /\ UNCHANGED <<queueVars, apiVars, hostVars, store, workerUp, pc, releasing, deferred, expired,
                 toRecover, interrupted, restarts, faults>>

\* The calls in progress have returned; the deferred engine.Stop cancels the
\* context, closes the scheduler and waits for the worker and the executions.
Stop ==
  /\ phase = "draining"
  /\ \A r \in Runs : submit[r] # "created" /\ cancel[r] # "checked"
  /\ phase' = "stopping"
  /\ RQClose
  /\ UNCHANGED <<apiVars, hostVars, store, workerUp, pc, releasing, deferred, expired, toRecover,
                 interrupted, restarts, faults>>

\* Mutant: the worker leaves only when the queue is empty.
WorkerExitWhenDrained ==
  /\ shut
  /\ workerUp
  /\ queue = << >>
  /\ workerUp' = FALSE
  /\ UNCHANGED <<queueVars, apiVars, hostVars, store, phase, pc, releasing, deferred, expired,
                 toRecover, interrupted, restarts, faults>>

\* Next returns nil.
WorkerExit ==
  /\ shut
  /\ workerUp
  /\ workerUp' = FALSE
  /\ UNCHANGED <<queueVars, apiVars, hostVars, store, phase, pc, releasing, deferred, expired,
                 toRecover, interrupted, restarts, faults>>

\* The process is gone, with everything that was only in memory, and a new budget will
\* know nothing of the QEMU processes, which have process groups of their own and live on.
ProcessEnds ==
  /\ phase' = "down"
  /\ queue' = << >> /\ activeCount' = 0 /\ shut' = FALSE
  /\ budget' = NewResourceAllocator(HostCPUs, HostMemMB)
  /\ workerUp' = FALSE
  /\ pc' = [r \in Runs |-> "idle"]
  /\ releasing' = 0
  /\ deferred' = {}
  /\ expired' = {}
  /\ toRecover' = {}
  /\ submit' = [r \in Runs |-> IF submit[r] = "created" THEN "submitted" ELSE submit[r]]
  /\ cancel' = [r \in Runs |-> IF cancel[r] = "checked" THEN "none" ELSE cancel[r]]
  /\ interrupted' = interrupted \cup {r \in Runs : store[r] \in Unfinished}
  /\ vms' = {} /\ survivors' = survivors + Cardinality(vms)
  /\ UNCHANGED <<store, restarts, faults>>

\* wg.Wait returns and main ends.
Exit ==
  /\ phase = "stopping"
  /\ ~workerUp
  /\ releasing = 0
  /\ \A r \in Runs : pc[r] = "idle"
  /\ ProcessEnds

Crash ==
  /\ MayCrash
  /\ phase \in {"up", "draining", "stopping", "recovering"}
  /\ ProcessEnds

\* main runs again over the same database: RecoverState lists the unfinished runs
\* (or fails to, and recovery ends there).
Restart ==
  /\ Postgres
  /\ phase = "down"
  /\ restarts < MaxRestarts
  /\ restarts' = restarts + 1
  /\ phase' = "recovering"
  /\ \/ toRecover' = ListRunningTestRuns /\ UNCHANGED <<store, faults>>
     \/ toRecover' = {} /\ Fault
  /\ UNCHANGED <<queueVars, apiVars, hostVars, workerUp, pc, releasing, deferred, expired,
                 interrupted>>

\* One iteration of RecoverState's loop over the listed runs (in any order: when they
\* were created does not matter here).
RecoverRun(r) ==
  /\ r \in toRecover
  /\ toRecover' = toRecover \ {r}
  /\ \/ store[r] = "RUNNING" /\ Updated(r, "ERRORED") /\ RQEnqueue(r)
     \/ store[r] = "RUNNING" /\ Fault /\ UNCHANGED queueVars
     \/ store[r] = "PENDING" /\ RQEnqueue(r) /\ UNCHANGED <<store, faults>>
  /\ UNCHANGED <<apiVars, hostVars, phase, workerUp, pc, releasing, deferred, expired, interrupted,
                 restarts>>

\* engine.Start, and then the servers.
Start ==
  /\ phase = "recovering"
  /\ toRecover = {}
  /\ phase' = "up"
  /\ workerUp' = TRUE
  /\ UNCHANGED <<queueVars, apiVars, hostVars, store, pc, releasing, deferred, expired, toRecover,
                 interrupted, restarts, faults>>

\* QEMU ends by itself.
SurvivorEnds ==
  /\ survivors > 0
  /\ survivors' = survivors - 1
  /\ UNCHANGED <<queueVars, apiVars, processVars, budget, vms, store, pc, releasing, deferred,
                 expired, interrupted, faults>>

----------------------------------------------------------------------------
Execute(r) ==
  \/ MarkRunning(r) \/ GateRejects(r) \/ GateAcquires(r) \/ GateDefers(r)
  \/ VMStarts(r) \/ VMFails(r) \/ GuestReady(r) \/ GuestOrWorkflowErrors(r)
  \/ Verdict(r) \/ Teardown(r) \/ FreeResources(r) \/ RunCancel(r)

Next ==
  /\ phase # "panicked"
  /\ \/ \E r \in Runs : \/ SubmitCreate(r) \/ SubmitEnqueue(r)
                        \/ CancelCheck(r) \/ CancelWrite(r)
                        \/ Dispatch(r) \/ Execute(r) \/ Resubmit(r) \/ TimeOut(r)
                        \/ RecoverRun(r)
     \/ FreeSlot \/ Drain \/ Stop \/ WorkerExit \/ Exit \/ Crash \/ Restart \/ Start
     \/ SurvivorEnds

(***************************************************************************)
(* Fairness.  Goroutines that can run do run; every stage of an execution  *)
(* ends because its calls work under runCtx, which has a deadline; the     *)
(* sleep of the deferral goroutine ends; handlers return; the worker is    *)
(* fair as RunQueue promises.  Users, signals, timeouts, crashes and       *)
(* restarts are not owed.                                                  *)
(***************************************************************************)
Fairness ==
  /\ \A r \in Runs : /\ WF_vars(phase # "panicked" /\ SubmitEnqueue(r))
                     /\ WF_vars(phase # "panicked" /\ CancelWrite(r))
                     /\ WF_vars(phase # "panicked" /\ Execute(r))
                     /\ WF_vars(phase # "panicked" /\ Resubmit(r))
                     /\ WF_vars(phase # "panicked" /\ RecoverRun(r))
  /\ WF_vars(phase # "panicked" /\ ~shut /\ \E r \in Runs : Dispatch(r))
  /\ WF_vars(phase # "panicked" /\ FreeSlot)
  /\ WF_vars(phase # "panicked" /\ Stop)
  /\ WF_vars(phase # "panicked" /\ Start)
  /\ WF_vars(phase # "panicked" /\ WorkerExit)
  /\ WF_vars(phase # "panicked" /\ Exit)

Spec == Init /\ [][Next]_vars /\ Fairness

----------------------------------------------------------------------------
(* Properties                                                              *)

Stages == {"start", "gate", "vm", "guest", "tests", "teardown", "free", "cancel"}

\* The shape of the state.
TypeOK ==
  /\ queue \in Seq(Runs) /\ activeCount \in Nat /\ shut \in BOOLEAN
  /\ budget \in ResourceBudget
  /\ store \in [Runs -> Statuses \cup {"none"}]
  /\ phase \in {"up", "draining", "stopping", "down", "recovering", "panicked"}
  /\ workerUp \in BOOLEAN
  /\ pc \in [Runs -> Stages \cup {"idle"}]
  /\ releasing \in Nat
  /\ deferred \subseteq Runs /\ expired \subseteq Runs
  /\ submit \in [Runs -> {"new", "created", "submitted"}]
  /\ cancel \in [Runs -> {"none", "checked", "acknowledged"}]
  /\ toRecover \subseteq Runs /\ interrupted \subseteq Runs
  /\ vms \subseteq Runs /\ survivors \in Nat
  /\ restarts \in 0..MaxRestarts /\ faults \in 0..MaxFaults

Executing == {r \in Runs : pc[r] # "idle"}
InQueue(r) == \E i \in 1..Len(queue) : queue[i] = r

\* Slots are never leaked or freed twice, through deferrals, errors and restarts: the
\* scheduler's counter is the number of goroutines between Next and Release.
SlotsMatchExecutions == activeCount = Cardinality(Executing) + releasing

\* The runs that have passed TryAcquire and not yet their deferred Release.
Holders == {r \in Runs : pc[r] \in {"vm", "guest", "tests", "teardown", "free"}}

\* The allocator records what the executions between TryAcquire and Release need, and
\* that is within the host's limits.
BudgetIsExact ==
  /\ budget.UsedCPUs = VMCPUs * Cardinality(Holders)
  /\ budget.UsedMemMB = VMMemMB * Cardinality(Holders)
  /\ budget.UsedCPUs <= HostCPUs
  /\ budget.UsedMemMB <= HostMemMB

\* "Enforces limits so the orchestrator does not over-subscribe the machine": the record
\* is exact, and the QEMU processes need no more than the host has.  The code breaks the
\* second in two cases: after a crash, whose QEMU processes no budget knows of, and when
\* StartVM failed after it started QEMU, from the release of its memory to runCancel.
HostNotOversubscribed ==
  /\ BudgetIsExact
  /\ (survivors = 0 /\ \A r \in vms : pc[r] # "cancel") =>
       /\ VMCPUs * Cardinality(vms) <= HostCPUs
       /\ VMMemMB * Cardinality(vms) <= HostMemMB

\* A run is in one place: with its submitter, listed for recovery, once in the queue,
\* in one execution or in one deferral goroutine.  So it never executes twice at once.
SingleOwner ==
  /\ \A i, j \in 1..Len(queue) : queue[i] = queue[j] => i = j
  /\ \A r \in Runs :
       Cardinality({p \in {"submit", "recover", "queue", "execute", "defer"} :
                      \/ p = "submit" /\ submit[r] # "submitted"
                      \/ p = "recover" /\ r \in toRecover
                      \/ p = "queue" /\ InQueue(r)
                      \/ p = "execute" /\ pc[r] # "idle"
                      \/ p = "defer" /\ r \in deferred}) <= 1

Owned(r) ==
  submit[r] = "created" \/ r \in toRecover \/ InQueue(r) \/ pc[r] # "idle" \/ r \in deferred

\* A verdict is never replaced, except by a cancellation that had read the status
\* before the verdict was written.
VerdictFinal ==
  [][ \A r \in Runs :
        (store[r] \in {"PASSED", "FAILED"} /\ store'[r] # store[r]) =>
          (store'[r] = "CANCELLED" /\ cancel[r] = "checked") ]_vars

\* "Safely re-queues interrupted/crashed tests": once recovery is over, every run that was
\* unfinished when the process ended has somebody who will start it again, unless the
\* database failed in the meantime.  The exception is a second end of the process while
\* the store still has the ERRORED that the first recovery wrote: such a run is lost.
InterruptedRunsRequeued ==
  phase = "up" /\ faults = 0 =>
    \A r \in interrupted : Owned(r) \/ (restarts > 1 /\ store[r] = "ERRORED")

\* CancelTestRun "cancels a pending or running test run" only in the store: a cancellation
\* that was acknowledged is overwritten by the execution of its own run, which goes on, and
\* by nothing else, neither recovery nor a deferral.
CancelHolds ==
  [][ \A r \in Runs :
        (cancel[r] = "acknowledged" /\ store[r] = "CANCELLED" /\ store'[r] # "CANCELLED") =>
          pc[r] # "idle" ]_vars

\* While the orchestrator serves, only a deadline that made the store refuse the last write,
\* or a failure of the database, leaves a run PENDING or RUNNING with nobody to finish it.
OrphanedOnlyByDeadline ==
  phase = "up" /\ faults = 0 =>
    \A r \in Runs \ MayTimeOut : store[r] \in Unfinished => Owned(r)

\* Every submitted run ends with a final status while the orchestrator stays up, also
\* when it must be deferred because the host is full.
EveryRunFinishes ==
  \A r \in Runs : store[r] = "PENDING" ~> (store[r] \in Terminal \/ phase # "up")

\* Stop returns: the worker and the executions all end.
StopReturns == phase = "stopping" ~> phase \in {"down", "panicked"}
=============================================================================
