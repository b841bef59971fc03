# TLA+ models of the Driver Validation Framework

The repository is a test bench for kernel drivers of accelerator cards. A Go
orchestrator accepts *test runs*, boots a QEMU machine with a device model for each,
loads the driver through an agent in the guest, executes a DAG of test binaries and
stores a verdict. This directory holds TLA+ specifications of the parts where
goroutines, channels, timeouts and crashes meet, the TLC configurations that check
them, and TLAPS proofs of the central properties.

Contents: [the system](#1-the-system) · [modules](#2-modules) · [runs](#3-runs) ·
[fairness](#4-fairness) · [proofs](#5-proofs) · [disagreements](#6-where-code-and-documents-disagree) ·
[not modelled](#7-what-is-not-modelled) · [plan](#8-plan)

Paths below are relative to `src/go-orchestrator/internal/` unless they start with
`src/`.

## 1. The system

| Part | Source | State it owns | Operations that change it |
|---|---|---|---|
| Orchestrator process | `src/go-orchestrator/cmd/orchestrator/main.go` | what it has opened and started | start-up, signal, deferred calls |
| Scheduler | `core/scheduler.go` | queue, active counter, capacity-1 notify channel | `Enqueue`, `Next`, `TryNext`, `Release`, `Close` |
| Resource allocator | `core/allocator.go` | used CPUs and memory of the host | `TryAcquire`, `Release`, `SetTotal` |
| Execution engine | `core/execution_engine.go` | worker, one goroutine per execution, deferral goroutines | `Start`, `Stop`, `SubmitTestRun`, `worker`, `executeTestRun` |
| Suite loader | `core/execution_engine.go` (`loadTestSuite`) | none | search, read, convert |
| Workflow DAG | `core/workflow.go` | status of each step, topological order | `NewWorkflow`, `MarkRunning`, `Advance` (with `propagateSkip`) |
| Workflow driver | `core/execution_engine.go` (`runWorkflow`) | step goroutines, results channel | launch, retry, report, abort, verdict |
| Recovery | `core/state_manager.go` | none | `RecoverState` |
| Stores | `storage/postgres.go`, `storage/memory.go` | test runs, results, VMs | create, update, list |
| API | `api/grpc_server.go` | none | `SubmitTestRun`, `CancelTestRun` |
| Agent coordinator | `core/agent_state.go` | per VM: ready channel, commands channel, result waiters | `RegisterVM`, `UnregisterVM`, `NotifyAgentReady`, `SendCommand`, `GetNextCommand`, `DeliverResult` |
| Virtio-serial hub | `vm/virtio_serial.go` | per VM: a reader, one pump per registration | `ConnectVM`, `DisconnectVM`, `serveVM`, `commandPump` |
| gRPC agent server | `api/agent_server.go` | none | `RegisterAgent`, `GetCommand`, `ReportResult` |
| Guest agent | `src/python-agent/agent/__main__.py` | its command loop | register, read, execute, reply |
| VM manager | `vm/manager.go` | live VMs, QEMU processes, sockets, disk overlays | `CreateVM`, `StartVM`, `StopVM`, `DestroyVM` |
| QMP client | `vm/qmp_client.go` | connection, reader, two channels | `Connect`, `Execute`, `Close`, the reader |
| Node registry | `cluster/` | nodes with status and last heartbeat | `Register`, `RunEviction` |
| Event bus, REST gateway, telemetry, audit log | `telemetry/`, `api/`, `observability/` | a stream; calls in progress | publish, serve, append |
| GPGPU driver, device models | `src/driver-source`, `src/qemu-accelerator-models` | the software under test | ioctls, interrupt |
| CI impact analyser, local runner | `src/scripts/ci_impact_analyzer.py`, `src/runner` | a plan | build, run, poll |

How they interact. The API creates a row and hands the run to the engine, which
enqueues it. The single worker takes runs from the scheduler while slots are free and
starts a goroutine for each. The goroutine marks the row RUNNING, loads the suite, takes
host resources or defers the run, has the VM manager boot a VM, waits for the agent, and
drives the workflow; step goroutines talk to the agent through the coordinator, whose
channel the hub's pump empties into the VM's socket, or a remote agent polls over gRPC.
Everything is undone by deferred calls. Only the tables survive the process; at the next
start `RecoverState` reads them. `main` builds all of this in order and takes it down in
the reverse order.

What is hard to get right, and what each model was written for, is listed with its
source line in `PROJECT.json` (`hazards`).

## 2. Modules

```
Orchestrator --> NodeRegistry          the process around everything
   :  (its runs in detail)
RunQueue  <--- implements --- Scheduler
   |
   +--> Engine <-- ResourceAllocator
           :  (one execution in detail)
           RunSequence --> SuiteLoader
           :  (its VM)            :  (its tests)
           VMManager              RunWorkflow --> Workflow, GuestAgent
             |                       :  (one command in detail)
             +--> QMPClient          AgentCoordinator

WorkflowGraph <-- Workflow             the DAG
                    <-- WorkflowBuild  NewWorkflow, which returns it

Stores                                 both stores under the same calls
```

An arrow is EXTENDS or INSTANCE. A dotted line is a change of scale: the lower module has
the detail of a stage the upper one treats as one step with arbitrary outcome. The proofs
about a module are in a module of its name with `Proofs` appended: `SchedulerProofs`,
`EngineProofs`, `WorkflowProofs` (over `WorkflowBuild`, `Workflow` and `RunWorkflow`),
`AgentCoordinatorProofs`, `VMManagerProofs` (with `QMPClient`), `RunSequenceProofs` (with
`SuiteLoader`), `StoresProofs` and `OrchestratorProofs` (with `NodeRegistry`).

| Module | Models | State | Actions and code |
|---|---|---|---|
| `RunQueue` | what the scheduler promises: a FIFO queue with a limit | `queue`, `activeCount`, `shut` | one action per method |
| `Scheduler` | `core/scheduler.go` | adds the tokens of `notify`, where the worker and each caller are | `Enqueue` and `Release` are two steps each (critical section, then signal); `Next` is check, block, receive |
| `ResourceAllocator` | `core/allocator.go` | `budget` | `TryAcquire`, `Release`, used by `Engine` |
| `Engine` | life of many runs through API, engine, store, shutdown, crash, recovery | `store` is the status column; `pc[r]` the stage of `executeTestRun`; `deferred` the sleeping deferral goroutines; `vms` the executions with a QEMU process and `survivors` those left by a crash; `interrupted` is history | an action for each store access or call that others can interleave with; every early return is an action or a disjunct |
| `SuiteLoader` | `loadTestSuite`, `splitPath` and the conversion to steps | the suite files by directory, the position of the search | one action per `Stat` or read, while the files may change |
| `RunSequence` | one `executeTestRun` from end to end | the row, the VM, the commands sent, the event stream and the events Redis refused, the audit log | one action per step of the function; the deadline, a failing write, a refused event and `CancelTestRun` between any two |
| `WorkflowBuild` | `NewWorkflow`: validation and Kahn's algorithm | `inDegree`, `queue`, `order` | one action per iteration; map iteration order is arbitrary |
| `Workflow` | the DAG afterwards | `status`, and `skipAt`, the position of `propagateSkip` | `MarkRunning`, `Advance`, one iteration of `propagateSkip` |
| `GuestAgent` | `parse_vishwa_output` and the reply to `start_test` | none | operators from what a binary did to the reply |
| `RunWorkflow` | `runWorkflow`, its step goroutines, `processResultsForStep`, the verdict | adds the loop, the goroutines, `resultsChan`, what was `saved` | the loop alternates `Launch` and `Receive`/`Abort`; a step is send, backoff, report |
| `AgentCoordinator` | coordinator, hub, guest agent and gRPC agent server for one VM | the channels, both directions of the socket, `pump`, `agent`, `remote`, `send` | `SendCommand` is lookup, first select, second select; `GetCommand` is a long poll that takes the command before it answers; `ScannerFails` ends the reader on a line that is too long |
| `QMPClient` | `vm/qmp_client.go` and the monitor behind the socket | the socket in both directions, `responseCh`, `eventsCh`, the reader, the `Execute` in progress | handshake, one action per message routed, the three ways out of `Execute` |
| `VMManager` | `vm/manager.go` for one VM, `RegisterAgent`'s write, a crash, recovery of VMs | the QEMU process (`"killed"` from SIGKILL until it ends), files on the host, the row, `liveVMs`, both contexts | one action per call that can fail or be cut off |
| `Stores` | `storage/memory.go` and `storage/postgres.go`, and the conversions of the API | the tables of both; `saving`, the results that step goroutines have completed and not saved | each action is one call made on both; reads are operators |
| `NodeRegistry` | `cluster/registry.go` | nodes, a clock, the eviction timer | `Register`, `Evict` |
| `Orchestrator` | `main.go`, probes, calls in progress | stage of `main`, servers, backends, each run as `main` sees it, a request and a stream in progress | one action per step of start-up and shutdown; either server may fail at any time |

Abstractions worth knowing. Run IDs, commands and step IDs are model values. A binary's
output is reduced in `GuestAgent` to the pieces the parser looks for, and the set of replies
is computed from every combination of them. A stored result is its status, since the verdict
looks at nothing else; in `Stores` it also has the time it completed, by which Postgres
sorts. A character of a Vishwa path is a separator or not. `Engine` uses `RunQueue` in place
of `Scheduler`, which is proved to implement it. Responses of QEMU carry the command they
answer in the model only; the code pairs them by order, and that is what `AnswerIsOwn` is
about. Time exists only in `NodeRegistry` (a counter) and in `Stores` (a counter that moves
with every write that stores a time, three units to the millisecond, so that truncating and
rounding a duration differ); elsewhere a timeout is an event that may come at any moment.

Definitions marked "Mutant" are wrong on purpose: nothing refers to them, and substituting
one for the definition that follows makes the property it is paired with in `PROJECT.json`
fail. `TypeOK` is stated in the modules with proofs, where it is a theorem.

## 3. Runs

`tlc -workers 2 -config <cfg> <module>`; sizes are distinct states.

| Run | cfg | Shows | Size |
|---|---|---|---|
| `scheduler` | `MCScheduler` | Three submissions, two slots, any `Close`. No wake-up is lost although the channel holds one token and senders drop theirs (`NoLostWakeup`), queued runs are dispatched (`EveryRunDispatched`), and the scheduler implements `RunQueue`, its fairness included (`ImplementsRunQueue`) | 9 644 |
| `engine` | `MCEngine` | Three runs, two slots, memory for one VM, memory store: runs are deferred and still finish (`EveryRunFinishes`), `Stop` returns (`StopReturns`) | 158 825 |
| `engine_faults` | `MCEngineFaults` | Two runs over Postgres with crashes, two restarts, a database error, a timeout, cancellations and a shutdown in any order: the record of memory exact and the QEMU processes within the host, but for those that a crash or a failed start left behind (`HostNotOversubscribed`), one owner per run (`SingleOwner`), interrupted runs queued again (`InterruptedRunsRequeued`), nobody forgotten but by a deadline (`OrphanedOnlyByDeadline`), verdicts final (`VerdictFinal`) | 987 795 |
| `workflow_build` | `MCWorkflowBuild` | Every graph over four steps, self-loops and unknown references included: Kahn's loop ends (`Terminates`) and accepts exactly the acyclic graphs (`RejectsExactlyBadGraphs`) | 2.2 million |
| `run_workflow` | `MCRunWorkflow` | Every DAG of three steps with one retry, a store that may fail and a context that may end: one goroutine or result per running step and a channel that always has room (`GoroutinePerRunningStep`), exactly the steps downstream of a failure skipped (`SkippedExactly`), the verdict not early (`PassedHasNoFailure`), the loop ends (`RunEnds`) and uses `Workflow` as specified (`ImplementsWorkflow`) | 981 936 |
| `agent` | `MCAgent` | Two concurrent commands through a channel of one, a guest agent that may die and register again, a remote agent that polls and may leave, a reader that may fail: executed at most once (`ExecutedAtMostOnce`), answers only after execution (`AnswerFollowsExecution`), delivery never blocks the reader (`DeliveryNeverBlocks`), commands not lost while the reader serves (`CommandNotLost`), a panic only after an abort (`PanicOnlyAfterAbort`), teardown ends all goroutines (`GoroutinesEnd`) | 590 644 |
| `vm` | `VMManager` | One VM with a monitor that may be slow, silent, wrong or gone, any deadline, a failing write, a late registration and a crash: STOPPED means no process but one that was sent SIGKILL (`StoppedIsDead`), no disk is left and which sockets may be (`NoFilesLeft`), responses go to their command (`AnswerIsOwn`), the status moves forward (`StatusForward`), and no QEMU outlives its run (`RunEndsQEMU`) | 483 769 |
| `stores` | `Stores` | Seven units of time on both stores: same runs, results, verdicts, VMs and recovery lists, and messages, durations and orders of results that differ only in stated cases (`BackendsAgree`); filters through both enumerations select what is shown (`ListsMatchGets`); pages (`PagesAgree`) | 328 171 |
| `orchestrator` | `Orchestrator` | Start-up with every failure, two runs, calls and requests in progress, servers that fail, an outage, a signal at any moment: store and bus outlive their users (`BackendsOutliveTheirUsers`), what `/readyz` promises (`ReadyMeansServing`), what a node's status says (`NodeStatusIsTimely`), with what in progress the process may end (`ExitsInOrder`), and that it does (`ShutdownCompletes`) | 2 266 492 |
| `run_sequence` | `RunSequence` | One execution on every device, every suite path up to three characters, every layout of suite files with an edit: path splitting against a definition by segments (`SplitPathIsExact`), which file wins (`NearestSuiteWins`), pairs of VM events (`VMEventsPair`), and what the audit log may say (`AuditIsTruthful`) | 6.6 million |

`run_verdict` and `vm_recovery` end in a counterexample on purpose; see section 6.

Bounds. Two slots and three runs are the least with a full limit and a waiting run; two
runs with memory for one VM give a deferral. Two restarts reach the window between two
recoveries; one fault already combines with every other event. Four steps contain every
shape `NewWorkflow` distinguishes (self-loop, longer cycle, diamond, disconnected parts);
three steps contain a chain for transitive skips, a fork and a join. A channel of capacity 1
in place of 16 makes it full with two commands. Two boots give two pumps. Two connection
attempts in place of 30 give a retry and an exhausted loop; one place in the event channel
is full after one event. Two runs and seven units of time let a run be deferred, started,
cancelled and finished, next to another one; two results are the least that can be saved in
another order than they completed. A TTL of 2 and four units of time contain a heartbeat, an
eviction and another heartbeat. `MaxRestarts`, `MaxFaults`, `RetryMax`, `MaxBoots`,
`Capacity`, `MaxAttempts`, `EventCap`, `MaxRuns`, `MaxVMs`, `MaxResults`, `MaxClock`,
`MaxTime`, `MaxOutages`, `MaxPath`, `MaxEdits` and `Root` are the named bounds. Deadlock
checking is off because all these systems may come to rest: no more submissions, a finished
workflow, a VM torn down, a process that exited or panicked.

## 4. Fairness

Weak fairness stands for the Go scheduler: a goroutine that can go on does. It is given to
the worker, to callers past their critical section, to step goroutines and pumps, to
handlers of gRPC calls in progress, to the VM manager and its reader, and to `main`'s
shutdown sequence. Stages of `executeTestRun` and `SendCommand` end because they work under
a context with a deadline (`execution_engine.go:220`, `:1083`); in `VMManager` that deadline
is itself an action with weak fairness, and so are the kill that `exec.CommandContext`
performs and the end of a process that was killed. No fairness is assumed of users, signals,
crashes, restarts, remote agents, telemetry clients, backends, guests or QEMU, which may
hang for ever without opening its socket, greeting, answering or powering off; nor of HTTP
requests, whose clients may take for ever to send them, of a line too long for the scanner,
or of the end of a QEMU left by a crash. `EveryRunFinishes` needs no strong fairness: a
deferred run comes back to the end of a FIFO queue. It is checked without crashes, where the
claim belongs. `ShutdownCompletes` excepts a telemetry stream or a request that its client
keeps open for ever, because nothing in the code ends one. `RunSequence` and `Stores` have
safety properties only and no fairness.

## 5. Proofs

TLAPS proves these for every value of the constants that satisfies the named assumption of
the module. TLC finds the inductive invariants true on the instances of section 3 too.
`PROJECT.json` lists the theorems. Every invariant and every action property that a passing
run checks is proved. Where an argument is an induction over data (the order of a workflow,
the iterations of `splitPath`, the pages) it is written as a least counterexample
(`LeastNatural`), since the provers cannot use the induction theorems of the library.

**Scheduler** (`SchedulerProofs`), from `Runs` finite and `MaxConcurrent` positive.
`IInv` is the type invariant with `SlotsAccounted`, `ConcurrencyLimit`, `QueueExact` and
`NewIsNowhere` (a run not yet submitted is neither queued nor executing), without which
a second submission could duplicate a queue entry. `SlotsAccounted` is what makes
`Release`'s test `activeCount > 0` always true for an execution that holds a slot.
`NoLostWakeup` is inductive relative to `IInv`: whoever makes a dispatch possible while
the worker waits is between its critical section and its signal. The refinement
`SchedulerImplementsRunQueue` maps each critical section to one abstract step and every
channel operation to a stutter; it is the safety part of `RunQueue`.

**Engine** (`EngineProofs`), from `Runs` finite and limits and sizes natural numbers; for
any number of crashes, restarts and faults. The counters are right only if a run that is
dispatched does not execute already, and a run is in one place only if recovery never lists
one that somebody still holds. So the invariant `EngineInv` has four parts. `PlaceInv`: the
queue has no repetition, the five places of a run exclude each other (`Apart`), a run not
yet submitted is unknown to store and users (`NewIsUnknown`), and a process that is down has
nothing in memory (`DownIsEmpty`). `CountInv`: the slot counter and the budget equal what
they count. `VMsAreExecuted`: a QEMU process belongs to an execution that holds resources
or, after a failed start, is about to end its context, so that the budget bounds what the
processes need. `VerdictIsLast`: a run with a verdict is past the last write of its
execution and in no place from which it could be started. `SlotsMatchExecutions`,
`HostNotOversubscribed`, `SingleOwner`, `VerdictFinal` and `CancelHolds` follow.
`ExecuteShape` says once what the steps of an execution have in common.

Who finishes a run is `OwnerInv`, inductive relative to `EngineInv`. That an unfinished row
has an owner does not survive the last step of an execution by itself: it needs that an
execution past its last write has left a final status (`FinishedIsFinal`), and that only a
deadline or `Stop` ends the context that write needs (`ClosedByStop`).
`InterruptedInv` follows an interrupted run through a crash: unfinished in the store while
the process is down for the first time, then listed, then queued, with the exception that
`InterruptedRunsRequeued` states (a row that a second crash found ERRORED).
`OrphanedOnlyByDeadline` is proved for every set `MayTimeOut`.

**NewWorkflow** (`WorkflowProofs`), from `Steps` finite and not empty. `KahnInv`: a
counter is the number of dependencies not yet in the order; the queue and the order are
disjoint, without repetitions, and together hold exactly the steps whose dependencies are
all in the order. When the queue runs empty with steps missing, those steps each have a
dependency among themselves, which is a cycle (`Cyclic`: a non-empty set of steps in
which every step depends on another of the set). So graphs of any size are accepted
exactly when they should be. `WorkflowBuildHandsOver` joins the two state machines: what
`NewWorkflow` returns is an initial state of `Workflow`, which starts from an arbitrary
topological order.

**Workflow and its driver** (`WorkflowProofs`). `WFInv` adds to type correctness and
`StartedAfterDeps` the two facts that make the single pass of `propagateSkip` sufficient:
`SkipCaused`, a skipped step has a failed or skipped dependency, and `Scanned`, behind the
scan no pending step has one. `SkippedExactly`, `NeverStuck` and `OutcomesFinal` follow, by
a least counterexample in the order (`LeastNatural`). For `runWorkflow` the heart of
`RunInv` is `RunningIsOwned`: a running step has a live goroutine or one result in the
channel, never both. It makes every received result one of a running step, so each step of
the loop is a step of `Workflow` or a stutter (`RunImplementsWorkflow`) and the theorems
about `Workflow` carry over; it bounds the channel by the number of steps
(`GoroutinePerRunningStep`); and once the loop has ended with every step done nobody is left
to store a result (`PassedHasNoFailure`).

**Command path** (`AgentCoordinatorProofs`), for any set of commands, any capacity and any
number of boots. `OnePlace`: a command is in at most one of the five places before its
execution (channel, pump, socket, guest agent, remote agent) and of the three after it
(socket, the caller's channel, the caller), and `executed` tells the two groups apart. It is
inductive only with `NoDuplicates` for each place. `ExecutedAtMostOnce`,
`AnswerFollowsExecution` and `DeliveryNeverBlocks` follow. `CommandNotLost` needs `AckFirst`
as well: an agent that registers takes one message for the acknowledgement without looking,
and for the first agent it is the acknowledgement. It is stated for a reader that serves.
`PanicOnlyAfterAbort` rests on `TeardownInOrder`.

**VM manager** (`VMManagerProofs`), for any number of connection attempts, events and
faults, by three invariants that do not need each other. `ProcessInv` says what QEMU and the
files are at each place of the run; `StoppedIsDead` and `NoFilesLeft` follow. `StatusInv`
says which statuses the row may have there, counting a READY of `RegisterAgent` apart;
`StatusForward` follows. `ChannelInv` says which commands may be in flight, be it as a
command, as a response in the socket or in the channel of capacity 1 (`InFlight`);
`AnswerIsOwn` needs it because a response that nobody collected stays for the next command.

**One execution** (`RunSequenceProofs`), for any depth of the working directory, any path,
any number of edits and faults. `LoaderInv` says what the search has ruled out
(`SearchedInVain`) at each of its places; `NearestSuiteWins` follows. Over it, `VMInStep`
ties the VM and its events, sent or refused, to the place of the run (`VMEventsPair`), and
`VerdictInStep` says what the verdict rests on before it is written, which is what
`AuditIsTruthful` says after.

`SplitPathIsExact` is about a loop, not about steps of the run. `LoopInv` holds after each
of its iterations: the parts collected are the texts of the maximal stretches without a
slash that have ended, from left to right, and `start` is where the open one begins, or the
next position if none is open. After the extra iteration at the end every stretch has ended
(`SplitIsExact`, for a text of any length over any characters). A listing of the stretches
from left to right is unique (`OneListing`), so it is the one that `Segments` chooses.

**Stores** (`StoresProofs`), for any finite set of devices and any number of runs, VMs,
results and writes. `StoresInv` relates the tables row by row (`RowsAgree`): equal columns
except for messages and durations, whose differences it describes, and times that lie before
the clock; `Durations` is the arithmetic of truncating and rounding. `ResultsMatch` relates
the results of a run: the table of Postgres is the set of what the memory store lists, and
the times of completion, of the results that still wait to be saved as well, all differ. So
a list in the order of completion exists (`CompletionOrder`), has every result once and is
the only one (`OneOrder`). `BackendsAgree` follows. `ListsMatchGets` adds that the
conversions of statuses to the API and back are inverse (`Conversions`), from the fact that
the names of the eight statuses differ. `PagesAgree` needs that the order of Postgres exists
(`DescendingExists`) and has every matching run; `StoresNewestFirst` says that it has each
once and newest first. This rests on the times of the model, which differ: runs that share a
`created_at` and results that share a `completed_at` are not covered.

**Process** (`OrchestratorProofs`), for any number of runs, nodes and outages and any TTL.
`PartsInStep` ties every part to the stage of `main`, `CallsInStep` the calls and the
executions. `BackendsOutliveTheirUsers` is inductive only with both: the store is closed
after `Stop` has seen the last execution end, and the calls have ended before `Stop`.
`TickInTime` bounds the next tick of the eviction timer, which `NodeStatusIsTimely` needs
between two ticks. `ReadyMeansServing` and `ExitsInOrder` follow from `PartsInStep` and
`CallsInStep`.

Model-checked only:

- all liveness (`EveryRunDispatched`, `EveryRunFinishes`, `StopReturns`, `Terminates`,
  `RunEnds`, `GoroutinesEnd`, `RunEndsQEMU`, `ShutdownCompletes`, the fair part of
  `ImplementsRunQueue`): the prover handles neither fairness nor ENABLED;
- the two properties of section 6 that the code violates.

## 6. Where code and documents disagree

Two runs have a counterexample that is what the code does.

| Run | Property | What happens |
|---|---|---|
| `run_verdict` | `PassedMeansAllPassed` | A step is answered with the status failed, as for a binary that exits with an error, while all results in the reply passed; these are stored, a retry ends the same way, and the verdict looks at stored results only (`execution_engine.go:573`; USER_TESTING_GUIDE.md:87). A step that is never answered has the same effect, since it stores nothing |
| `vm_recovery` | `OrphansAreKilled` | The process id is set in memory after the row was saved, so recovery reads 0 and leaves QEMU running (`vm/manager.go:352`; comment at `state_manager.go:10`) |

The others are stated as the exact exception in a property that holds, or were met while
modelling:

- Recovery writes ERRORED and enqueues a copy. A second crash before the run is RUNNING again
  finds ERRORED, which recovery does not list: the run is lost (`state_manager.go:56`; the
  exception in `InterruptedRunsRequeued`).
- The final status is written under the run's own context; past the deadline Postgres refuses
  it and the row stays RUNNING, while the audit log has a verdict (`execution_engine.go:578`;
  `OrphanedOnlyByDeadline`, `AuditIsTruthful`).
- Cancellation only writes the row; the execution never reads it and overwrites it
  (`grpc_server.go:166`; `CancelHolds`).
- Results of a failed attempt stay stored, so a retry that passes does not make the run
  PASSED (`execution_engine.go:1096`).
- `UnregisterVM` closes the channel a step goroutine of an aborted run may be about to send
  on, which panics (`agent_state.go:133`; `PanicOnlyAfterAbort`).
- `Stop` does not wait for deferral goroutines; one that wakes up after `Close` panics in
  `Enqueue`, which unlike `Release` does not recover (`phase = "panicked"` in `Engine`,
  `crashed` in `Scheduler`; `StopReturns` and `ExitsInOrder` allow it).
- `RegisterAgent` may write READY over STOPPED or DESTROYED (`StatusForward`).
- A VM whose start failed after QEMU was launched is shown DESTROYED while its process lives
  until the run's context ends (`StoppedIsDead`). The release of its memory comes before that
  end: `runCancel` was deferred earlier (`execution_engine.go:222`, `:317`). And the QEMU
  processes that survive a crash, in process groups of their own (`manager.go:328`), are
  unknown to the new budget. In both cases the allocator, which "enforces limits so the
  orchestrator does not over-subscribe the machine" (`allocator.go:4`), admits more than the
  host has (the two exceptions in `HostNotOversubscribed`).
- `DestroyVM` "removes all associated resources (sockets, overlays, records)"
  (`manager.go:461`), but it never removes the agent's socket, which stays after a QEMU that
  failed or was killed, and keeps the record with the status DESTROYED (`NoFilesLeft`).
- `StopVM` does not wait for the process it killed; STOPPED may be written while it still
  ends (`manager.go:452`; `StoppedIsDead`).
- A line of more than 64 KB ends the reader of a VM while its run goes on: nobody reads the
  results that follow, and each caller waits for its deadline (`virtio_serial.go:156`; the
  exception in `CommandNotLost`).
- An event is lost without the caller learning of it when Redis refuses it, and a VM whose
  start failed is announced as created and never as destroyed (`event_bus.go:112`,
  `execution_engine.go:377`; `VMEventsPair`).
- The memory store keeps an error message that Postgres clears, truncates durations that
  Postgres rounds, computes the duration of a run that never started differently, lists
  results as they were saved where Postgres sorts them by completion, and answers an offset
  past the end with the first page (`BackendsAgree`, `PagesAgree`).
- A Vishwa suite ID of slashes only has no last segment and panics (`SplitPathIsExact`).
- Where a binary prints its results one per line, without a document around them, the agent
  counts one whose status is "passed" as a failure (`__main__.py:184`), while
  `mapAgentStatus` takes it as passed: the reply is failed and its stored result PASSED (one
  way into `run_verdict`).
- The process registers its own node once and never again, so its own node goes offline
  while it serves (`NodeStatusIsTimely` says when). `/readyz` does not look at the gRPC
  server (`ReadyMeansServing`). Neither `GracefulStop` nor `Shutdown` has a bound, and one
  stalled request holds the process (`ShutdownCompletes`). A signal before `signal.Notify`
  kills it although both servers may serve already (`main.go:272`).
- README.md:30 says the scheduler respects priority; `Next` takes the head of the queue.
- `workflow.go:231` says `IsBlocked` holds when no step is running or ready; the code
  does not look at running steps. Nothing calls it.

## 7. What is not modelled

`PROJECT.json` lists every component with its status. Left out for good:

- generated protocol code, except the numbering of the status enumerations, and the
  forwarding of calls by the REST gateway;
- the GPGPU and FPGA drivers and the QEMU device models: they are the software under test
  and meet the framework only through the exit status of a test binary;
- the local runner, the CI impact analyser, image and build scripts: sequential programs
  outside the orchestrator;
- configuration values, log and trace output, the content of events and the trimming of
  their stream;
- code without a caller: `SetTotal` of the allocator, `Heartbeat` of the node registry (and
  the status degraded, which nothing writes), `DeleteVM`, `processResults` and
  `vishwaCommandSequence`. `Heartbeat` of the agent server only logs;
- the clock behind VM identifiers, which a restart within a second may repeat.

## 8. Plan

`VMManager` composed with `Engine` for two VMs and the map they share.
