---------------------------- MODULE RunSequence -----------------------------
(***************************************************************************)
(* One execution of one test run from end to end                           *)
(* (core/execution_engine.go, executeTestRun): what it writes to the       *)
(* store, publishes on the event bus, records in the audit log and sends   *)
(* to the guest, in which order, on every path out, while the deadline of  *)
(* the run may pass and the API may cancel the run at any moment.          *)
(***************************************************************************)
EXTENDS SuiteLoader

CONSTANTS
  Devices,   \* the device kinds tried: "qemu", "fpga" (no QEMU), "unknown"
  MaxFaults  \* bound on the store calls that fail, and on the events refused

ASSUME SequenceAssumptions == Devices \subseteq {"qemu", "fpga", "unknown"} /\ MaxFaults \in Nat

VARIABLES
  device,
  pc,       \* the step of executeTestRun
  expired,  \* runCtx is done
  row,      \* the status of the run in the store
  vm,       \* the run's VM
  sent,     \* the commands sent to the guest with the status answered
  failing,  \* a stored result failed
  verdict,  \* finalStatus, once the results were read
  bus,      \* the event bus is enabled
  events,   \* the stream
  dropped,  \* the events that Redis refused
  audit,    \* the audit log
  cancel,   \* where CancelTestRun is
  faults

runVars == <<device, pc, expired, row, vm, sent, failing, verdict, bus, events, dropped, audit, cancel, faults>>
vars == <<loaderVars, runVars>>
stream == <<events, dropped>>

Final == {"PASSED", "FAILED", "ERRORED", "CANCELLED"}

Init ==
  /\ LoaderInit
  /\ device \in Devices
  /\ pc = "start" /\ expired = FALSE
  /\ row = "PENDING" /\ vm = "none"
  /\ sent = << >> /\ failing = FALSE /\ verdict = "none"
  /\ bus \in BOOLEAN /\ events = << >> /\ dropped = {} /\ audit = << >>
  /\ cancel = "idle" /\ faults = 0

----------------------------------------------------------------------------
(* The parts executeTestRun calls                                          *)

\* The store refuses a write after the deadline, and may refuse another.
Update(status) ==
  \/ ~expired /\ row' = status /\ UNCHANGED faults
  \/ expired /\ UNCHANGED <<row, faults>>
  \/ ~expired /\ faults < MaxFaults /\ faults' = faults + 1 /\ UNCHANGED row

\* The caller does not learn that Redis refused its event.
XAdd(event) ==
  \/ events' = Append(events, event) /\ UNCHANGED dropped
  \/ Cardinality(dropped) < MaxFaults /\ dropped' = dropped \cup {event} /\ UNCHANGED events

\* Publish with the context of the run, and without.
Publish(event) == IF bus /\ ~expired THEN XAdd(event) ELSE UNCHANGED stream
PublishAlways(event) == IF bus THEN XAdd(event) ELSE UNCHANGED stream

\* A command the guest passes leads to next, another one ends the run ERRORED.
SendCommand(type, next) ==
  \E status \in {"passed", "failed", "error"} :
    /\ expired => status = "error"
    /\ sent' = Append(sent, <<type, status>>)
    /\ IF status = "passed"
         THEN pc' = next /\ UNCHANGED <<row, faults>>
         ELSE pc' = "teardown" /\ Update("ERRORED")

\* An error before there is a VM to tear down.
Fails ==
  /\ Update("ERRORED")
  /\ pc' = "end"
  /\ UNCHANGED <<vm, sent, failing, verdict, stream, audit>>

----------------------------------------------------------------------------
(* executeTestRun                                                          *)

Other == <<device, expired, bus, cancel>>

\* Step 1.  A write that fails ends the execution.
MarkRunning ==
  /\ pc = "start"
  /\ Update("RUNNING")
  /\ IF expired \/ faults' # faults
       THEN pc' = "end" /\ UNCHANGED stream
       ELSE pc' = "device" /\ Publish("test_run.started")
  /\ UNCHANGED <<loaderVars, Other, vm, sent, failing, verdict, audit>>

deviceSupportsQEMU == device # "fpga"

\* Steps 2 and 2a.
GateOnDevice ==
  /\ pc = "device"
  /\ \/ device = "unknown" /\ Fails
     \/ /\ device # "unknown" /\ ~deviceSupportsQEMU
        /\ Update("CANCELLED")
        /\ Publish("test_run.cancelled")
        /\ audit' = Append(audit, "cancelled")
        /\ pc' = "end"
        /\ UNCHANGED <<vm, sent, failing, verdict>>
     \/ /\ device # "unknown" /\ deviceSupportsQEMU
        /\ pc' = "load suite"
        /\ UNCHANGED <<row, faults, vm, sent, failing, verdict, stream, audit>>
  /\ UNCHANGED <<loaderVars, Other>>

\* Step 2b.
LoadSuite ==
  /\ pc = "load suite"
  /\ \/ loadTestSuite /\ UNCHANGED runVars
     \/ search.at = "failed" /\ Fails /\ UNCHANGED <<loaderVars, Other>>
     \/ /\ search.at = "loaded"
        /\ pc' = "allocate"
        /\ UNCHANGED <<loaderVars, Other, row, faults, vm, sent, failing, verdict, stream, audit>>

\* Step 2c: without resources the run is PENDING again and will be enqueued later.
Allocate ==
  /\ pc = "allocate"
  /\ \/ pc' = "create" /\ UNCHANGED <<row, faults>>
     \/ pc' = "deferred" /\ Update("PENDING")
  /\ UNCHANGED <<loaderVars, Other, vm, sent, failing, verdict, stream, audit>>

\* Step 3.
CreateVM ==
  /\ pc = "create"
  /\ \/ Fails
     \/ /\ ~expired
        /\ vm' = "created"
        /\ Publish("vm.created")
        /\ audit' = Append(audit, "vm.created")
        /\ pc' = "start vm"
        /\ UNCHANGED <<row, faults, sent, failing, verdict>>
  /\ UNCHANGED <<loaderVars, Other>>

\* A VM that does not start is destroyed at once, and no event says so.
StartVM ==
  /\ pc = "start vm"
  /\ \/ ~expired /\ vm' = "started" /\ pc' = "agent" /\ UNCHANGED <<row, faults>>
     \/ vm' = "discarded" /\ pc' = "end" /\ Update("ERRORED")
  /\ UNCHANGED <<loaderVars, Other, sent, failing, verdict, stream, audit>>

\* Step 4.
WaitForAgent ==
  /\ pc = "agent"
  /\ \/ ~expired /\ pc' = "load driver" /\ Publish("vm.ready") /\ UNCHANGED <<row, faults>>
     \/ pc' = "teardown" /\ Update("ERRORED") /\ UNCHANGED stream
  /\ UNCHANGED <<loaderVars, Other, vm, sent, failing, verdict, audit>>

\* Step 5.
LoadDriver ==
  /\ pc = "load driver"
  /\ SendCommand("load_driver", IF isVishwaSuite THEN "verify" ELSE "workflow")
  /\ IF pc' = "teardown" THEN UNCHANGED stream ELSE Publish("driver.loaded")
  /\ UNCHANGED <<loaderVars, Other, vm, failing, verdict, audit>>

VerifyDevice ==
  /\ pc = "verify"
  /\ SendCommand("verify_device", "workflow")
  /\ UNCHANGED <<loaderVars, Other, vm, failing, verdict, stream, audit>>

\* NewWorkflow refuses a suite without steps and two steps with one ID (module WorkflowBuild
\* has the rest).
NewWorkflowFails ==
  \/ suite.steps = << >>
  \/ \E i, j \in DOMAIN suite.steps : i # j /\ suite.steps[i].ID = suite.steps[j].ID

\* Step 6, in one step (module RunWorkflow has the rest): the workflow is refused, or cut
\* off by the deadline, or ends with results stored for the steps that got an answer.
RunWorkflow ==
  /\ pc = "workflow"
  /\ \/ /\ NewWorkflowFails
        /\ pc' = "teardown" /\ Update("ERRORED")
        /\ UNCHANGED <<sent, failing>>
     \/ /\ ~NewWorkflowFails /\ expired
        /\ pc' = "teardown" /\ Update("ERRORED")
        /\ sent' = Append(sent, <<"start_test", "error">>)
        /\ UNCHANGED failing
     \/ /\ ~NewWorkflowFails
        /\ \E status \in {"passed", "failed", "error"} :
             /\ sent' = Append(sent, <<"start_test", status>>)
             /\ failing' \in IF status = "error" THEN {FALSE} ELSE BOOLEAN
        /\ pc' = "verdict"
        /\ UNCHANGED <<row, faults>>
  /\ UNCHANGED <<loaderVars, Other, vm, verdict, stream, audit>>

\* Mutant: the verdict is the answer to the last command.
finalStatusAnswered == IF Last(sent)[2] = "passed" THEN "PASSED" ELSE "FAILED"

\* Step 7.  Results that cannot be read are no results.
finalStatus == IF failing /\ ~expired THEN "FAILED" ELSE "PASSED"

\* The error of the read is ignored ...
DecideVerdict ==
  /\ pc = "verdict"
  /\ \/ verdict' = finalStatus /\ UNCHANGED faults
     \/ faults < MaxFaults /\ faults' = faults + 1 /\ verdict' = "PASSED"
  /\ pc' = "complete"
  /\ UNCHANGED <<loaderVars, Other, row, vm, sent, failing, stream, audit>>

\* ... and so is that of the write.
Complete ==
  /\ pc = "complete"
  /\ Update(verdict)
  /\ Publish("test_run.completed")
  /\ audit' = Append(audit, verdict)
  /\ pc' = "teardown"
  /\ UNCHANGED <<loaderVars, Other, vm, sent, failing, verdict>>

\* Mutant: the event needs the context of the run.
TeardownInTime ==
  /\ pc = "teardown"
  /\ vm' = "destroyed"
  /\ Publish("vm.destroyed")
  /\ audit' = Append(audit, "vm.destroyed")
  /\ pc' = "end"
  /\ UNCHANGED <<loaderVars, Other, row, faults, sent, failing, verdict>>

\* The deferred clean-up has a context of its own.
Teardown ==
  /\ pc = "teardown"
  /\ vm' = "destroyed"
  /\ PublishAlways("vm.destroyed")
  /\ audit' = Append(audit, "vm.destroyed")
  /\ pc' = "end"
  /\ UNCHANGED <<loaderVars, Other, row, faults, sent, failing, verdict>>

executeTestRun ==
  \/ MarkRunning \/ GateOnDevice \/ LoadSuite \/ Allocate \/ CreateVM \/ StartVM \/ WaitForAgent
  \/ LoadDriver \/ VerifyDevice \/ RunWorkflow \/ DecideVerdict \/ Complete \/ Teardown

----------------------------------------------------------------------------
(* What happens around it                                                  *)

Over == pc \in {"end", "deferred"} \/ search.at = "panic"

Deadline ==
  /\ ~Over /\ ~expired
  /\ expired' = TRUE
  /\ UNCHANGED <<loaderVars, device, pc, row, vm, sent, failing, verdict, bus, stream, audit, cancel, faults>>

\* CancelTestRun reads the status, writes it, and records it.
CancelTestRun ==
  /\ \/ /\ cancel = "idle" /\ row \notin Final
        /\ cancel' = "checked"
        /\ UNCHANGED <<row, audit>>
     \/ /\ cancel = "checked"
        /\ cancel' = "written" /\ row' = "CANCELLED"
        /\ UNCHANGED audit
     \/ /\ cancel = "written"
        /\ cancel' = "done" /\ audit' = Append(audit, "cancelled")
        /\ UNCHANGED row
  /\ UNCHANGED <<loaderVars, device, pc, expired, vm, sent, failing, verdict, bus, stream, faults>>

Edit == \E l \in Locations : \E c \in Contents : EditFile(l, c) /\ UNCHANGED runVars

Next == search.at # "panic" /\ (executeTestRun \/ Deadline \/ CancelTestRun \/ Edit)

\* Every call of executeTestRun returns, at the latest at the deadline.
Spec == Init /\ [][Next]_vars

----------------------------------------------------------------------------
(* Properties                                                              *)

\* Consumers of the stream can pair VM events: a VM announced as created or ready is
\* announced as destroyed, whatever the deadline cut off in between, unless Redis refused
\* that event.  The one exception is a VM whose start failed, to which no command was sent
\* and which was not announced as ready.
VMEventsPair ==
  Over /\ ~Contains(events, "vm.destroyed") /\ "vm.destroyed" \notin dropped =>
    /\ Contains(events, "vm.created") => vm = "discarded" /\ sent = << >>
    /\ ~Contains(events, "vm.ready")

\* A verdict in the audit log is the one in the store, unless the deadline passed, the
\* store failed or the API cancelled; only a passed deadline or a failed read turns stored
\* failures into an audited PASSED; and no run has a verdict without starting a test.
AuditIsTruthful ==
  \A v \in {"PASSED", "FAILED"} : Contains(audit, v) =>
    /\ ~expired /\ faults = 0 /\ cancel \in {"idle", "checked"} => row = v
    /\ v = "PASSED" /\ failing => expired \/ faults > 0
    /\ \E i \in DOMAIN sent : sent[i][1] = "start_test"
=============================================================================
