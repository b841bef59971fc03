------------------------------ MODULE VMManager ------------------------------
(***************************************************************************)
(* The life of one virtual machine: CreateVM, StartVM, StopVM, DestroyVM   *)
(* and cleanup of vm/manager.go as executeTestRun calls them, over the QMP *)
(* client, the QEMU process, the files on the host and the row of the      *)
(* vm_instances table; with them the RegisterAgent call of                 *)
(* api/agent_server.go, which writes the same row, a crash of the          *)
(* orchestrator, and the second half of RecoverState.                      *)
(*                                                                         *)
(* VMs share nothing but the map of live VMs and the counter behind their  *)
(* identifiers, so one is enough.  The store is Postgres: a statement      *)
(* fails once its context is done.                                         *)
(***************************************************************************)
EXTENDS QMPClient

CONSTANTS
  MaxAttempts,  \* connection attempts of StartVM, 30 in the code
  MaxFaults     \* bound on transient store errors

ASSUME VMAssumptions ==
  MaxAttempts \in Nat \ {0} /\ MaxFaults \in Nat /\ EventCap \in Nat

VARIABLES
  pc,          \* where executeTestRun is in the life of its VM
  failed,      \* StartVM returned an error
  attempt,     \* failed connection attempts
  runDone,     \* runCtx is done
  bootDone,    \* the boot timeout of StartVM has passed
  row,         \* [status, pid] of vm_instances; status "none" before SaveVM
  live,        \* liveVMs has an entry
  files,       \* of "qmp", "agent" (sockets) and "overlay" (disk), those that exist
  registered,  \* the agent coordinator knows the VM
  reg,         \* the RegisterAgent call of a remote agent
  faults

vars == <<qemu, qmpVars, pc, failed, attempt, runDone, bootDone, row, live, files, registered,
          reg, faults>>

ctxVars == <<runDone, bootDone>>
startVars == <<failed, attempt>>
agentVars == <<registered, reg>>

\* The files QEMU is told to use: two sockets to listen on, and a disk to open.
BuildQEMUArgs == [listen |-> {"qmp", "agent"}, drive |-> "overlay"]

Init ==
  /\ qemu = "none" /\ QMPInit
  /\ pc = "idle"
  /\ failed = FALSE /\ attempt = 0
  /\ runDone = FALSE /\ bootDone = FALSE
  /\ row = [status |-> "none", pid |-> 0]
  /\ live = FALSE
  /\ files = {}
  /\ registered = FALSE /\ reg = "none"
  /\ faults = 0

Fault ==
  /\ faults < MaxFaults
  /\ faults' = faults + 1
  /\ UNCHANGED row

\* UpdateVMStatus(ctx, id, s), whose error every caller in this module ignores.
UpdateVMStatus(ctxDone, s) ==
  \/ ~ctxDone /\ row' = [row EXCEPT !.status = s] /\ UNCHANGED faults
  \/ ctxDone /\ UNCHANGED <<row, faults>>
  \/ Fault

\* qmpCtx descends from runCtx.
BootCtxDone == bootDone \/ runDone

\* executeTestRun returns: the deferred runCancel ends runCtx.
Return == pc' = "done" /\ runDone' = TRUE /\ UNCHANGED bootDone

----------------------------------------------------------------------------
(* CreateVM and StartVM                                                    *)

\* The row is saved, with no process id; then the coordinator registers the VM.
CreateVM ==
  /\ pc = "idle"
  /\ \/ /\ ~runDone
        /\ row' = [status |-> "CREATING", pid |-> 0]
        /\ registered' = TRUE
        /\ pc' = "created"
        /\ UNCHANGED <<ctxVars, faults>>
     \/ runDone /\ Return /\ UNCHANGED <<row, registered, faults>>
     \/ Fault /\ Return /\ UNCHANGED registered
  /\ UNCHANGED <<qemu, qmpVars, startVars, live, files, reg>>

\* An error return of StartVM.
StartFails == pc' = "startFailed" /\ failed' = TRUE /\ UNCHANGED attempt

\* GetVM, the directories, the stale socket and the overlay.  Any of them may fail, and
\* qemu-img does once the context is done; none of the failures changes the status.
StartPrepares ==
  /\ pc = "created"
  /\ \/ /\ ~runDone
        /\ files' = (files \ {"qmp"}) \cup {"overlay"}
        /\ pc' = "spawn"
        /\ UNCHANGED startVars
     \/ StartFails /\ files' \in {files, files \cup {"overlay"}}
  /\ UNCHANGED <<qemu, qmpVars, ctxVars, row, live, agentVars, faults>>

\* cmd.Start, which refuses a context that is done.
StartSpawns ==
  /\ pc = "spawn"
  /\ \/ /\ ~runDone
        /\ BuildQEMUArgs.drive \in files
        /\ qemu' = "booting"
        /\ pc' = "spawned"
        /\ UNCHANGED <<startVars, row, faults>>
     \/ StartFails /\ UpdateVMStatus(runDone, "ERROR") /\ UNCHANGED qemu
  /\ UNCHANGED <<qmpVars, ctxVars, live, files, agentVars>>

\* The status changes; the process id goes to the instance in memory only.
StartMarksBooting ==
  /\ pc = "spawned"
  /\ UpdateVMStatus(runDone, "BOOTING")
  /\ pc' = "connect"
  /\ UNCHANGED <<qemu, qmpVars, startVars, ctxVars, live, files, agentVars>>

\* One Connect.
StartConnects ==
  /\ pc = "connect"
  /\ \/ (Dial(BootCtxDone) \/ Negotiate) /\ UNCHANGED <<pc, attempt>>
     \/ HandshakeDone /\ pc' = "connected" /\ UNCHANGED attempt
     \/ (DialRefused(BootCtxDone) \/ HandshakeFails) /\ pc' = "retry" /\ attempt' = attempt + 1
  /\ UNCHANGED <<qemu, failed, ctxVars, row, live, files, agentVars, faults>>

\* After a failed Connect: another attempt after half a second, or the end of the boot
\* timeout or of the attempts.
StartRetries ==
  /\ pc = "retry"
  /\ \/ attempt < MaxAttempts /\ pc' = "connect" /\ UNCHANGED <<startVars, row, faults>>
     \/ /\ BootCtxDone \/ attempt = MaxAttempts
        /\ UpdateVMStatus(runDone, "ERROR")
        /\ StartFails
  /\ UNCHANGED <<qemu, qmpVars, ctxVars, live, files, agentVars>>

StartListsLive ==
  /\ pc = "connected"
  /\ live' = TRUE
  /\ pc' = "live"
  /\ UNCHANGED <<qemu, qmpVars, startVars, ctxVars, row, files, agentVars, faults>>

\* QueryStatus under the boot timeout ...
StartQueries ==
  /\ \/ pc = "live" /\ pc' = "querying" /\ ExecuteSends("query-status")
     \/ pc = "querying" /\ ExecuteEnds(BootCtxDone) /\ UNCHANGED pc
  /\ UNCHANGED <<qemu, startVars, ctxVars, row, live, files, agentVars, faults>>

\* ... and READY if it says that the guest runs.  StartVM succeeds in any case.
StartReturns ==
  /\ pc = "querying" /\ call = "none"
  /\ IF answer.ok THEN UpdateVMStatus(runDone, "READY") ELSE UNCHANGED <<row, faults>>
  /\ pc' = "started"
  /\ UNCHANGED <<qemu, qmpVars, startVars, ctxVars, live, files, agentVars>>

StartVM ==
  \/ StartPrepares \/ StartSpawns \/ StartMarksBooting \/ StartConnects \/ StartRetries
  \/ StartListsLive \/ StartQueries \/ StartReturns

----------------------------------------------------------------------------
(* The end of the run: UnregisterVM, then StopVM and DestroyVM, both under *)
(* context.Background(); after a failed StartVM, DestroyVM under runCtx    *)

Unregister ==
  /\ \/ pc = "started" /\ pc' = "stop"
     \/ pc = "startFailed" /\ pc' = "destroy"
  /\ registered' = FALSE
  /\ UNCHANGED <<qemu, qmpVars, startVars, ctxVars, row, live, files, reg, faults>>

StopMarksStopping ==
  /\ pc = "stop"
  /\ live
  /\ UpdateVMStatus(FALSE, "STOPPING")
  /\ pc' = "powerdown"
  /\ UNCHANGED <<qemu, qmpVars, startVars, ctxVars, live, files, agentVars>>

\* The powerdown command; nothing but an answer or the end of QEMU ends the wait.
StopPowersDown ==
  /\ \/ pc = "powerdown" /\ pc' = "poweringDown" /\ ExecuteSends("system_powerdown")
     \/ pc = "poweringDown" /\ ExecuteEnds(FALSE) /\ UNCHANGED pc
     \/ /\ pc = "poweringDown" /\ call = "none"
        /\ pc' = IF answer.ok THEN "exitWait" ELSE "force"
        /\ UNCHANGED qmpVars
  /\ UNCHANGED <<qemu, startVars, ctxVars, row, live, files, agentVars, faults>>

\* Mutant: an accepted powerdown is taken for the end of the process.
StopTrustsPowerdown ==
  /\ pc = "exitWait"
  /\ pc' = "cleanup"
  /\ UNCHANGED <<qemu, qmpVars, startVars, ctxVars, row, live, files, agentVars, faults>>

\* process.Wait returns, or ten seconds pass.
StopAwaitsExit ==
  /\ pc = "exitWait"
  /\ \/ ~Alive /\ pc' = "cleanup"
     \/ pc' = "force"
  /\ UNCHANGED <<qemu, qmpVars, startVars, ctxVars, row, live, files, agentVars, faults>>

\* Kill only sends the signal: nobody waits for the end of the process.
Kill == qemu' = IF Alive THEN "killed" ELSE qemu

\* SIGTERM, which QEMU may answer with an orderly exit, two seconds, SIGKILL.
StopForces ==
  /\ pc = "force"
  /\ Kill
  /\ pc' = "cleanup"
  /\ UNCHANGED <<qmpVars, startVars, ctxVars, row, live, files, agentVars, faults>>

Cleanup ==
  /\ pc = "cleanup"
  /\ Close
  /\ live' = FALSE
  /\ pc' = "cleaned"
  /\ UNCHANGED <<qemu, startVars, ctxVars, row, files, agentVars, faults>>

StopMarksStopped ==
  /\ pc = "cleaned"
  /\ UpdateVMStatus(FALSE, "STOPPED")
  /\ pc' = "destroy"
  /\ UNCHANGED <<qemu, qmpVars, startVars, ctxVars, live, files, agentVars>>

StopVM ==
  \/ StopMarksStopping \/ StopPowersDown \/ StopAwaitsExit \/ StopForces \/ Cleanup
  \/ StopMarksStopped

\* The context of DestroyVM.
DestroyCtxDone == failed /\ runDone

\* The socket is removed if the row can be read.  (The VM is never live here.)
DestroyRemovesSocket ==
  /\ pc = "destroy"
  /\ \/ ~DestroyCtxDone /\ files' = files \ {"qmp"} /\ UNCHANGED faults
     \/ DestroyCtxDone /\ UNCHANGED <<files, faults>>
     \/ faults < MaxFaults /\ faults' = faults + 1 /\ UNCHANGED files
  /\ pc' = "destroyed"
  /\ UNCHANGED <<qemu, qmpVars, startVars, ctxVars, row, live, agentVars>>

DestroyMarksDestroyed ==
  /\ pc = "destroyed"
  /\ UpdateVMStatus(DestroyCtxDone, "DESTROYED")
  /\ pc' = "removeOverlay"
  /\ UNCHANGED <<qemu, qmpVars, startVars, ctxVars, live, files, agentVars>>

\* Mutant: the overlay is removed like the socket, if the store still answers.
DestroyRemovesOverlayInTime ==
  /\ pc = "removeOverlay"
  /\ files' = IF DestroyCtxDone THEN files ELSE files \ {"overlay"}
  /\ Return
  /\ UNCHANGED <<qemu, qmpVars, startVars, row, live, agentVars, faults>>

DestroyRemovesOverlay ==
  /\ pc = "removeOverlay"
  /\ files' = files \ {"overlay"}
  /\ Return
  /\ UNCHANGED <<qemu, qmpVars, startVars, row, live, agentVars, faults>>

DestroyVM == DestroyRemovesSocket \/ DestroyMarksDestroyed \/ DestroyRemovesOverlay

----------------------------------------------------------------------------
(* Contexts, QEMU and the remote agent                                     *)

\* The orchestrator process exists.
Up == pc \notin {"crashed", "recovered"}

\* The deadline of the run, or Stop of the engine.
RunExpires ==
  /\ Up
  /\ ~runDone
  /\ runDone' = TRUE
  /\ UNCHANGED <<qemu, qmpVars, pc, startVars, bootDone, row, live, files, agentVars, faults>>

BootExpires ==
  /\ pc \in {"connect", "retry", "connected", "live", "querying"}
  /\ ~bootDone
  /\ bootDone' = TRUE
  /\ UNCHANGED <<qemu, qmpVars, pc, startVars, runDone, row, live, files, agentVars, faults>>

\* Mutant: the end of the context ends only VMs that are listed as live.
CtxKillsLive ==
  /\ Up /\ runDone /\ Runs /\ live
  /\ Kill
  /\ UNCHANGED <<qmpVars, pc, startVars, ctxVars, row, live, files, agentVars, faults>>

\* exec.CommandContext kills QEMU when runCtx is done.
CtxKills ==
  /\ Up /\ runDone /\ Runs
  /\ Kill
  /\ UNCHANGED <<qmpVars, pc, startVars, ctxVars, row, live, files, agentVars, faults>>

\* QEMU opens its sockets.
QEMUListens ==
  /\ qemu = "booting"
  /\ qemu' = "up"
  /\ files' = files \cup BuildQEMUArgs.listen
  /\ UNCHANGED <<qmpVars, pc, startVars, ctxVars, row, live, agentVars, faults>>

\* QEMU ends by itself: it failed; or the guest powered off or SIGTERM came, and this
\* orderly end removes the sockets it listens on.
QEMUExits ==
  /\ Runs
  /\ \/ qemu' = "dead" /\ UNCHANGED files
     \/ qemu' = "exited" /\ files' = files \ BuildQEMUArgs.listen
  /\ UNCHANGED <<qmpVars, pc, startVars, ctxVars, row, live, agentVars, faults>>

\* The end of a process that was killed.
QEMUDies ==
  /\ qemu = "killed"
  /\ qemu' = "dead"
  /\ UNCHANGED <<qmpVars, pc, startVars, ctxVars, row, live, files, agentVars, faults>>

\* RegisterAgent: sent by the guest, looked up in the coordinator, then written to the
\* store without another look.
RegisterAgent ==
  /\ Up
  /\ \/ reg = "none" /\ qemu = "up" /\ reg' = "sent" /\ UNCHANGED <<row, faults>>
     \/ /\ reg = "sent"
        /\ reg' = IF registered THEN "notified" ELSE "over"
        /\ UNCHANGED <<row, faults>>
     \/ reg = "notified" /\ UpdateVMStatus(FALSE, "READY") /\ reg' = "over"
  /\ UNCHANGED <<qemu, qmpVars, pc, startVars, ctxVars, live, files, registered>>

----------------------------------------------------------------------------
(* Crash and recovery                                                      *)

\* QEMU has a process group of its own and outlives the orchestrator.
Crash ==
  /\ Up
  /\ pc' = "crashed"
  /\ live' = FALSE /\ registered' = FALSE /\ reg' = "over"
  /\ QMPReset
  /\ UNCHANGED <<qemu, startVars, ctxVars, row, files, faults>>

\* Mutant: every VM is taken for an orphan.
ListAllVMs == {"CREATING", "BOOTING", "READY", "RUNNING_TEST", "STOPPING", "STOPPED", "DESTROYED"}

\* The statuses ListOrphanedVMs selects.
ListOrphanedVMs == {"CREATING", "BOOTING", "RUNNING_TEST"}

\* RecoverState, part 2: an orphan with a known process id is killed and marked; either
\* the list or the update may fail.
RecoverVM ==
  /\ pc = "crashed"
  /\ pc' = "recovered"
  /\ \/ /\ row.status \in ListOrphanedVMs
        /\ IF row.pid > 0 THEN Kill ELSE UNCHANGED qemu
        /\ UpdateVMStatus(FALSE, "ERROR")
     \/ /\ row.status \notin ListOrphanedVMs
        /\ UNCHANGED <<qemu, row, faults>>
     \/ Fault /\ UNCHANGED qemu
  /\ UNCHANGED <<qmpVars, startVars, ctxVars, live, files, agentVars>>

----------------------------------------------------------------------------
Manager == CreateVM \/ StartVM \/ Unregister \/ StopVM \/ DestroyVM

otherVars == <<qemu, pc, startVars, ctxVars, row, live, files, agentVars, faults>>

Next ==
  \/ Manager
  \/ Reader /\ UNCHANGED otherVars
  \/ Monitor /\ UNCHANGED otherVars
  \/ RunExpires \/ BootExpires \/ CtxKills \/ QEMUListens \/ QEMUExits \/ QEMUDies
  \/ RegisterAgent \/ Crash \/ RecoverVM

\* The goroutines of the orchestrator run, the run's deadline passes and kills QEMU, and
\* a killed process ends.  QEMU owes nothing: it may never open its socket, greet, answer
\* or power off.
Fairness ==
  /\ WF_vars(Manager)
  /\ WF_vars(Reader /\ UNCHANGED otherVars)
  /\ WF_vars(RunExpires)
  /\ WF_vars(CtxKills)
  /\ WF_vars(QEMUDies)
  /\ WF_vars(RecoverVM)

Spec == Init /\ [][Next]_vars /\ Fairness

----------------------------------------------------------------------------
(* Properties                                                              *)

Lifecycle == <<"none", "CREATING", "BOOTING", "ERROR", "READY", "STOPPING", "STOPPED",
               "DESTROYED">>

\* No process runs for a VM shown as STOPPED, whatever the monitor answered to the
\* powerdown (it was sent SIGKILL if it exists at all); for one shown as DESTROYED, or
\* whose disk was removed, one runs only after a failed StartVM, whose QEMU DestroyVM
\* leaves to the end of runCtx.
StoppedIsDead ==
  (Runs /\ (row.status \in {"STOPPED", "DESTROYED"} \/ "overlay" \notin files)) =>
    (row.status # "STOPPED" /\ failed)

\* Execute returns the response to its own command, although responses carry no
\* identifier, unless an earlier command was given up and its answer came late.
AnswerIsOwn ==
  [][ (call # "none" /\ call' = "none" /\ answer'.kind = "response" /\ Up') =>
        (answer'.cmd = call \/ answer'.cmd \in givenUp) ]_vars

\* The status of a VM only moves forward, through recovery too.  The one exception is the
\* READY that RegisterAgent writes after its lookup: it may come after the VM was stopped,
\* destroyed or marked as failed, or so early that StartVM overwrites it.
StatusForward ==
  [][ \A i, j \in 1..Len(Lifecycle) :
        (row.status = Lifecycle[i] /\ row'.status = Lifecycle[j] /\ j < i) =>
          \/ reg = "notified" /\ row'.status = "READY"
          \/ reg = "over" /\ row.status = "READY" ]_vars

\* When the run has returned, the disk overlay is gone on every path; so is the monitor
\* socket if the VM had started and the store did not fail.  The agent's socket, which
\* DestroyVM never removes, is left only by a QEMU that failed or was killed.
NoFilesLeft ==
  pc = "done" =>
    /\ "overlay" \notin files
    /\ (~failed /\ faults = 0) => "qmp" \notin files
    /\ "agent" \in files => qemu \in {"up", "killed", "dead"}

\* The VM's part of a run ends with no QEMU process left while the orchestrator stays up,
\* also when QEMU hangs without answering, and when StartVM failed after the process was
\* started and the VM was never listed as live: the handshake, the powerdown and such a
\* process have no deadline of their own, and depend on the run's.
RunEndsQEMU == <>((pc = "done" /\ ~Alive) \/ pc = "recovered")

\* "If the VM's PID is still alive, it is SIGKILLed so the QEMU process doesn't outlive
\* the orchestrator": after recovery, a VM that was marked ERROR has no running process.
OrphansAreKilled == (pc = "recovered" /\ row.status = "ERROR") => ~Runs
=============================================================================
