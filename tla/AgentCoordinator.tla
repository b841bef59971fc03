------------------------- MODULE AgentCoordinator -------------------------
(***************************************************************************)
(* How a command of the engine reaches the guest agent of its VM and how   *)
(* the result finds its way back: the AgentCoordinator of                  *)
(* core/agent_state.go, the goroutines of vm/virtio_serial.go that serve   *)
(* the VM's socket, and the agent's own loop in                            *)
(* python-agent/agent/__main__.py.  A remote agent may serve the same VM   *)
(* through the gRPC methods of api/agent_server.go, which use the same     *)
(* coordinator.  VMs share nothing here, so the module has one, from       *)
(* RegisterVM to the end of its goroutines.                                *)
(*                                                                         *)
(* A message to the guest is "ack" or a command, a message to the host     *)
(* "register" or a command (its result).  Logs and heartbeats change       *)
(* nothing on the host and are left out.                                   *)
(***************************************************************************)
EXTENDS Naturals, Sequences, FiniteSets

CONSTANTS Commands,   \* the commands the engine sends to this VM, one per command ID
          Capacity,   \* of the commands channel, 16 in the code
          MaxBoots,   \* times the guest starts the agent (systemd restarts it)
          MayRemote,  \* whether there is a remote agent
          MayFail     \* whether deadlines pass, the agent dies and the VM is torn down

ASSUME AgentAssumptions ==
  /\ IsFiniteSet(Commands)
  /\ Commands \cap {"ack", "register", "down", "registering", "idle", "none", "poll", "gone",
                   "get", "off"} = {}
  /\ Capacity \in Nat \ {0}
  /\ MaxBoots \in Nat \ {0}
  /\ MayRemote \in BOOLEAN /\ MayFail \in BOOLEAN

VARIABLES ready,     \* state.ready is closed
          commands,  \* state.commands
          waiters,   \* the keys of state.resultWaiters
          resultCh,  \* per command, the number of results in its result channel
          send,      \* per command, its SendCommand: "new", "enqueue", "wait", "answered",
                     \* "error" or "panic"
          expired,   \* commands whose context is done
          runDone,   \* the run's context is done
          teardown,  \* "no", "unregistered", "disconnected", "stopped"
          serve,     \* serveVM: "on" or "off"
          pump,      \* per registration, its commandPump: "none", "get", a command, "off"
          toGuest,   \* the socket, host to guest
          toHost,    \* the socket, guest to host
          agent,     \* "down", "registering", "idle" or the command it executes
          boots,     \* agent starts so far
          remote,    \* the remote agent: "none", "idle", "poll" (in GetCommand), the command
                     \* it executes, or "gone"
          executed   \* per command, how often the agent executed it

coordVars == <<ready, commands, waiters, resultCh>>
engineVars == <<send, expired, runDone, teardown>>
hubVars == <<serve, pump>>
guestVars == <<agent, boots, remote, executed>>
vars == <<coordVars, engineVars, hubVars, toGuest, toHost, guestVars>>

\* RegisterVM, and ConnectVM with a dial that succeeded.
Init ==
  /\ ready = FALSE
  /\ commands = << >>
  /\ waiters = {}
  /\ resultCh = [c \in Commands |-> 0]
  /\ send = [c \in Commands |-> "new"]
  /\ expired = {}
  /\ runDone = FALSE
  /\ teardown = "no"
  /\ serve = "on"
  /\ pump = [k \in 1..MaxBoots |-> "none"]
  /\ toGuest = << >>
  /\ toHost = << >>
  /\ agent = "down"
  /\ boots = 0
  /\ remote = "none"
  /\ executed = [c \in Commands |-> 0]

\* ac.agents has an entry for the VM, and its commands channel is open.
Registered == teardown = "no"

\* The context of ConnectVM descends from the run's; DisconnectVM cancels it.
HubCtxDone == runDone \/ teardown \in {"disconnected", "stopped"}

InCall(c) == send[c] \in {"enqueue", "wait"}

----------------------------------------------------------------------------
(* SendCommand, by the engine or a step goroutine                          *)

\* The lookup and the new waiter.  The engine sends only after WaitForAgent returned; a
\* step goroutine may still be sending when the run was aborted.
SendStart(c) ==
  /\ send[c] = "new"
  /\ ready
  /\ Registered \/ runDone
  /\ IF Registered
       THEN send' = [send EXCEPT ![c] = "enqueue"] /\ waiters' = waiters \cup {c}
       ELSE send' = [send EXCEPT ![c] = "error"] /\ UNCHANGED waiters
  /\ UNCHANGED <<ready, commands, resultCh, expired, runDone, teardown, hubVars, toGuest,
                 toHost, guestVars>>

\* The first select: a channel that UnregisterVM closed in the meantime panics.
SendEnqueue(c) ==
  /\ send[c] = "enqueue"
  /\ \/ /\ Registered
        /\ Len(commands) < Capacity
        /\ commands' = Append(commands, c)
        /\ send' = [send EXCEPT ![c] = "wait"]
     \/ /\ ~Registered
        /\ send' = [send EXCEPT ![c] = "panic"]
        /\ UNCHANGED commands
  /\ UNCHANGED <<ready, waiters, resultCh, expired, runDone, teardown, hubVars, toGuest,
                 toHost, guestVars>>

\* The second select: the result.
SendReturns(c) ==
  /\ send[c] = "wait"
  /\ resultCh[c] > 0
  /\ resultCh' = [resultCh EXCEPT ![c] = @ - 1]
  /\ send' = [send EXCEPT ![c] = "answered"]
  /\ waiters' = waiters \ {c}
  /\ UNCHANGED <<ready, commands, expired, runDone, teardown, hubVars, toGuest, toHost,
                 guestVars>>

\* Either select: the context is done.  A queued command stays in the queue.
SendGivesUp(c) ==
  /\ InCall(c)
  /\ c \in expired
  /\ send' = [send EXCEPT ![c] = "error"]
  /\ waiters' = waiters \ {c}
  /\ UNCHANGED <<ready, commands, resultCh, expired, runDone, teardown, hubVars, toGuest,
                 toHost, guestVars>>

\* The deadline of one command: of its step, or of the run.
Expire(c) ==
  /\ MayFail
  /\ InCall(c)
  /\ c \notin expired
  /\ expired' = expired \cup {c}
  /\ UNCHANGED <<coordVars, send, runDone, teardown, hubVars, toGuest, toHost, guestVars>>

RunExpires ==
  /\ MayFail
  /\ ~runDone
  /\ runDone' = TRUE
  /\ expired' = Commands
  /\ UNCHANGED <<coordVars, send, teardown, hubVars, toGuest, toHost, guestVars>>

----------------------------------------------------------------------------
(* The teardown at the end of executeTestRun, in its order                 *)

\* Mutant: the teardown begins while steps are still sending.
UnregisterVMEarly ==
  /\ MayFail
  /\ teardown = "no"
  /\ teardown' = "unregistered"
  /\ UNCHANGED <<coordVars, send, expired, runDone, hubVars, toGuest, toHost, guestVars>>

\* The engine leaves when it waits for no command, or when the run was aborted.
UnregisterVM ==
  /\ MayFail
  /\ teardown = "no"
  /\ runDone \/ \A c \in Commands : ~InCall(c)
  /\ teardown' = "unregistered"
  /\ UNCHANGED <<coordVars, send, expired, runDone, hubVars, toGuest, toHost, guestVars>>

DisconnectVM ==
  /\ teardown = "unregistered"
  /\ teardown' = "disconnected"
  /\ UNCHANGED <<coordVars, send, expired, runDone, hubVars, toGuest, toHost, guestVars>>

\* QEMU ends and the guest with it.
StopVM ==
  /\ teardown = "disconnected"
  /\ teardown' = "stopped"
  /\ agent' = "down"
  /\ UNCHANGED <<coordVars, send, expired, runDone, hubVars, toGuest, toHost, boots, remote, executed>>

----------------------------------------------------------------------------
(* The hub: serveVM reads the socket, commandPump writes commands to it    *)

\* Mutant: the end of the stream does not end the loop.
ServeEndsOnMessage ==
  /\ serve = "on"
  /\ HubCtxDone /\ toHost # << >>
  /\ serve' = "off"
  /\ UNCHANGED <<coordVars, engineVars, pump, toGuest, toHost, guestVars>>

\* scanner.Scan returns a message after the context ended, or the end of the stream.
ServeEnds ==
  /\ serve = "on"
  /\ (HubCtxDone /\ toHost # << >>) \/ teardown = "stopped"
  /\ serve' = "off"
  /\ UNCHANGED <<coordVars, engineVars, pump, toGuest, toHost, guestVars>>

\* A line of the agent, of a result or of a log, is longer than the scanner takes: the
\* loop ends and closes the socket although run, VM and agent go on.
ScannerFails ==
  /\ MayFail
  /\ serve = "on"
  /\ boots > 0
  /\ serve' = "off"
  /\ UNCHANGED <<coordVars, engineVars, pump, toGuest, toHost, guestVars>>

\* "register": NotifyAgentReady (whose error is ignored), the ack, then the pump.
ServeRegister ==
  /\ serve = "on"
  /\ ~HubCtxDone
  /\ toHost # << >>
  /\ Head(toHost) = "register"
  /\ toHost' = Tail(toHost)
  /\ ready' = (ready \/ Registered)
  /\ toGuest' = Append(toGuest, "ack")
  /\ \E k \in 1..MaxBoots :
       /\ pump[k] = "none"
       /\ \A j \in 1..(k - 1) : pump[j] # "none"
       /\ pump' = [pump EXCEPT ![k] = "get"]
  /\ UNCHANGED <<commands, waiters, resultCh, engineVars, serve, guestVars>>

\* Mutant: a result goes to every caller that waits on this VM.
ServeResultToAllWaiters ==
  /\ serve = "on"
  /\ ~HubCtxDone
  /\ toHost # << >>
  /\ Head(toHost) \in Commands
  /\ toHost' = Tail(toHost)
  /\ resultCh' = [c \in Commands |-> IF c \in waiters THEN 1 ELSE resultCh[c]]
  /\ UNCHANGED <<ready, commands, waiters, engineVars, hubVars, toGuest, guestVars>>

\* DeliverResult.  Without a waiter, or with a full channel for five seconds, the result
\* is dropped.
DeliverResult(c) ==
  resultCh' = IF Registered /\ c \in waiters /\ resultCh[c] = 0
                THEN [resultCh EXCEPT ![c] = 1]
                ELSE resultCh

\* A "result".
ServeResult ==
  /\ serve = "on"
  /\ ~HubCtxDone
  /\ toHost # << >>
  /\ Head(toHost) \in Commands
  /\ toHost' = Tail(toHost)
  /\ DeliverResult(Head(toHost))
  /\ UNCHANGED <<ready, commands, waiters, engineVars, hubVars, toGuest, guestVars>>

\* Mutant: the command stays in the queue for the next pump.
PumpPeeks(k) ==
  /\ pump[k] = "get"
  /\ commands # << >>
  /\ pump' = [pump EXCEPT ![k] = Head(commands)]
  /\ UNCHANGED <<coordVars, engineVars, serve, toGuest, toHost, guestVars>>

\* GetNextCommand returns a command; a closed channel still hands out what it holds.
PumpGets(k) ==
  /\ pump[k] = "get"
  /\ commands # << >>
  /\ pump' = [pump EXCEPT ![k] = Head(commands)]
  /\ commands' = Tail(commands)
  /\ UNCHANGED <<ready, waiters, resultCh, engineVars, serve, toGuest, toHost, guestVars>>

\* The write to the socket, which fails after serveVM closed it.
PumpWrites(k) ==
  /\ pump[k] \in Commands
  /\ IF serve = "on"
       THEN toGuest' = Append(toGuest, pump[k]) /\ pump' = [pump EXCEPT ![k] = "get"]
       ELSE pump' = [pump EXCEPT ![k] = "off"] /\ UNCHANGED toGuest
  /\ UNCHANGED <<coordVars, engineVars, serve, toHost, guestVars>>

\* GetNextCommand returns an error.
PumpEnds(k) ==
  /\ pump[k] = "get"
  /\ ~Registered \/ HubCtxDone
  /\ pump' = [pump EXCEPT ![k] = "off"]
  /\ UNCHANGED <<coordVars, engineVars, serve, toGuest, toHost, guestVars>>

----------------------------------------------------------------------------
(* The agent                                                               *)

\* The agent starts, or is started again, and sends its registration.
AgentBoots ==
  /\ agent = "down"
  /\ teardown # "stopped"
  /\ boots < MaxBoots
  /\ boots' = boots + 1
  /\ agent' = "registering"
  /\ toHost' = Append(toHost, "register")
  /\ UNCHANGED <<coordVars, engineVars, hubVars, toGuest, remote, executed>>

\* register() reads one message, and goes on whether or not it is the ack.
AgentRegistered ==
  /\ agent = "registering"
  /\ toGuest # << >>
  /\ toGuest' = Tail(toGuest)
  /\ agent' = "idle"
  /\ UNCHANGED <<coordVars, engineVars, hubVars, toHost, boots, remote, executed>>

\* Mutant: what was received together with the command is dropped.
AgentReadsOne ==
  /\ agent = "idle"
  /\ toGuest # << >>
  /\ toGuest' = << >>
  /\ agent' = IF Head(toGuest) \in Commands THEN Head(toGuest) ELSE "idle"
  /\ UNCHANGED <<coordVars, engineVars, hubVars, toHost, boots, remote, executed>>

\* command_loop: anything but a command is ignored.
AgentReads ==
  /\ agent = "idle"
  /\ toGuest # << >>
  /\ toGuest' = Tail(toGuest)
  /\ agent' = IF Head(toGuest) \in Commands THEN Head(toGuest) ELSE "idle"
  /\ UNCHANGED <<coordVars, engineVars, hubVars, toHost, boots, remote, executed>>

\* Mutant: the result is sent twice.
AgentReportsTwice ==
  /\ agent \in Commands
  /\ executed' = [executed EXCEPT ![agent] = @ + 1]
  /\ toHost' = toHost \o <<agent, agent>>
  /\ agent' = "idle"
  /\ UNCHANGED <<coordVars, engineVars, hubVars, toGuest, boots, remote>>

\* execute: the command is carried out and its result sent.
AgentExecutes ==
  /\ agent \in Commands
  /\ executed' = [executed EXCEPT ![agent] = @ + 1]
  /\ toHost' = Append(toHost, agent)
  /\ agent' = "idle"
  /\ UNCHANGED <<coordVars, engineVars, hubVars, toGuest, boots, remote>>

\* The agent or the guest kernel dies, perhaps in the middle of a test.
AgentDies ==
  /\ MayFail
  /\ agent # "down"
  /\ agent' = "down"
  /\ UNCHANGED <<coordVars, engineVars, hubVars, toGuest, toHost, boots, remote, executed>>

----------------------------------------------------------------------------
(* The gRPC agent server, for a remote agent                               *)

\* RegisterAgent: NotifyAgentReady, whose error is the answer NotFound here.
RegisterAgent ==
  /\ MayRemote
  /\ remote = "none"
  /\ Registered
  /\ remote' = "idle"
  /\ ready' = TRUE
  /\ UNCHANGED <<commands, waiters, resultCh, engineVars, hubVars, toGuest, toHost, agent, boots,
                 executed>>

\* GetCommand is called, and waits in GetNextCommand unless the VM is unknown.
GetCommand ==
  /\ remote = "idle"
  /\ Registered
  /\ remote' = "poll"
  /\ UNCHANGED <<coordVars, engineVars, hubVars, toGuest, toHost, agent, boots, executed>>

\* GetCommand returns a command, which a closed channel also hands out, or the error of a
\* channel that is closed and empty.
GetCommandReturns ==
  /\ remote = "poll"
  /\ \/ /\ commands # << >>
        /\ remote' = Head(commands)
        /\ commands' = Tail(commands)
     \/ /\ commands = << >> /\ ~Registered
        /\ remote' = "idle"
        /\ UNCHANGED commands
  /\ UNCHANGED <<ready, waiters, resultCh, engineVars, hubVars, toGuest, toHost, agent, boots,
                 executed>>

\* The remote agent has executed its command and calls ReportResult.
ReportResult ==
  /\ remote \in Commands
  /\ executed' = [executed EXCEPT ![remote] = @ + 1]
  /\ DeliverResult(remote)
  /\ remote' = "idle"
  /\ UNCHANGED <<ready, commands, waiters, engineVars, hubVars, toGuest, toHost, agent, boots>>

\* The connection of the remote agent ends, and with it the context of its GetCommand; a
\* command that was on its way to it is gone.
RemoteLeaves ==
  /\ MayFail
  /\ remote \notin {"none", "gone"}
  /\ remote' = "gone"
  /\ UNCHANGED <<coordVars, engineVars, hubVars, toGuest, toHost, agent, boots, executed>>

----------------------------------------------------------------------------
SendCommand(c) == SendEnqueue(c) \/ SendReturns(c) \/ SendGivesUp(c)
Serve == ServeEnds \/ ServeRegister \/ ServeResult
Pump(k) == PumpGets(k) \/ PumpWrites(k) \/ PumpEnds(k)
Agent == AgentRegistered \/ AgentReads \/ AgentExecutes
Remote == RegisterAgent \/ GetCommand \/ GetCommandReturns \/ ReportResult \/ RemoteLeaves

\* A panic ends the process.
Panicked == \E c \in Commands : send[c] = "panic"

Next ==
  /\ ~Panicked
  /\ \/ \E c \in Commands : SendStart(c) \/ SendCommand(c) \/ Expire(c)
     \/ RunExpires \/ UnregisterVM \/ DisconnectVM \/ StopVM
     \/ Serve \/ ScannerFails \/ \E k \in 1..MaxBoots : Pump(k)
     \/ AgentBoots \/ Agent \/ AgentDies
     \/ Remote

\* Goroutines that can run do; deadlines pass; the teardown, once begun, goes on.  Nothing
\* obliges the engine to send a command, the guest to boot, or an agent to read and execute.
Fairness ==
  /\ \A c \in Commands : WF_vars(~Panicked /\ SendCommand(c)) /\ WF_vars(~Panicked /\ Expire(c))
  /\ WF_vars(~Panicked /\ Serve)
  /\ \A k \in 1..MaxBoots : WF_vars(~Panicked /\ Pump(k))
  /\ WF_vars(~Panicked /\ (DisconnectVM \/ StopVM))
  /\ WF_vars(~Panicked /\ GetCommandReturns)

Spec == Init /\ [][Next]_vars /\ Fairness

----------------------------------------------------------------------------
(* Properties                                                              *)

\* A test is not run twice for one command, even when the agent was restarted, has
\* registered again and two pumps and a remote agent read the queue.
ExecutedAtMostOnce == \A c \in Commands : executed[c] <= 1

\* SendCommand returns the result of its own command, after it was executed: late
\* results of commands that were given up never answer another.
AnswerFollowsExecution == \A c \in Commands : send[c] = "answered" => executed[c] = 1

\* DeliverResult never stalls the goroutine that reads the socket, nor a ReportResult: when
\* it finds a waiter, the channel of that waiter has room.
DeliveryNeverBlocks ==
  /\ \A i \in 1..Len(toHost) : toHost[i] \in waiters => resultCh[toHost[i]] = 0
  /\ remote \in waiters => resultCh[remote] = 0

\* While the agent that booted first is alive, and the remote one if there is one, and no
\* line was too long for the scanner, a command its caller waits for is not lost on its
\* way: it is in the channel, in a pump, in the socket, with an agent, or its result is in
\* the socket or in the channel of the caller.
CommandNotLost ==
  (boots = 1 /\ agent # "down" /\ remote # "gone" /\ serve = "on" /\ Registered /\ ~runDone) =>
     \A c \in Commands : send[c] = "wait" =>
        \/ \E i \in 1..Len(commands) : commands[i] = c
        \/ \E k \in 1..MaxBoots : pump[k] = c
        \/ \E i \in 1..Len(toGuest) : toGuest[i] = c
        \/ agent = c \/ remote = c
        \/ \E i \in 1..Len(toHost) : toHost[i] = c
        \/ resultCh[c] = 1

\* The teardown of a VM ends all its goroutines, and the long poll of a remote agent.
GoroutinesEnd ==
  teardown = "unregistered" ~>
    (Panicked \/ (/\ serve = "off" /\ remote # "poll"
                  /\ \A k \in 1..MaxBoots : pump[k] \in {"none", "off"}))

\* "UnregisterVM cleans up agent state for a VM that is being destroyed" and may take the
\* process with it: a SendCommand between its lookup and its send panics on the closed
\* channel.  That takes a run aborted by its deadline; a run that ends by itself cannot.
PanicOnlyAfterAbort == Panicked => runDone /\ ~Registered
=============================================================================
