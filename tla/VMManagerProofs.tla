-------------------------- MODULE VMManagerProofs --------------------------
(***************************************************************************)
(* Proofs about VMManager.tla and QMPClient.tla, for any number of         *)
(* connection attempts, of store errors and of buffered events.            *)
(*                                                                         *)
(* Three inductive invariants, none of which needs the other two:          *)
(*   ProcessInv  what QEMU and the files may be at each place of the run;  *)
(*   StatusInv   the statuses the row may have there;                      *)
(*   ChannelInv  the commands that may be in flight there, as commands, as *)
(*               messages in the socket or as the response in the channel. *)
(***************************************************************************)
EXTENDS VMManager, SequenceTheorems, TLAPS

\* Places of the run, in its order.
Preparing == {"idle", "created", "spawn"}
Connecting == {"connect", "retry"}
Querying == {"connected", "live", "querying"}
Started == {"started", "stop", "powerdown", "poweringDown", "exitWait", "force"}
Closing == {"cleanup", "cleaned"}
Destroying == {"destroy", "destroyed", "removeOverlay", "done"}
Places == Preparing \cup {"spawned"} \cup Connecting \cup Querying \cup Started \cup Closing
            \cup Destroying \cup {"startFailed", "crashed", "recovered"}

Statuses == {"none", "CREATING", "BOOTING", "READY", "ERROR", "STOPPING", "STOPPED", "DESTROYED"}

\* The shape of the row, and the places.
RowTypeOK ==
  /\ pc \in Places
  /\ row \in [status : Statuses, pid : Nat]

\* QEMU is spawned with its disk, and StopVM has killed it or seen its end.
ProcessInv ==
  /\ RowTypeOK
  /\ qemu \in {"none", "booting", "up", "killed", "dead", "exited"}
  /\ faults \in Nat
  /\ pc \in Preparing => qemu = "none"
  /\ pc = "idle" => files = {}
  /\ pc \in Closing => ~Runs
  /\ pc \in Destroying /\ ~failed => ~Runs
  /\ pc \in {"destroyed", "removeOverlay", "done"} /\ ~failed /\ faults = 0 => "qmp" \notin files
  /\ pc = "done" => "overlay" \notin files
  /\ "agent" \in files => qemu \in {"up", "killed", "dead"}
  /\ pc = "startFailed" => failed
  /\ row.status = "STOPPED" => ~Runs /\ pc \notin Preparing
  /\ Runs /\ (row.status = "DESTROYED" \/ "overlay" \notin files) => failed
  /\ row.status = "DESTROYED" => pc \notin Preparing

\* READY was written by RegisterAgent.
ReadyByAgent == row.status = "READY" /\ reg = "over"

\* The statuses that StartVM and StopVM have left behind them.
StatusInv ==
  /\ RowTypeOK
  /\ pc \in Preparing => qemu = "none" /\ reg = "none"
  /\ pc = "idle" => row.status = "none"
  /\ pc \in {"created", "spawn"} => row.status = "CREATING"
  /\ pc = "spawned" => row.status = "CREATING" \/ ReadyByAgent
  /\ pc \in Connecting \cup Querying => row.status \in {"CREATING", "BOOTING"} \/ ReadyByAgent
  /\ pc \in {"started", "stop"} => row.status \in {"CREATING", "BOOTING", "READY"}
  /\ pc \in {"powerdown", "poweringDown", "exitWait", "force"} \cup Closing =>
       row.status \in {"CREATING", "BOOTING", "READY", "STOPPING"}

Message == [kind : {"response", "event", "greeting"}, cmd : Commands \cup {"none"}, ok : BOOLEAN]

\* The socket and the channel of capacity 1.
QMPTypeOK ==
  /\ toQemu \in Seq(Commands)
  /\ toClient \in Seq(Message)
  /\ responseCh = << >> \/ \E m \in Message : responseCh = <<m>>

\* The commands in a sequence; the responses in a sequence of messages, and what they answer.
Sent(seq) == {seq[i] : i \in 1..Len(seq)}
Responses(seq) == {i \in 1..Len(seq) : seq[i].kind = "response"}
Answered(seq) == {seq[i].cmd : i \in Responses(seq)}
AtMostOne(seq) == \A i, j \in Responses(seq) : i = j

\* The commands in flight: on their way to QEMU, answered in the socket or in the channel.
InFlight ==
  Sent(toQemu) \cup Answered(toClient) \cup (IF responseCh = << >> THEN {} ELSE {Head(responseCh).cmd})

\* At most one command is in flight, and once.
OneInFlight ==
  /\ Len(toQemu) <= 1
  /\ AtMostOne(toClient)
  /\ toQemu # << >> => Responses(toClient) = {}
  /\ responseCh # << >> => toQemu = << >> /\ Responses(toClient) = {}

\* The connection at each place of the run.
ConnInv ==
  /\ pc \in Preparing \cup {"spawned", "retry"} => conn = "none"
  /\ pc = "connect" => conn \in {"none", "greeting", "negotiating"}
  /\ pc \in Querying \cup Started \cup {"cleanup"} => conn = "open"
  /\ pc \in Preparing \cup {"spawned"} \cup Connecting => reader = "none" /\ responseCh = << >>
  /\ conn = "open" /\ reader = "done" => ~Alive
  /\ pc \in Preparing => qemu = "none"
  /\ pc \in Preparing \cup {"spawned"} \cup Connecting \cup {"connected", "live"} => givenUp = {}
  /\ pc \notin {"querying", "poweringDown"} => call = "none"

\* The commands in flight at each place of the run.
ChannelInv ==
  /\ RowTypeOK
  /\ QMPTypeOK
  /\ ConnInv
  /\ pc \in Preparing \cup {"spawned"} \cup Connecting =>
       /\ Len(toQemu) + Len(toClient) <= 1
       /\ conn = "none" => toQemu = << >> /\ toClient = << >>
       /\ conn = "greeting" => toQemu = << >>
  /\ pc \in {"connected", "live"} => InFlight = {}
  /\ pc = "querying" /\ call # "none" =>
       call = "query-status" /\ givenUp = {} /\ InFlight \subseteq {call} /\ OneInFlight
  /\ pc \in {"querying", "started", "stop", "powerdown"} /\ call = "none" /\ Alive => InFlight \subseteq givenUp
  /\ pc = "poweringDown" /\ call # "none" => InFlight \subseteq givenUp \cup {call}

----------------------------------------------------------------------------
(* The row and the places                                                  *)

\* Every step keeps the shape of the row and goes to a place.
LEMMA RowTypeStep == RowTypeOK /\ [Next]_vars => RowTypeOK'
<1> SUFFICES ASSUME RowTypeOK, [Next]_vars PROVE RowTypeOK'
  OBVIOUS
<1> USE DEF RowTypeOK, Places, Preparing, Connecting, Querying, Started, Closing, Destroying, Statuses
<1>1. CASE CreateVM
  BY <1>1 DEF CreateVM, Return, Fault
<1>2. CASE StartVM
  BY <1>2 DEF StartVM, StartPrepares, StartSpawns, StartMarksBooting, StartConnects, StartRetries,
              StartListsLive, StartQueries, StartReturns, StartFails, UpdateVMStatus, Fault
<1>3. CASE StopVM
  BY <1>3 DEF StopVM, StopMarksStopping, StopPowersDown, StopAwaitsExit, StopForces, Kill, Cleanup,
              StopMarksStopped, UpdateVMStatus, Fault
<1>4. CASE Unregister \/ DestroyVM
  BY <1>4 DEF Unregister, DestroyVM, DestroyRemovesSocket, DestroyMarksDestroyed,
              DestroyRemovesOverlay, Return, UpdateVMStatus, Fault
<1>5. CASE RunExpires \/ BootExpires \/ CtxKills \/ QEMUListens \/ QEMUExits \/ QEMUDies
  BY <1>5 DEF RunExpires, BootExpires, CtxKills, Kill, QEMUListens, QEMUExits, QEMUDies
<1>6. CASE RegisterAgent \/ Crash \/ RecoverVM
  BY <1>6 DEF RegisterAgent, Crash, RecoverVM, UpdateVMStatus, Fault
<1>7. CASE UNCHANGED otherVars
  BY <1>7 DEF otherVars
<1>8. CASE UNCHANGED vars
  BY <1>8 DEF vars
<1> QED
  BY <1>1, <1>2, <1>3, <1>4, <1>5, <1>6, <1>7, <1>8 DEF Next, Manager

----------------------------------------------------------------------------
(* QEMU and the files                                                      *)

\* It holds at the start of a run.
LEMMA InitProcess == Init => ProcessInv
BY DEF Init, ProcessInv, RowTypeOK, Places, Preparing, Closing, Destroying, Statuses, Alive, Runs

\* Every step keeps it.
LEMMA ProcessStep == ProcessInv /\ [Next]_vars => ProcessInv'
<1> SUFFICES ASSUME ProcessInv, [Next]_vars PROVE ProcessInv'
  OBVIOUS
<1>0. RowTypeOK /\ RowTypeOK'
  BY RowTypeStep DEF ProcessInv
<1> USE <1>0 DEF ProcessInv, Alive, Runs, Preparing, Closing, Destroying, UpdateVMStatus, Fault, startVars,
             ctxVars
<1>a. row \in [status : Statuses, pid : Nat]
  BY DEF RowTypeOK
<1>1. CASE CreateVM
  BY <1>1 DEF CreateVM, Return
<1>2. CASE StartPrepares \/ StartConnects \/ StartListsLive \/ StartQueries
  BY <1>2 DEF StartPrepares, StartFails, StartConnects, StartListsLive, StartQueries
<1>3. CASE StartSpawns
  BY <1>3, <1>a DEF StartSpawns, StartFails, BuildQEMUArgs
<1>4. CASE StartMarksBooting \/ StartReturns
  BY <1>4, <1>a DEF StartMarksBooting, StartReturns
<1>5. CASE StartRetries
  BY <1>5, <1>a DEF StartRetries, StartFails
<1>6. CASE Unregister \/ StopPowersDown \/ StopAwaitsExit \/ StopForces \/ Cleanup
  BY <1>6 DEF Unregister, StopPowersDown, StopAwaitsExit, StopForces, Kill, Cleanup
<1>7. CASE StopMarksStopping \/ StopMarksStopped
  BY <1>7, <1>a DEF StopMarksStopping, StopMarksStopped
<1>8. CASE DestroyRemovesSocket
  BY <1>8 DEF DestroyRemovesSocket, DestroyCtxDone
<1>9. CASE DestroyMarksDestroyed
  BY <1>9, <1>a DEF DestroyMarksDestroyed
<1>10. CASE DestroyRemovesOverlay
  BY <1>10 DEF DestroyRemovesOverlay, Return
<1>11. CASE RunExpires \/ BootExpires \/ CtxKills
  BY <1>11 DEF RunExpires, BootExpires, CtxKills, Kill
<1>12. CASE QEMUListens
  BY <1>12 DEF QEMUListens, BuildQEMUArgs
<1>13. CASE QEMUExits \/ QEMUDies
  BY <1>13 DEF QEMUExits, QEMUDies, BuildQEMUArgs
<1>14. CASE RegisterAgent
  BY <1>14, <1>a DEF RegisterAgent, Up
<1>15. CASE Crash
  BY <1>15 DEF Crash
<1>16. CASE RecoverVM
  BY <1>16, <1>a DEF RecoverVM, Kill
<1>17. CASE UNCHANGED otherVars
  BY <1>17 DEF otherVars
<1>18. CASE UNCHANGED vars
  BY <1>18 DEF vars
<1> QED
  BY <1>1, <1>2, <1>3, <1>4, <1>5, <1>6, <1>7, <1>8, <1>9, <1>10, <1>11, <1>12, <1>13, <1>14,
     <1>15, <1>16, <1>17, <1>18
     DEF Next, Manager, StartVM, StopVM, DestroyVM

\* It holds in every reachable state.
THEOREM VMProcessInvariant == Spec => []ProcessInv
<1> QED
  BY InitProcess, ProcessStep, PTL DEF Spec

\* No process runs for a VM shown as STOPPED; for one shown as DESTROYED, or without its disk,
\* one runs only after a failed StartVM.
THEOREM VMStoppedIsDead == Spec => []StoppedIsDead
<1>1. ProcessInv => StoppedIsDead
  BY DEF ProcessInv, StoppedIsDead
<1> QED
  BY <1>1, VMProcessInvariant, PTL

\* A run that has returned leaves no overlay, and no monitor socket of a VM that had started
\* if the store did not fail; it leaves the agent's socket only if QEMU failed or was killed.
THEOREM VMNoFilesLeft == Spec => []NoFilesLeft
<1>1. ProcessInv => NoFilesLeft
  BY DEF ProcessInv, NoFilesLeft
<1> QED
  BY <1>1, VMProcessInvariant, PTL

----------------------------------------------------------------------------
(* The status                                                              *)

\* It holds at the start of a run.
LEMMA InitStatus == Init => StatusInv
BY DEF Init, StatusInv, RowTypeOK, Places, Preparing, Connecting, Querying, Closing, Statuses

\* Every step keeps it.
LEMMA StatusStep == StatusInv /\ [Next]_vars => StatusInv'
<1> SUFFICES ASSUME StatusInv, [Next]_vars PROVE StatusInv'
  OBVIOUS
<1>0. RowTypeOK /\ RowTypeOK'
  BY RowTypeStep DEF StatusInv
<1> USE <1>0 DEF StatusInv, ReadyByAgent, Preparing, Connecting, Querying, Closing, UpdateVMStatus,
             Fault, agentVars
<1>a. row \in [status : Statuses, pid : Nat]
  BY DEF RowTypeOK
<1>1. CASE CreateVM
  BY <1>1 DEF CreateVM, Return
<1>2. CASE StartPrepares \/ StartConnects \/ StartListsLive \/ StartQueries
  BY <1>2 DEF StartPrepares, StartFails, StartConnects, StartListsLive, StartQueries
<1>3. CASE StartSpawns
  BY <1>3, <1>a DEF StartSpawns, StartFails
<1>4. CASE StartMarksBooting \/ StartReturns
  BY <1>4, <1>a DEF StartMarksBooting, StartReturns
<1>5. CASE StartRetries
  BY <1>5, <1>a DEF StartRetries, StartFails
<1>6. CASE Unregister \/ StopPowersDown \/ StopAwaitsExit \/ StopForces \/ Cleanup
  BY <1>6 DEF Unregister, StopPowersDown, StopAwaitsExit, StopForces, Kill, Cleanup
<1>7. CASE StopMarksStopping \/ StopMarksStopped
  BY <1>7, <1>a DEF StopMarksStopping, StopMarksStopped
<1>8. CASE DestroyVM
  BY <1>8 DEF DestroyVM, DestroyRemovesSocket, DestroyMarksDestroyed, DestroyRemovesOverlay, Return
<1>9. CASE RunExpires \/ BootExpires \/ CtxKills \/ QEMUListens \/ QEMUExits \/ QEMUDies
  BY <1>9 DEF RunExpires, BootExpires, CtxKills, Kill, QEMUListens, QEMUExits, QEMUDies, Alive, Runs
<1>10. CASE RegisterAgent
  BY <1>10, <1>a DEF RegisterAgent, Up
<1>11. CASE Crash \/ RecoverVM
  BY <1>11 DEF Crash, RecoverVM
<1>12. CASE UNCHANGED otherVars
  BY <1>12 DEF otherVars
<1>13. CASE UNCHANGED vars
  BY <1>13 DEF vars
<1> QED
  BY <1>1, <1>2, <1>3, <1>4, <1>5, <1>6, <1>7, <1>8, <1>9, <1>10, <1>11, <1>12, <1>13
     DEF Next, Manager, StartVM, StopVM

\* It holds in every reachable state.
THEOREM VMStatusInvariant == Spec => []StatusInv
<1> QED
  BY InitStatus, StatusStep, PTL DEF Spec

\* The status of a VM only moves forward, but for the READY of RegisterAgent.
THEOREM VMStatusForward == Spec => StatusForward
<1> DEFINE Forward ==
             \A i, j \in 1..Len(Lifecycle) :
               (row.status = Lifecycle[i] /\ row'.status = Lifecycle[j] /\ j < i) =>
                 \/ reg = "notified" /\ row'.status = "READY"
                 \/ reg = "over" /\ row.status = "READY"
<1>1. StatusInv /\ [Next]_vars => [Forward]_vars
  <2> SUFFICES ASSUME StatusInv, Next PROVE Forward
    OBVIOUS
  <2>1. ASSUME \/ row'.status = row.status
               \/ row'.status = "DESTROYED"
               \/ row.status = "none"
               \/ row.status = "CREATING" /\ row'.status # "none"
               \/ row.status = "BOOTING" /\ row'.status \notin {"none", "CREATING"}
               \/ row.status = "READY" /\ row'.status \in {"STOPPING", "STOPPED"}
               \/ row.status = "STOPPING" /\ row'.status = "STOPPED"
               \/ reg = "notified" /\ row'.status = "READY"
               \/ reg = "over" /\ row.status = "READY"
        PROVE  Forward
    BY <2>1 DEF Lifecycle
  <2> HIDE DEF Forward
  <2>a. row \in [status : Statuses, pid : Nat]
    BY DEF StatusInv, RowTypeOK
  <2> USE DEF StatusInv, ReadyByAgent, UpdateVMStatus, Fault
  <2>2. CASE CreateVM
    BY <2>1, <2>2 DEF CreateVM
  <2>3. CASE StartSpawns \/ StartMarksBooting
    BY <2>1, <2>3, <2>a DEF StartSpawns, StartMarksBooting, Preparing
  <2>4. CASE StartRetries \/ StartReturns
    BY <2>1, <2>4, <2>a DEF StartRetries, StartReturns, Connecting, Querying
  <2>5. CASE StartPrepares \/ StartConnects \/ StartListsLive \/ StartQueries
    BY <2>1, <2>5 DEF StartPrepares, StartConnects, StartListsLive, StartQueries
  <2>6. CASE Unregister \/ StopPowersDown \/ StopAwaitsExit \/ StopForces \/ Cleanup
    BY <2>1, <2>6 DEF Unregister, StopPowersDown, StopAwaitsExit, StopForces, Kill, Cleanup
  <2>7. CASE StopMarksStopping \/ StopMarksStopped
    BY <2>1, <2>7, <2>a DEF StopMarksStopping, StopMarksStopped, Closing
  <2>8. CASE DestroyVM
    BY <2>1, <2>8, <2>a DEF DestroyVM, DestroyRemovesSocket, DestroyMarksDestroyed, DestroyRemovesOverlay
  <2>9. CASE RunExpires \/ BootExpires \/ CtxKills \/ QEMUListens \/ QEMUExits \/ QEMUDies \/ Crash
    BY <2>1, <2>9 DEF RunExpires, BootExpires, CtxKills, Kill, QEMUListens, QEMUExits, QEMUDies, Crash
  <2>10. CASE RegisterAgent
    BY <2>1, <2>10, <2>a DEF RegisterAgent
  <2>11. CASE RecoverVM
    <3>1. \/ row' = row
          \/ row.status \in ListOrphanedVMs /\ row' = [row EXCEPT !.status = "ERROR"]
      BY <2>11 DEF RecoverVM, Kill
    <3>3. [row EXCEPT !.status = "ERROR"].status = "ERROR"
      BY <2>a
    <3>2. row.status # "RUNNING_TEST"
      BY <2>a DEF Statuses
    <3> QED
      BY <2>1, <3>1, <3>3, <3>2 DEF ListOrphanedVMs
  <2>12. CASE UNCHANGED otherVars
    BY <2>1, <2>12 DEF otherVars
  <2> QED
    BY <2>2, <2>3, <2>4, <2>5, <2>6, <2>7, <2>8, <2>9, <2>10, <2>11, <2>12
       DEF Next, Manager, StartVM, StopVM
<1> QED
  BY <1>1, VMStatusInvariant, PTL DEF Spec, StatusForward

----------------------------------------------------------------------------
(* Commands in flight                                                      *)

\* What writing a command to the socket, and reading one, does to the commands in it.
LEMMA SocketCommands ==
  ASSUME NEW seq \in Seq(Commands), NEW c \in Commands
  PROVE  /\ Append(seq, c) \in Seq(Commands)
         /\ Len(Append(seq, c)) = Len(seq) + 1
         /\ Sent(Append(seq, c)) = Sent(seq) \cup {c}
         /\ seq # << >> => /\ Tail(seq) \in Seq(Commands) /\ Len(Tail(seq)) = Len(seq) - 1
                           /\ Head(seq) \in Sent(seq)
                           /\ Head(seq) \in Commands
                           /\ Sent(Tail(seq)) \subseteq Sent(seq)
<1>0. Len(seq) \in Nat
  BY LenProperties
<1>1. /\ Append(seq, c) \in Seq(Commands)
      /\ Len(Append(seq, c)) = Len(seq) + 1
      /\ Append(seq, c)[Len(seq) + 1] = c
      /\ \A i \in 1..Len(seq) : Append(seq, c)[i] = seq[i]
  BY AppendProperties, LenProperties
<1>2. Sent(Append(seq, c)) = Sent(seq) \cup {c}
  <2>1. 1..Len(Append(seq, c)) = 1..Len(seq) \cup {Len(seq) + 1}
    BY <1>0, <1>1
  <2> DEFINE a == Append(seq, c)
  <2> HIDE DEF a
  <2>2. ASSUME NEW x PROVE x \in Sent(a) <=> x \in Sent(seq) \cup {c}
    BY <1>1, <2>1 DEF Sent, a
  <2> QED
    BY <2>2 DEF a
<1>3. ASSUME seq # << >>
      PROVE  /\ Tail(seq) \in Seq(Commands) /\ Len(Tail(seq)) = Len(seq) - 1
             /\ Head(seq) \in Sent(seq)
             /\ Head(seq) \in Commands
             /\ Sent(Tail(seq)) \subseteq Sent(seq)
  <2>1. /\ Tail(seq) \in Seq(Commands) /\ Len(Tail(seq)) = Len(seq) - 1
        /\ Head(seq) \in Commands
        /\ \A i \in 1..Len(Tail(seq)) : Tail(seq)[i] = seq[i + 1]
    BY <1>3, HeadTailProperties
  <2>2. Len(seq) \in Nat \ {0} /\ Head(seq) = seq[1]
    BY <1>0, <1>3, EmptySeq
  <2>3. \A i \in 1..Len(Tail(seq)) : i + 1 \in 1..Len(seq)
    BY <2>1, <2>2
  <2>4. Sent(Tail(seq)) \subseteq Sent(seq)
    BY <2>1, <2>3 DEF Sent
  <2>5. Head(seq) \in Sent(seq)
    BY <2>2 DEF Sent
  <2> QED
    BY <2>1, <2>4, <2>5
<1> QED
  BY <1>1, <1>2, <1>3

\* What a message of QEMU adds to the responses in the socket.
LEMMA SocketAppend ==
  ASSUME NEW seq \in Seq(Message), NEW m \in Message
  PROVE  /\ Append(seq, m) \in Seq(Message)
         /\ Len(Append(seq, m)) = Len(seq) + 1
         /\ m.kind # "response" => /\ Responses(Append(seq, m)) = Responses(seq)
                                   /\ Answered(Append(seq, m)) = Answered(seq)
                                   /\ AtMostOne(seq) => AtMostOne(Append(seq, m))
         /\ Answered(Append(seq, m)) \subseteq Answered(seq) \cup {m.cmd}
         /\ Responses(seq) = {} => AtMostOne(Append(seq, m))
<1> DEFINE a == Append(seq, m)
<1>0. Len(seq) \in Nat
  BY LenProperties
<1>1. /\ a \in Seq(Message)
      /\ Len(a) = Len(seq) + 1
      /\ a[Len(seq) + 1] = m
      /\ \A i \in 1..Len(seq) : a[i] = seq[i]
  BY AppendProperties, LenProperties
<1> HIDE DEF a
<1>2. 1..Len(a) = 1..Len(seq) \cup {Len(seq) + 1} /\ Len(seq) + 1 \notin 1..Len(seq)
  BY <1>0, <1>1
<1>3. Responses(a) = IF m.kind = "response" THEN Responses(seq) \cup {Len(seq) + 1} ELSE Responses(seq)
  BY <1>1, <1>2 DEF Responses
<1>4. \A i \in Responses(seq) : a[i] = seq[i]
  BY <1>1 DEF Responses
<1>5. m.kind # "response" => /\ Responses(a) = Responses(seq) /\ Answered(a) = Answered(seq)
                             /\ AtMostOne(seq) => AtMostOne(a)
  BY <1>3, <1>4 DEF Answered, AtMostOne
<1>6. Answered(a) \subseteq Answered(seq) \cup {m.cmd}
  BY <1>1, <1>3, <1>4 DEF Answered
<1>7. Responses(seq) = {} => AtMostOne(a)
  BY <1>3 DEF AtMostOne
<1> QED
  BY <1>1, <1>5, <1>6, <1>7 DEF a

\* What reading a message takes away from the responses in the socket.
LEMMA SocketTail ==
  ASSUME NEW seq \in Seq(Message), seq # << >>
  PROVE  /\ Tail(seq) \in Seq(Message) /\ Head(seq) \in Message
         /\ Len(Tail(seq)) = Len(seq) - 1
         /\ Answered(Tail(seq)) \subseteq Answered(seq)
         /\ Responses(seq) = {} => Responses(Tail(seq)) = {}
         /\ AtMostOne(seq) => AtMostOne(Tail(seq))
         /\ Head(seq).kind = "response" => /\ Head(seq).cmd \in Answered(seq)
                                           /\ Responses(seq) # {}
                                           /\ AtMostOne(seq) => Responses(Tail(seq)) = {}
<1> DEFINE t == Tail(seq)
<1>1. /\ t \in Seq(Message) /\ Len(t) = Len(seq) - 1
      /\ Head(seq) \in Message
      /\ \A i \in 1..Len(t) : t[i] = seq[i + 1]
  BY HeadTailProperties
<1>2. Len(seq) \in Nat \ {0} /\ Head(seq) = seq[1]
  BY LenProperties, EmptySeq
<1> HIDE DEF t
<1>3. \A i \in 1..Len(t) : i + 1 \in 1..Len(seq) /\ i + 1 # 1
  BY <1>1, <1>2
<1>4. \A i \in Responses(t) : i + 1 \in Responses(seq) /\ i + 1 # 1 /\ t[i] = seq[i + 1] /\ i \in Nat
  BY <1>1, <1>3 DEF Responses
<1>5. Answered(t) \subseteq Answered(seq)
  BY <1>4 DEF Answered
<1>6. Responses(seq) = {} => Responses(t) = {}
  BY <1>4
<1>7. AtMostOne(seq) => AtMostOne(t)
  <2> SUFFICES ASSUME AtMostOne(seq), NEW i \in Responses(t), NEW j \in Responses(t) PROVE i = j
    BY DEF AtMostOne
  <2>1. i + 1 = j + 1 /\ i \in Nat /\ j \in Nat
    BY <1>4 DEF AtMostOne
  <2> QED
    BY <2>1
<1>8. Head(seq).kind = "response" => 1 \in Responses(seq)
  BY <1>2 DEF Responses
<1>9. Head(seq).kind = "response" => /\ Head(seq).cmd \in Answered(seq)
                                     /\ Responses(seq) # {}
                                     /\ AtMostOne(seq) => Responses(t) = {}
  BY <1>2, <1>4, <1>8 DEF Answered, AtMostOne
<1> QED
  BY <1>1, <1>5, <1>6, <1>7, <1>9 DEF t

\* An empty socket.
LEMMA SocketEmpty ==
  Sent(<< >>) = {} /\ Responses(<< >>) = {} /\ Answered(<< >>) = {} /\ AtMostOne(<< >>)
BY DEF Sent, Responses, Answered, AtMostOne

\* The reader and QEMU move commands on, and may lose a response; they add none.
LEMMA WireStep ==
  ASSUME QMPTypeOK, Reader \/ Monitor
  PROVE  /\ QMPTypeOK'
         /\ InFlight' \subseteq InFlight
         /\ OneInFlight => OneInFlight'
<1> USE DEF wireVars, readerVars, callVars
<1>1. CASE ReadResponse
  <2>1. toClient # << >> /\ toClient' = Tail(toClient) /\ toQemu' = toQemu /\ Head(toClient).kind = "response"
    BY <1>1 DEF ReadResponse
  <2>2. /\ toClient' \in Seq(Message) /\ Head(toClient) \in Message
        /\ Answered(toClient') \subseteq Answered(toClient)
        /\ AtMostOne(toClient) => AtMostOne(toClient') /\ Responses(toClient') = {}
        /\ Head(toClient).cmd \in Answered(toClient) /\ Responses(toClient) # {}
    BY <2>1, SocketTail DEF QMPTypeOK
  <2>3. CASE responseCh = << >>
    <3>1. responseCh' = <<Head(toClient)>> /\ responseCh' # << >> /\ Head(responseCh') = Head(toClient)
      BY <1>1, <2>2, <2>3 DEF ReadResponse
    <3>2. QMPTypeOK'
      BY <2>1, <2>2, <3>1 DEF QMPTypeOK
    <3>3. InFlight' \subseteq InFlight
      BY <2>1, <2>2, <3>1 DEF InFlight
    <3>4. OneInFlight => OneInFlight'
      BY <2>1, <2>2, <2>3 DEF OneInFlight
    <3> QED
      BY <3>2, <3>3, <3>4
  <2>4. CASE responseCh # << >>
    <3>1. responseCh' = responseCh
      BY <1>1, <2>4 DEF ReadResponse
    <3> QED
      BY <2>1, <2>2, <2>4, <3>1 DEF QMPTypeOK, InFlight, OneInFlight
  <2> QED
    BY <2>3, <2>4
<1>2. CASE ReadEvent
  <2>1. /\ toClient # << >> /\ toClient' = Tail(toClient) /\ toQemu' = toQemu /\ responseCh' = responseCh
    BY <1>2 DEF ReadEvent
  <2>2. /\ toClient' \in Seq(Message)
        /\ Answered(toClient') \subseteq Answered(toClient)
        /\ AtMostOne(toClient) => AtMostOne(toClient')
        /\ Responses(toClient) = {} => Responses(toClient') = {}
    BY <2>1, SocketTail DEF QMPTypeOK
  <2> QED
    BY <2>1, <2>2 DEF QMPTypeOK, InFlight, OneInFlight
<1>3. CASE ReaderExits
  BY <1>3 DEF ReaderExits, QMPTypeOK, InFlight, OneInFlight
<1>4. ASSUME NEW m \in Message, m.kind # "response",
             toClient' = Append(toClient, m), toQemu' = toQemu, responseCh' = responseCh
      PROVE  /\ QMPTypeOK'
             /\ InFlight' \subseteq InFlight
             /\ OneInFlight => OneInFlight'
  <2>1. /\ toClient' \in Seq(Message)
        /\ Responses(toClient') = Responses(toClient)
        /\ Answered(toClient') = Answered(toClient)
        /\ AtMostOne(toClient) => AtMostOne(toClient')
    BY <1>4, SocketAppend DEF QMPTypeOK
  <2> QED
    BY <1>4, <2>1 DEF QMPTypeOK, InFlight, OneInFlight
<1>5. CASE MonitorGreets
  <2>1. Greeting \in Message /\ Greeting.kind # "response"
    BY DEF Greeting, Message
  <2>2. toClient' = Append(toClient, Greeting) /\ toQemu' = toQemu /\ responseCh' = responseCh
    BY <1>5, <2>1 DEF MonitorGreets
  <2> QED
    BY <1>4, <2>1, <2>2
<1>6. CASE MonitorNotifies
  <2>1. Event \in Message /\ Event.kind # "response"
    BY DEF Event, Message
  <2>2. toClient' = Append(toClient, Event) /\ toQemu' = toQemu /\ responseCh' = responseCh
    BY <1>6 DEF MonitorNotifies
  <2> QED
    BY <1>4, <2>1, <2>2
<1>7. CASE MonitorAnswers
  <2>1. PICK ok \in BOOLEAN : toClient' = Append(toClient, Response(Head(toQemu), ok))
    BY <1>7 DEF MonitorAnswers
  <2> DEFINE m == Response(Head(toQemu), ok)
  <2>2. toQemu # << >> /\ toQemu' = Tail(toQemu) /\ responseCh' = responseCh
    BY <1>7 DEF MonitorAnswers
  <2>3. /\ toQemu' \in Seq(Commands) /\ Len(toQemu') = Len(toQemu) - 1
        /\ Head(toQemu) \in Sent(toQemu) /\ Head(toQemu) \in Commands
        /\ Sent(toQemu') \subseteq Sent(toQemu)
    <3>1. "query-status" \in Commands
      BY DEF Commands
    <3> QED
      BY <2>2, <3>1, SocketCommands DEF QMPTypeOK
  <2>4. m \in Message /\ m.cmd = Head(toQemu)
    BY <2>3 DEF Response, Message
  <2> HIDE DEF m
  <2>5. /\ toClient' \in Seq(Message)
        /\ Answered(toClient') \subseteq Answered(toClient) \cup {Head(toQemu)}
        /\ Responses(toClient) = {} => AtMostOne(toClient')
    BY <2>1, <2>4, SocketAppend DEF QMPTypeOK, m
  <2>6. QMPTypeOK'
    BY <2>2, <2>3, <2>5 DEF QMPTypeOK
  <2>7. InFlight' \subseteq InFlight
    BY <2>2, <2>3, <2>5 DEF InFlight
  <2>8. OneInFlight => OneInFlight'
    <3> SUFFICES ASSUME OneInFlight PROVE OneInFlight'
      OBVIOUS
    <3>1. Responses(toClient) = {} /\ responseCh = << >> /\ Len(toQemu) <= 1
      BY <2>2 DEF OneInFlight
    <3>2. Len(toQemu) \in Nat /\ Len(toQemu') \in Nat
      BY <2>3, LenProperties DEF QMPTypeOK
    <3>3. Len(toQemu') = 0
      BY <2>3, <3>1, <3>2
    <3>4. toQemu' = << >>
      BY <2>3, <3>3, EmptySeq
    <3> QED
      BY <2>2, <2>5, <3>1, <3>3, <3>4 DEF OneInFlight
  <2> QED
    BY <2>6, <2>7, <2>8
<1> QED
  BY <1>1, <1>2, <1>3, <1>5, <1>6, <1>7 DEF Reader, Monitor

\* Execute puts its command in flight, or returns at once.
LEMMA SendStep ==
  ASSUME QMPTypeOK, NEW cmd \in Commands, ExecuteSends(cmd)
  PROVE  /\ QMPTypeOK'
         /\ UNCHANGED <<conn, toClient, responseCh, reader, givenUp>>
         /\ \/ call' = "none" /\ InFlight' = InFlight
            \/ /\ call' = cmd /\ Alive /\ conn = "open"
               /\ InFlight' = InFlight \cup {cmd}
               /\ InFlight = {} => OneInFlight'
<1> USE DEF readerVars
<1>0. UNCHANGED <<conn, toClient, responseCh, reader, givenUp>>
  BY DEF ExecuteSends
<1>1. CASE conn = "open" /\ Alive
  <2>1. call' = cmd /\ toQemu' = Append(toQemu, cmd)
    BY <1>1 DEF ExecuteSends
  <2>2. toQemu' \in Seq(Commands) /\ Len(toQemu') = Len(toQemu) + 1 /\ Sent(toQemu') = Sent(toQemu) \cup {cmd}
    BY <2>1, SocketCommands DEF QMPTypeOK
  <2>3. QMPTypeOK'
    BY <1>0, <2>2 DEF QMPTypeOK
  <2>4. InFlight' = InFlight \cup {cmd}
    BY <1>0, <2>2 DEF InFlight
  <2>5. ASSUME InFlight = {} PROVE OneInFlight'
    <3>1. Sent(toQemu) = {} /\ Responses(toClient) = {} /\ responseCh = << >>
      BY <2>5 DEF InFlight, Answered
    <3>2. Len(toQemu) = 0
      BY <3>1, LenProperties DEF Sent, QMPTypeOK
    <3> QED
      BY <1>0, <2>2, <3>1, <3>2 DEF OneInFlight, AtMostOne
  <2> QED
    BY <1>0, <1>1, <2>1, <2>3, <2>4, <2>5
<1>2. CASE ~(conn = "open" /\ Alive)
  BY <1>0, <1>2 DEF ExecuteSends, QMPTypeOK, InFlight
<1> QED
  BY <1>1, <1>2

\* It holds at the start of a run.
LEMMA InitChannel == Init => ChannelInv
<1> SUFFICES ASSUME Init PROVE ChannelInv
  OBVIOUS
<1>1. RowTypeOK
  BY InitProcess DEF ProcessInv
<1>2. QMPTypeOK
  BY DEF Init, QMPInit, QMPTypeOK
<1>3. ConnInv
  BY DEF Init, QMPInit, ConnInv, Preparing, Connecting, Querying, Started
<1>4. Len(toQemu) + Len(toClient) <= 1 /\ pc = "idle" /\ toQemu = << >> /\ toClient = << >>
  BY DEF Init, QMPInit
<1> QED
  BY <1>1, <1>2, <1>3, <1>4 DEF ChannelInv

\* Every step keeps the connection in step with the run.
LEMMA ConnStep == ChannelInv /\ [Next]_vars => ConnInv'
<1> SUFFICES ASSUME ChannelInv, [Next]_vars PROVE ConnInv'
  OBVIOUS
<1>0. ConnInv /\ pc \in Places
  BY DEF ChannelInv, RowTypeOK
<1> USE <1>0 DEF ConnInv, Alive, Runs, Preparing, Connecting, Querying, Started, qmpVars, wireVars, readerVars,
             callVars
<1>1. CASE CreateVM \/ StartPrepares \/ StartSpawns \/ StartMarksBooting
  BY <1>1 DEF CreateVM, Return, StartPrepares, StartFails, StartSpawns, StartMarksBooting
<1>2. CASE StartConnects
  BY <1>2 DEF StartConnects, Dial, Negotiate, HandshakeDone, DialRefused, HandshakeFails
<1>3. CASE StartRetries \/ StartListsLive \/ StartReturns
  BY <1>3 DEF StartRetries, StartFails, StartListsLive, StartReturns
<1>4. CASE StartQueries
  BY <1>4 DEF StartQueries, ExecuteSends, ExecuteEnds, ExecuteReturns, ExecuteConnectionLost, ExecuteGivesUp
<1>5. CASE Unregister \/ StopMarksStopping \/ StopAwaitsExit \/ StopForces \/ Cleanup \/ StopMarksStopped
  BY <1>5 DEF Unregister, StopMarksStopping, StopAwaitsExit, StopForces, Kill, Cleanup, Close, StopMarksStopped
<1>6. CASE StopPowersDown
  BY <1>6 DEF StopPowersDown, ExecuteSends, ExecuteEnds, ExecuteReturns, ExecuteConnectionLost, ExecuteGivesUp
<1>7. CASE DestroyVM
  BY <1>7 DEF DestroyVM, DestroyRemovesSocket, DestroyMarksDestroyed, DestroyRemovesOverlay, Return
<1>8. CASE Reader /\ UNCHANGED otherVars
  BY <1>8 DEF Reader, ReadResponse, ReadEvent, ReaderExits, otherVars
<1>9. CASE Monitor /\ UNCHANGED otherVars
  BY <1>9 DEF Monitor, MonitorGreets, MonitorAnswers, MonitorNotifies, otherVars
<1>10. CASE RunExpires \/ BootExpires \/ CtxKills \/ QEMUListens \/ QEMUExits \/ QEMUDies \/ RegisterAgent
  BY <1>10 DEF RunExpires, BootExpires, CtxKills, Kill, QEMUListens, QEMUExits, QEMUDies, RegisterAgent
<1>11. CASE Crash \/ RecoverVM
  BY <1>11 DEF Crash, QMPReset, RecoverVM, Kill
<1>12. CASE UNCHANGED vars
  BY <1>12 DEF vars
<1> QED
  BY <1>1, <1>2, <1>3, <1>4, <1>5, <1>6, <1>7, <1>8, <1>9, <1>10, <1>11, <1>12
     DEF Next, Manager, StartVM, StopVM

\* The handshake leaves the connection with nothing in flight.
LEMMA HandshakeStep == ChannelInv /\ StartConnects => ChannelInv'
<1> SUFFICES ASSUME ChannelInv, StartConnects PROVE ChannelInv'
  OBVIOUS
<1>0. RowTypeOK' /\ ConnInv'
  <2>1. Next
    BY DEF Next, Manager, StartVM
  <2> QED
    BY <2>1, RowTypeStep, ConnStep DEF ChannelInv
<1>1. /\ pc = "connect" /\ Len(toQemu) + Len(toClient) <= 1
      /\ conn = "none" => toQemu = << >> /\ toClient = << >>
      /\ conn = "greeting" => toQemu = << >>
      /\ toQemu \in Seq(Commands) /\ toClient \in Seq(Message) /\ responseCh = << >>
      /\ Len(toQemu) \in Nat /\ Len(toClient) \in Nat
  BY LenProperties DEF ChannelInv, QMPTypeOK, ConnInv, Connecting, StartConnects
<1> USE DEF qmpVars, wireVars, readerVars, callVars
<1>2. CASE (Dial(BootCtxDone) /\ pc' = pc) \/ (DialRefused(BootCtxDone) /\ pc' = "retry")
  BY <1>0, <1>1, <1>2 DEF Dial, DialRefused, ChannelInv, QMPTypeOK, Connecting
<1>3. CASE Negotiate /\ pc' = pc
  <2>1. toClient # << >> /\ conn = "greeting" /\ conn' = "negotiating" /\ responseCh' = responseCh
    BY <1>3 DEF Negotiate
  <2>2. toClient' \in Seq(Message) /\ Len(toClient') = Len(toClient) - 1
    BY <1>1, <1>3, <2>1, SocketTail DEF Negotiate
  <2>3. toQemu' \in Seq(Commands) /\ Len(toQemu') = Len(toQemu) + 1
    BY <1>1, <1>3, SocketCommands DEF Negotiate, Commands
  <2>4. QMPTypeOK'
    BY <1>1, <2>1, <2>2, <2>3 DEF QMPTypeOK
  <2>5. Len(toQemu') + Len(toClient') <= 1
    BY <1>1, <2>2, <2>3
  <2> QED
    BY <1>0, <1>1, <1>3, <2>1, <2>4, <2>5 DEF ChannelInv
<1>4. CASE HandshakeDone /\ pc' = "connected"
  <2>1. toClient # << >> /\ toClient' = Tail(toClient) /\ toQemu' = toQemu /\ responseCh' = responseCh
    BY <1>4 DEF HandshakeDone
  <2>2. toClient' \in Seq(Message) /\ Len(toClient') = Len(toClient) - 1 /\ Len(toClient') \in Nat
    BY <1>1, <2>1, SocketTail, LenProperties
  <2>3. Len(toQemu) = 0 /\ Len(toClient') = 0
    BY <1>1, <2>2
  <2>4. toQemu' = << >> /\ toClient' = << >>
    BY <1>1, <2>1, <2>2, <2>3, EmptySeq
  <2>5. QMPTypeOK' /\ InFlight' = {}
    BY <1>1, <2>1, <2>2, <2>4, SocketEmpty DEF QMPTypeOK, InFlight
  <2> QED
    BY <1>0, <1>4, <2>5 DEF ChannelInv, Preparing, Connecting
<1>5. CASE HandshakeFails /\ pc' = "retry"
  <2>1. toQemu' = << >> /\ toClient' = << >> /\ conn' = "none" /\ responseCh' = << >>
    BY <1>1, <1>5 DEF HandshakeFails
  <2>2. QMPTypeOK' /\ Len(toQemu') + Len(toClient') <= 1
    BY <2>1 DEF QMPTypeOK
  <2> QED
    BY <1>0, <1>5, <2>1, <2>2 DEF ChannelInv
<1> QED
  BY <1>2, <1>3, <1>4, <1>5 DEF StartConnects

\* A step that leaves the socket and the channel alone keeps ChannelInv if it goes to a place
\* that asks no more of them.
LEMMA QuietStep ==
  ASSUME ChannelInv, RowTypeOK', ConnInv', UNCHANGED qmpVars, Alive' => Alive \/ pc \in Preparing,
         \/ pc' = pc
         \/ pc' \in Preparing \cup {"spawned"} \cup Connecting /\ pc \in Preparing \cup {"spawned"} \cup Connecting
         \/ pc' \in {"connected", "live"} /\ pc \in {"connected", "live"}
         \/ /\ pc' \in {"started", "stop", "powerdown"}
            /\ pc \in {"querying", "started", "stop", "powerdown"} /\ call = "none"
         \/ pc' \notin Preparing \cup {"spawned"} \cup Connecting
                         \cup {"connected", "live", "querying", "started", "stop", "powerdown", "poweringDown"}
  PROVE  ChannelInv'
<1> USE DEF qmpVars
<1>1. /\ QMPTypeOK' = QMPTypeOK /\ InFlight' = InFlight /\ OneInFlight' = OneInFlight
      /\ UNCHANGED <<toQemu, toClient, conn, call, givenUp>>
  BY DEF QMPTypeOK, InFlight, OneInFlight
<1> QED
  BY <1>1 DEF ChannelInv, Preparing, Connecting

\* The end of an Execute.
LEMMA EndStep ==
  ASSUME QMPTypeOK, NEW d, ExecuteEnds(d)
  PROVE  /\ QMPTypeOK' /\ call # "none" /\ call' = "none"
         /\ UNCHANGED <<conn, toQemu, toClient, reader>>
         /\ \/ /\ responseCh # << >> /\ answer' = Head(responseCh) /\ answer'.cmd \in InFlight
               /\ givenUp' = givenUp
               /\ OneInFlight => InFlight' = {}
            \/ reader = "done" /\ answer' = NoAnswer
            \/ answer' = NoAnswer /\ givenUp' = givenUp \cup {call} /\ InFlight' = InFlight
<1> USE DEF wireVars, readerVars
<1>1. CASE ExecuteReturns
  <2>1. /\ responseCh # << >> /\ responseCh' = << >> /\ answer' = Head(responseCh)
        /\ toQemu' = toQemu /\ toClient' = toClient
    BY <1>1 DEF ExecuteReturns
  <2>2. answer'.cmd \in InFlight
    BY <2>1 DEF InFlight
  <2>3. OneInFlight => InFlight' = {}
    BY <2>1, SocketEmpty DEF OneInFlight, InFlight, Answered
  <2>4. QMPTypeOK'
    BY <2>1 DEF QMPTypeOK
  <2> QED
    BY <1>1, <2>1, <2>2, <2>3, <2>4 DEF ExecuteReturns
<1>2. CASE ExecuteConnectionLost
  BY <1>2 DEF ExecuteConnectionLost, QMPTypeOK
<1>3. CASE ExecuteGivesUp(d)
  BY <1>3 DEF ExecuteGivesUp, QMPTypeOK, InFlight
<1> QED
  BY <1>1, <1>2, <1>3 DEF ExecuteEnds

\* Every step keeps ChannelInv.
LEMMA ChannelStep == ChannelInv /\ [Next]_vars => ChannelInv'
<1> SUFFICES ASSUME ChannelInv, [Next]_vars PROVE ChannelInv'
  OBVIOUS
<1>0. RowTypeOK' /\ ConnInv' /\ ConnInv /\ QMPTypeOK
  BY RowTypeStep, ConnStep DEF ChannelInv
<1>1. CASE CreateVM \/ StartPrepares \/ StartSpawns \/ StartMarksBooting
  BY <1>0, <1>1, QuietStep DEF CreateVM, Return, StartPrepares, StartFails, StartSpawns, StartMarksBooting,
                               Preparing, Connecting, Alive, Runs
<1>2. CASE StartConnects
  BY <1>2, HandshakeStep
<1>3. CASE StartRetries \/ StartListsLive \/ StartReturns
  BY <1>0, <1>3, QuietStep DEF StartRetries, StartFails, StartListsLive, StartReturns, Preparing, Connecting,
                               Alive, Runs
<1>4. CASE StartQueries
  <2>1. CASE pc = "live" /\ pc' = "querying" /\ ExecuteSends("query-status") /\ UNCHANGED qemu
    <3>1. InFlight = {} /\ givenUp = {} /\ "query-status" \in Commands
      BY <2>1 DEF ChannelInv, ConnInv, Commands
    <3>2. /\ QMPTypeOK' /\ givenUp' = givenUp
          /\ \/ call' = "none" /\ InFlight' = InFlight
             \/ call' = "query-status" /\ InFlight' = InFlight \cup {"query-status"} /\ OneInFlight'
      BY <1>0, <2>1, <3>1, SendStep
    <3>3. "query-status" # "none"
      OBVIOUS
    <3> QED
      BY <1>0, <2>1, <3>1, <3>2, <3>3 DEF ChannelInv, Preparing, Connecting
  <2>2. CASE pc = "querying" /\ pc' = "querying" /\ ExecuteEnds(BootCtxDone) /\ UNCHANGED qemu
    <3>1. call # "none" /\ call' = "none" /\ QMPTypeOK'
      BY <1>0, <2>2, EndStep
    <3>2. call = "query-status" /\ givenUp = {} /\ InFlight \subseteq {call} /\ OneInFlight
      BY <2>2, <3>1 DEF ChannelInv
    <3>3. reader = "done" => ~Alive'
      BY <1>0, <2>2 DEF ConnInv, Alive, Runs, Querying
    <3>4. Alive' => InFlight' \subseteq givenUp'
      BY <1>0, <2>2, <3>2, <3>3, EndStep
    <3> QED
      BY <1>0, <2>2, <3>1, <3>4 DEF ChannelInv, Preparing, Connecting
  <2> QED
    BY <1>4, <2>1, <2>2 DEF StartQueries
<1>5. CASE Unregister \/ StopMarksStopping \/ StopAwaitsExit \/ StopForces \/ StopMarksStopped
  BY <1>0, <1>5, QuietStep DEF Unregister, StopMarksStopping, StopAwaitsExit, StopForces, Kill, StopMarksStopped,
                               Preparing, Connecting, Alive, Runs, ConnInv
<1>6. CASE Cleanup
  BY <1>0, <1>6 DEF Cleanup, Close, wireVars, readerVars, ChannelInv, QMPTypeOK, Preparing, Connecting
<1>7. CASE StopPowersDown
  <2>1. CASE pc = "powerdown" /\ pc' = "poweringDown" /\ ExecuteSends("system_powerdown")
    <3>1. "system_powerdown" \in Commands /\ call = "none"
      BY <2>1 DEF Commands, ExecuteSends
    <3>2. Alive => InFlight \subseteq givenUp
      BY <2>1, <3>1 DEF ChannelInv
    <3>3. /\ QMPTypeOK' /\ givenUp' = givenUp
          /\ \/ call' = "none"
             \/ call' = "system_powerdown" /\ Alive /\ InFlight' = InFlight \cup {"system_powerdown"}
      BY <1>0, <2>1, <3>1, SendStep
    <3> QED
      BY <1>0, <2>1, <3>2, <3>3 DEF ChannelInv, Preparing, Connecting
  <2>2. CASE pc = "poweringDown" /\ pc' = "poweringDown" /\ ExecuteEnds(FALSE)
    <3>1. call' = "none" /\ QMPTypeOK'
      BY <1>0, <2>2, EndStep
    <3> QED
      BY <1>0, <2>2, <3>1 DEF ChannelInv, Preparing, Connecting
  <2>3. CASE pc' \in {"exitWait", "force"} /\ UNCHANGED qmpVars /\ UNCHANGED qemu
    BY <1>0, <2>3, QuietStep DEF Preparing, Connecting, Alive, Runs
  <2> QED
    BY <1>7, <2>1, <2>2, <2>3 DEF StopPowersDown
<1>8. CASE DestroyVM
  BY <1>0, <1>8, QuietStep DEF DestroyVM, DestroyRemovesSocket, DestroyMarksDestroyed, DestroyRemovesOverlay,
                               Return, Preparing, Connecting, Alive, Runs
<1>9. CASE (Reader \/ Monitor) /\ UNCHANGED otherVars
  <2>1. QMPTypeOK' /\ InFlight' \subseteq InFlight /\ (OneInFlight => OneInFlight')
    BY <1>0, <1>9, WireStep
  <2>2. UNCHANGED <<pc, qemu, conn, call, givenUp>>
    BY <1>9 DEF otherVars, Reader, ReadResponse, ReadEvent, ReaderExits, Monitor, MonitorGreets, MonitorAnswers,
                MonitorNotifies, callVars
  <2>3. ASSUME pc \in Preparing \cup {"spawned"} \cup Connecting
        PROVE  /\ Len(toQemu') + Len(toClient') <= 1
               /\ conn = "none" => toQemu' = << >> /\ toClient' = << >>
               /\ conn = "greeting" => toQemu' = << >>
    <3>1. /\ Len(toQemu) + Len(toClient) <= 1 /\ reader = "none" /\ conn # "open"
          /\ conn = "none" => toQemu = << >> /\ toClient = << >>
          /\ conn = "greeting" => toQemu = << >>
          /\ Len(toQemu) \in Nat /\ Len(toClient) \in Nat
      BY <1>0, <2>3, LenProperties DEF ChannelInv, ConnInv, QMPTypeOK, Preparing, Connecting
    <3>2. CASE MonitorGreets
      <4>1. toQemu' = toQemu /\ toQemu = << >> /\ toClient' = <<Greeting>> /\ conn = "greeting"
        BY <3>1, <3>2 DEF MonitorGreets
      <4> QED
        BY <4>1
    <3>3. CASE MonitorAnswers
      <4>1. toQemu # << >> /\ toQemu' = Tail(toQemu)
        BY <3>3 DEF MonitorAnswers
      <4>2. PICK ok \in BOOLEAN : toClient' = Append(toClient, Response(Head(toQemu), ok))
        BY <3>3 DEF MonitorAnswers
      <4>3. Len(toQemu') = Len(toQemu) - 1 /\ Head(toQemu) \in Commands
        BY <1>0, <4>1, HeadTailProperties DEF QMPTypeOK
      <4>4. Response(Head(toQemu), ok) \in Message
        BY <4>3 DEF Response, Message
      <4>5. Len(toClient') = Len(toClient) + 1
        BY <1>0, <4>2, <4>4, SocketAppend DEF QMPTypeOK
      <4> QED
        BY <3>1, <4>1, <4>3, <4>5
    <3> QED
      BY <1>9, <3>1, <3>2, <3>3 DEF Reader, ReadResponse, ReadEvent, ReaderExits, Monitor, MonitorNotifies
  <2> QED
    BY <1>0, <2>1, <2>2, <2>3 DEF ChannelInv, Alive, Runs
<1>10. CASE RunExpires \/ BootExpires \/ CtxKills \/ QEMUListens \/ QEMUExits \/ QEMUDies \/ RegisterAgent
  BY <1>0, <1>10, QuietStep DEF RunExpires, BootExpires, CtxKills, Kill, QEMUListens, QEMUExits,
                                QEMUDies, RegisterAgent, Alive, Runs
<1>11. CASE Crash
  BY <1>0, <1>11 DEF Crash, QMPReset, ChannelInv, QMPTypeOK, Preparing, Connecting
<1>12. CASE RecoverVM
  BY <1>0, <1>12, QuietStep DEF RecoverVM, Kill, Preparing, Connecting, Alive, Runs
<1>13. CASE UNCHANGED vars
  BY <1>0, <1>13, QuietStep DEF vars, Alive, Runs
<1> QED
  BY <1>1, <1>2, <1>3, <1>4, <1>5, <1>6, <1>7, <1>8, <1>9, <1>10, <1>11, <1>12, <1>13
     DEF Next, Manager, StartVM, StopVM

\* It holds in every reachable state.
THEOREM VMChannelInvariant == Spec => []ChannelInv
<1> QED
  BY InitChannel, ChannelStep, PTL DEF Spec

\* Execute returns the response to its own command, unless an earlier one was given up.
THEOREM VMAnswerIsOwn == Spec => AnswerIsOwn
<1> DEFINE Own == (call # "none" /\ call' = "none" /\ answer'.kind = "response" /\ Up') =>
                    (answer'.cmd = call \/ answer'.cmd \in givenUp)
<1>1. ChannelInv /\ [Next]_vars => [Own]_vars
  <2> SUFFICES ASSUME ChannelInv, Next, call # "none", call' = "none", answer'.kind = "response", Up'
               PROVE  answer'.cmd = call \/ answer'.cmd \in givenUp
    OBVIOUS
  <2>1. \/ pc = "querying" /\ ExecuteEnds(BootCtxDone)
        \/ pc = "poweringDown" /\ ExecuteEnds(FALSE)
    <3> USE DEF qmpVars, callVars
    <3>1. ~Crash
      BY DEF Crash, Up
    <3>2. CASE Manager
      BY <3>2 DEF Manager, CreateVM, StartVM, StartPrepares, StartSpawns, StartMarksBooting, StartConnects,
                  Dial, Negotiate, HandshakeDone, DialRefused, HandshakeFails, StartRetries, StartListsLive,
                  StartQueries, ExecuteSends, StartReturns, Unregister, StopVM, StopMarksStopping,
                  StopPowersDown, StopAwaitsExit, StopForces, Kill, Cleanup, Close, StopMarksStopped, DestroyVM,
                  DestroyRemovesSocket, DestroyMarksDestroyed, DestroyRemovesOverlay
    <3>3. ~Reader /\ ~Monitor
      BY DEF Reader, ReadResponse, ReadEvent, ReaderExits, Monitor, MonitorGreets, MonitorAnswers,
             MonitorNotifies
    <3> QED
      BY <3>1, <3>2, <3>3 DEF Next, RunExpires, BootExpires, CtxKills, QEMUListens, QEMUExits, QEMUDies,
                              RegisterAgent, RecoverVM
  <2>2. answer'.cmd \in InFlight
    <3>1. NoAnswer.kind # "response"
      BY DEF NoAnswer
    <3> QED
      BY <2>1, <3>1, EndStep DEF ChannelInv
  <2>3. InFlight \subseteq givenUp \cup {call}
    BY <2>1 DEF ChannelInv
  <2> QED
    BY <2>2, <2>3
<1> QED
  BY <1>1, VMChannelInvariant, PTL DEF Spec, AnswerIsOwn
=============================================================================
