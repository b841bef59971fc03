------------------------------ MODULE QMPClient ------------------------------
(***************************************************************************)
(* One client of the QEMU Machine Protocol (vm/qmp_client.go, qmp_types.go) *)
(* and the monitor of the QEMU process it talks to: Connect with its       *)
(* handshake, the reader goroutine that routes messages to two buffered    *)
(* channels, Execute with its three-way select, and Close.                 *)
(*                                                                         *)
(* The VM manager sends a command of each name at most once on a client,   *)
(* so a command is its name.  A response carries the name of the command   *)
(* it answers only in the model: the wire format has no identifier, and    *)
(* the code pairs responses with commands by order alone.                  *)
(***************************************************************************)
EXTENDS Naturals, Sequences

CONSTANT EventCap  \* capacity of eventsCh

VARIABLES
  qemu,        \* "none", "booting" (no monitor socket yet), "up", "killed" (SIGKILL is sent),
               \* "dead", or "exited" (an orderly end)
  conn,        \* "none", "greeting", "negotiating", "open" or "closed"
  toQemu,      \* commands in the socket
  toClient,    \* messages in the socket
  responseCh,  \* channel of capacity 1
  eventsCh,    \* number of events in the channel
  reader,      \* "none", "running", or "done" (doneCh is closed)
  call,        \* the command an Execute waits for, or "none"
  answer,      \* how the last Execute ended
  givenUp      \* commands whose Execute returned because its context was done

qmpVars == <<conn, toQemu, toClient, responseCh, eventsCh, reader, call, answer, givenUp>>
wireVars == <<toQemu, toClient>>
readerVars == <<responseCh, eventsCh, reader>>
callVars == <<call, answer, givenUp>>

Commands == {"qmp_capabilities", "query-status", "system_powerdown"}

\* qmpMessage: isResponse (for cmd; ok: "return" and not "error") or isEvent; the
\* greeting has a shape of its own.
Response(cmd, ok) == [kind |-> "response", cmd |-> cmd, ok |-> ok]
Event == [kind |-> "event", cmd |-> "none", ok |-> TRUE]
Greeting == [kind |-> "greeting", cmd |-> "none", ok |-> TRUE]

\* The error returns of Execute.
NoAnswer == [kind |-> "error", cmd |-> "none", ok |-> FALSE]

\* The process runs; it exists, and its end of the socket is open.
Runs == qemu \in {"booting", "up"}
Alive == Runs \/ qemu = "killed"

\* NewQMPClient
QMPInit ==
  /\ conn = "none"
  /\ toQemu = << >> /\ toClient = << >>
  /\ responseCh = << >> /\ eventsCh = 0 /\ reader = "none"
  /\ call = "none" /\ answer = NoAnswer /\ givenUp = {}

\* The state of the client goes with the process; QEMU sees its peer hang up.
QMPReset ==
  /\ conn' = "none"
  /\ toQemu' = << >> /\ toClient' = << >>
  /\ responseCh' = << >> /\ eventsCh' = 0 /\ reader' = "none"
  /\ call' = "none" /\ answer' = NoAnswer /\ givenUp' = {}

----------------------------------------------------------------------------
(* Connect                                                                 *)

\* The dial succeeds: QEMU accepts and greets when it gets to it.
Dial(ctxDone) ==
  /\ conn = "none"
  /\ qemu = "up" /\ ~ctxDone
  /\ conn' = "greeting"
  /\ UNCHANGED <<wireVars, readerVars, callVars>>

\* No socket, no process behind it, or no time left.
DialRefused(ctxDone) ==
  /\ conn = "none"
  /\ qemu # "up" \/ ctxDone
  /\ UNCHANGED qmpVars

\* The greeting is decoded and the capabilities command written.
Negotiate ==
  /\ conn = "greeting"
  /\ toClient # << >>
  /\ toClient' = Tail(toClient)
  /\ toQemu' = Append(toQemu, "qmp_capabilities")
  /\ conn' = "negotiating"
  /\ UNCHANGED <<readerVars, callVars>>

\* Mutant: the reader is started without waiting for the answer to the capabilities.
HandshakeUnread ==
  /\ conn = "negotiating"
  /\ toClient # << >>
  /\ conn' = "open" /\ reader' = "running"
  /\ UNCHANGED <<wireVars, responseCh, eventsCh, callVars>>

\* The response to the capabilities is decoded here, before there is a reader.
HandshakeDone ==
  /\ conn = "negotiating"
  /\ toClient # << >> /\ Head(toClient).ok
  /\ toClient' = Tail(toClient)
  /\ conn' = "open" /\ reader' = "running"
  /\ UNCHANGED <<toQemu, responseCh, eventsCh, callVars>>

\* QEMU is gone, or rejects the capabilities: the connection is closed and Connect may
\* be called again.  No deadline is set on the connection.
HandshakeFails ==
  /\ conn \in {"greeting", "negotiating"}
  /\ \/ ~Alive
     \/ conn = "negotiating" /\ toClient # << >> /\ ~Head(toClient).ok
  /\ conn' = "none"
  /\ toQemu' = << >> /\ toClient' = << >>
  /\ UNCHANGED <<readerVars, callVars>>

----------------------------------------------------------------------------
(* The reader goroutine                                                    *)

\* A response goes to responseCh, or is dropped when the channel is full.
ReadResponse ==
  /\ reader = "running"
  /\ toClient # << >> /\ Head(toClient).kind = "response"
  /\ toClient' = Tail(toClient)
  /\ responseCh' = IF responseCh = << >> THEN <<Head(toClient)>> ELSE responseCh
  /\ UNCHANGED <<conn, toQemu, eventsCh, reader, callVars>>

\* An event goes to eventsCh, which nobody drains, or is dropped.
ReadEvent ==
  /\ reader = "running"
  /\ toClient # << >> /\ Head(toClient).kind = "event"
  /\ toClient' = Tail(toClient)
  /\ eventsCh' = IF eventsCh < EventCap THEN eventsCh + 1 ELSE eventsCh
  /\ UNCHANGED <<conn, toQemu, responseCh, reader, callVars>>

\* Decode fails at the end of the stream, or because Close closed the connection.
ReaderExits ==
  /\ reader = "running"
  /\ (~Alive /\ toClient = << >>) \/ conn = "closed"
  /\ reader' = "done"
  /\ UNCHANGED <<conn, wireVars, responseCh, eventsCh, callVars>>

Reader == ReadResponse \/ ReadEvent \/ ReaderExits

----------------------------------------------------------------------------
(* Execute and Close                                                       *)

\* The command is written, or Execute fails on a closed or broken connection.
ExecuteSends(cmd) ==
  /\ call = "none"
  /\ IF conn = "open" /\ Alive
       THEN call' = cmd /\ toQemu' = Append(toQemu, cmd) /\ UNCHANGED answer
       ELSE answer' = NoAnswer /\ UNCHANGED <<call, toQemu>>
  /\ UNCHANGED <<conn, toClient, readerVars, givenUp>>

\* Whatever response is in the channel is taken for the answer.
ExecuteReturns ==
  /\ call # "none"
  /\ responseCh # << >>
  /\ answer' = Head(responseCh)
  /\ responseCh' = << >>
  /\ call' = "none"
  /\ UNCHANGED <<conn, wireVars, eventsCh, reader, givenUp>>

\* doneCh: the reader is gone.
ExecuteConnectionLost ==
  /\ call # "none"
  /\ reader = "done"
  /\ answer' = NoAnswer
  /\ call' = "none"
  /\ UNCHANGED <<conn, wireVars, readerVars, givenUp>>

\* ctx.Done: the command stays in flight.
ExecuteGivesUp(ctxDone) ==
  /\ call # "none"
  /\ ctxDone
  /\ answer' = NoAnswer
  /\ givenUp' = givenUp \cup {call}
  /\ call' = "none"
  /\ UNCHANGED <<conn, wireVars, readerVars>>

ExecuteEnds(ctxDone) == ExecuteReturns \/ ExecuteConnectionLost \/ ExecuteGivesUp(ctxDone)

Close ==
  /\ conn' = "closed"
  /\ UNCHANGED <<wireVars, readerVars, callVars>>

----------------------------------------------------------------------------
(* The monitor of QEMU                                                     *)

\* A new connection is greeted.
MonitorGreets ==
  /\ qemu = "up"
  /\ conn = "greeting" /\ toClient = << >>
  /\ toClient' = <<Greeting>>
  /\ UNCHANGED <<conn, toQemu, readerVars, callVars>>

\* Commands are answered in order, with a result or with an error.
MonitorAnswers ==
  /\ qemu = "up"
  /\ toQemu # << >>
  /\ toQemu' = Tail(toQemu)
  /\ \E ok \in BOOLEAN : toClient' = Append(toClient, Response(Head(toQemu), ok))
  /\ UNCHANGED <<conn, readerVars, callVars>>

\* Events come only after the negotiation; one in the socket at a time is enough.
MonitorNotifies ==
  /\ qemu = "up"
  /\ conn = "open"
  /\ eventsCh <= EventCap
  /\ \A i \in 1..Len(toClient) : toClient[i].kind # "event"
  /\ toClient' = Append(toClient, Event)
  /\ UNCHANGED <<conn, toQemu, readerVars, callVars>>

Monitor == MonitorGreets \/ MonitorAnswers \/ MonitorNotifies
=============================================================================
