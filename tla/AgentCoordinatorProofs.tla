----------------------- MODULE AgentCoordinatorProofs -----------------------
(***************************************************************************)
(* Proofs about AgentCoordinator.tla, for any number of commands, agent    *)
(* restarts and any capacity of the commands channel.                      *)
(*                                                                         *)
(* A command is in one place at a time.  OnePlace says so for the five     *)
(* places it can be in before it is executed (the channel, a pump, the     *)
(* socket, an agent, the remote agent) and the three its result can be in  *)
(* afterwards (the socket, the caller's channel, the caller), and that     *)
(* executed tells the two apart.  Everything about commands executed twice *)
(* or results delivered twice follows from it; that commands are not lost  *)
(* needs also that the guest's first message is the ack (AckFirst).        *)
(***************************************************************************)
EXTENDS AgentCoordinator, SequenceTheorems, TLAPS

Members(seq) == {seq[i] : i \in 1..Len(seq)}

\* No member of C occurs twice.
Once(seq, C) == \A i, j \in 1..Len(seq) : seq[i] \in C /\ seq[i] = seq[j] => i = j

Pumped(c) == \E k \in 1..MaxBoots : pump[k] = c

\* The shape of the state.
AgentTypeOK ==
  /\ ready \in BOOLEAN
  /\ commands \in Seq(Commands)
  /\ waiters \subseteq Commands
  /\ resultCh \in [Commands -> {0, 1}]
  /\ send \in [Commands -> {"new", "enqueue", "wait", "answered", "error", "panic"}]
  /\ expired \subseteq Commands
  /\ runDone \in BOOLEAN
  /\ teardown \in {"no", "unregistered", "disconnected", "stopped"}
  /\ serve \in {"on", "off"}
  /\ pump \in [1..MaxBoots -> Commands \cup {"none", "get", "off"}]
  /\ toGuest \in Seq(Commands \cup {"ack"})
  /\ toHost \in Seq(Commands \cup {"register"})
  /\ agent \in Commands \cup {"down", "registering", "idle"}
  /\ boots \in 0..MaxBoots
  /\ remote \in Commands \cup {"none", "idle", "poll", "gone"}
  /\ executed \in [Commands -> {0, 1}]

\* A command occurs once in whatever holds it.
NoDuplicates ==
  /\ Once(commands, Commands)
  /\ Once(toGuest, Commands)
  /\ Once(toHost, Commands)
  /\ \A k, l \in 1..MaxBoots : pump[k] \in Commands /\ pump[k] = pump[l] => k = l

\* A command is in one place at a time.
OnePlace ==
  \A c \in Commands :
    /\ c \in Members(commands) => ~Pumped(c) /\ c \notin Members(toGuest) /\ agent # c /\ remote # c
    /\ Pumped(c) => c \notin Members(toGuest) /\ agent # c /\ remote # c
    /\ c \in Members(toGuest) => agent # c /\ remote # c
    /\ agent = c => remote # c
    /\ c \in Members(commands) \/ Pumped(c) \/ c \in Members(toGuest) \/ agent = c \/ remote = c
         => executed[c] = 0 /\ send[c] \notin {"new", "enqueue"}
    /\ c \in Members(toHost) => executed[c] = 1 /\ resultCh[c] = 0 /\ send[c] # "answered"
    /\ resultCh[c] = 1 => executed[c] = 1 /\ send[c] # "answered"
    /\ executed[c] = 1 => send[c] \notin {"new", "enqueue"}
    /\ send[c] = "answered" => executed[c] = 1

\* Whoever is inside SendCommand has its waiter.
WaitersInCall == \A c \in Commands : InCall(c) => c \in waiters

\* While a run is not aborted nobody sends to a VM that has been unregistered.
TeardownInOrder ==
  /\ ~Registered => runDone \/ \A c \in Commands : ~InCall(c)
  /\ PanicOnlyAfterAbort

\* The first agent gets the ack before any command.
AckFirst ==
  /\ boots = 0 => toHost = << >> /\ agent = "down"
  /\ boots = 0 \/ (boots = 1 /\ agent = "registering") =>
       \/ toGuest = << >> /\ \A k \in 1..MaxBoots : pump[k] = "none"
       \/ boots = 1 /\ toGuest # << >> /\ Head(toGuest) = "ack"

\* Some place on the way to the agent or back holds the command.
OnItsWay(c) ==
  \/ c \in Members(commands) \/ Pumped(c) \/ c \in Members(toGuest)
  \/ agent = c \/ remote = c
  \/ c \in Members(toHost) \/ resultCh[c] = 1

\* Neither agent has died, the socket is read, and neither run nor VM has ended.
Undisturbed ==
  /\ boots = 0 \/ (boots = 1 /\ agent # "down")
  /\ remote # "gone" /\ serve = "on" /\ Registered /\ ~runDone

NothingLost == Undisturbed => \A c \in Commands : send[c] = "wait" => OnItsWay(c)

AgentInv ==
  /\ AgentTypeOK
  /\ NoDuplicates
  /\ OnePlace
  /\ WaitersInCall
  /\ TeardownInOrder
  /\ AckFirst
  /\ NothingLost

----------------------------------------------------------------------------
(* Sequences                                                               *)

\* What sending to a channel or a socket does to its contents.
LEMMA AppendMembers ==
  ASSUME NEW S, NEW seq \in Seq(S), NEW e \in S, NEW C
  PROVE  /\ Append(seq, e) \in Seq(S)
         /\ Members(Append(seq, e)) = Members(seq) \cup {e}
         /\ Append(seq, e) # << >>
         /\ Head(Append(seq, e)) = IF seq = << >> THEN e ELSE Head(seq)
         /\ Once(seq, C) /\ (e \notin C \/ e \notin Members(seq)) => Once(Append(seq, e), C)
<1> DEFINE a == Append(seq, e)
<1>1. /\ Len(seq) \in Nat
      /\ a \in Seq(S)
      /\ Len(a) = Len(seq) + 1
      /\ a[Len(seq) + 1] = e
      /\ \A i \in 1..Len(seq) : a[i] = seq[i]
  BY AppendProperties, LenProperties
<1>2. a # << >> /\ Head(a) = a[1]
  BY <1>1
<1>3. Head(a) = IF seq = << >> THEN e ELSE Head(seq)
  <2>1. CASE seq = << >>
    BY <1>1, <1>2, <2>1
  <2>2. CASE seq # << >>
    <3>1. Len(seq) \in Nat \ {0}
      BY <2>2, EmptySeq
    <3> QED
      BY <1>1, <1>2, <2>2, <3>1
  <2> QED
    BY <2>1, <2>2
<1> HIDE DEF a
<1>4. Members(a) = Members(seq) \cup {e}
  <2>1. ASSUME NEW x \in Members(a) PROVE x \in Members(seq) \cup {e}
    <3>1. PICK i \in 1..Len(a) : a[i] = x
      BY <2>1 DEF Members
    <3>2. i \in 1..Len(seq) \/ i = Len(seq) + 1
      BY <1>1, <3>1
    <3> QED
      BY <1>1, <3>1, <3>2 DEF Members
  <2>2. ASSUME NEW x \in Members(seq) PROVE x \in Members(a)
    <3>1. PICK i \in 1..Len(seq) : seq[i] = x
      BY <2>2 DEF Members
    <3>2. i \in 1..Len(a) /\ a[i] = x
      BY <1>1, <3>1
    <3> QED
      BY <3>2 DEF Members
  <2>3. e \in Members(a)
    <3>1. Len(seq) + 1 \in 1..Len(a)
      BY <1>1
    <3> QED
      BY <1>1, <3>1 DEF Members
  <2> QED
    BY <2>1, <2>2, <2>3
<1>5. ASSUME Once(seq, C), e \notin C \/ e \notin Members(seq) PROVE Once(a, C)
  <2> SUFFICES ASSUME NEW i \in 1..Len(a), NEW j \in 1..Len(a), a[i] \in C, a[i] = a[j]
               PROVE  i = j
    BY DEF Once
  <2>1. (i \in 1..Len(seq) \/ i = Len(seq) + 1) /\ (j \in 1..Len(seq) \/ j = Len(seq) + 1)
    BY <1>1
  <2> QED
    BY <1>1, <1>5, <2>1 DEF Once, Members
<1> QED
  BY <1>1, <1>2, <1>3, <1>4, <1>5 DEF a

\* What receiving from a channel or a socket does to its contents.
LEMMA TailMembers ==
  ASSUME NEW S, NEW seq \in Seq(S), seq # << >>, NEW C, Once(seq, C)
  PROVE  /\ Head(seq) \in S
         /\ Head(seq) \in Members(seq)
         /\ Tail(seq) \in Seq(S)
         /\ Members(Tail(seq)) \subseteq Members(seq)
         /\ Members(seq) \subseteq Members(Tail(seq)) \cup {Head(seq)}
         /\ Head(seq) \in C => Head(seq) \notin Members(Tail(seq))
         /\ Once(Tail(seq), C)
<1> DEFINE t == Tail(seq)
<1>1. /\ Len(seq) \in Nat \ {0}
      /\ Head(seq) = seq[1]
      /\ Head(seq) \in S
      /\ t \in Seq(S)
      /\ Len(t) = Len(seq) - 1
      /\ \A i \in 1..Len(t) : t[i] = seq[i + 1]
  BY EmptySeq, HeadTailProperties
<1> HIDE DEF t
<1>2. seq[1] \in Members(seq)
  BY <1>1 DEF Members
<1>3. ASSUME NEW x \in Members(t)
      PROVE  \E i \in 2..Len(seq) : seq[i] = x
  <2>1. PICK i \in 1..Len(t) : t[i] = x
    BY <1>3 DEF Members
  <2> QED
    BY <1>1, <2>1
<1>4. Members(t) \subseteq Members(seq)
  BY <1>1, <1>3 DEF Members
<1>5. ASSUME NEW x \in Members(seq) PROVE x \in Members(t) \/ x = seq[1]
  <2>1. PICK i \in 1..Len(seq) : seq[i] = x
    BY <1>5 DEF Members
  <2>2. CASE i # 1
    <3>1. i - 1 \in 1..Len(t) /\ i = (i - 1) + 1
      BY <1>1, <2>1, <2>2
    <3>2. t[i - 1] = x
      BY <1>1, <2>1, <3>1
    <3> QED
      BY <3>1, <3>2 DEF Members
  <2> QED
    BY <2>1, <2>2
<1>6. seq[1] \in C => seq[1] \notin Members(t)
  BY <1>1, <1>3 DEF Once
<1>7. Once(t, C)
  <2> SUFFICES ASSUME NEW i \in 1..Len(t), NEW j \in 1..Len(t), t[i] \in C, t[i] = t[j]
               PROVE  i = j
    BY DEF Once
  <2>1. i + 1 \in 1..Len(seq) /\ j + 1 \in 1..Len(seq)
    BY <1>1
  <2>2. i + 1 = j + 1
    BY <1>1, <2>1 DEF Once
  <2> QED
    BY <1>1, <2>2
<1> QED
  BY <1>1, <1>2, <1>4, <1>5, <1>6, <1>7 DEF t

\* An empty channel holds nothing.
LEMMA EmptyMembers == Members(<< >>) = {} /\ \A C : Once(<< >>, C)
BY DEF Members, Once

----------------------------------------------------------------------------
(* The inductive invariant                                                 *)

\* The invariant holds when RegisterVM and ConnectVM have returned.
LEMMA InitAgentInv == Init => AgentInv
<1> SUFFICES ASSUME Init PROVE AgentInv
  OBVIOUS
<1>1. AgentTypeOK
  <2>1. /\ commands \in Seq(Commands)
        /\ toGuest \in Seq(Commands \cup {"ack"})
        /\ toHost \in Seq(Commands \cup {"register"})
    BY EmptySeq DEF Init
  <2>2. boots \in 0..MaxBoots /\ pump \in [1..MaxBoots -> Commands \cup {"none", "get", "off"}]
    BY AgentAssumptions DEF Init
  <2> QED
    BY <2>1, <2>2 DEF Init, AgentTypeOK
<1>2. NoDuplicates
  BY EmptyMembers, AgentAssumptions DEF Init, NoDuplicates
<1>3. \A c \in Commands : ~Pumped(c) /\ agent # c /\ remote # c
  BY AgentAssumptions DEF Init, Pumped
<1>4. OnePlace
  BY <1>3, EmptyMembers DEF Init, OnePlace
<1>5. WaitersInCall /\ TeardownInOrder
  BY DEF Init, WaitersInCall, TeardownInOrder, InCall, Registered, PanicOnlyAfterAbort, Panicked
<1>6. AckFirst /\ NothingLost
  BY DEF Init, AckFirst, NothingLost
<1> QED
  BY <1>1, <1>2, <1>4, <1>5, <1>6 DEF AgentInv

\* Every step keeps the shape of the state.
LEMMA AgentTypeStep == AgentTypeOK /\ OnePlace /\ [Next]_vars => AgentTypeOK'
<1> SUFFICES ASSUME AgentTypeOK, OnePlace, [Next]_vars PROVE AgentTypeOK'
  OBVIOUS
<1> USE DEF coordVars, engineVars, hubVars, guestVars
<1>h. /\ commands # << >> => Head(commands) \in Commands /\ Tail(commands) \in Seq(Commands)
      /\ toGuest # << >> => Tail(toGuest) \in Seq(Commands \cup {"ack"})
      /\ toHost # << >> => Tail(toHost) \in Seq(Commands \cup {"register"})
  BY HeadTailProperties DEF AgentTypeOK
<1>a. /\ \A c \in Commands : Append(commands, c) \in Seq(Commands)
      /\ \A m \in Commands \cup {"ack"} : Append(toGuest, m) \in Seq(Commands \cup {"ack"})
      /\ \A m \in Commands \cup {"register"} : Append(toHost, m) \in Seq(Commands \cup {"register"})
  BY AppendProperties DEF AgentTypeOK
<1>1. ASSUME NEW c \in Commands, SendStart(c) PROVE AgentTypeOK'
  BY <1>1 DEF SendStart, AgentTypeOK
<1>2. ASSUME NEW c \in Commands, SendEnqueue(c) PROVE AgentTypeOK'
  BY <1>2, <1>a DEF SendEnqueue, AgentTypeOK
<1>3. ASSUME NEW c \in Commands, SendReturns(c) PROVE AgentTypeOK'
  <2>1. resultCh' \in [Commands -> {0, 1}]
    BY <1>3 DEF SendReturns, AgentTypeOK
  <2> QED
    BY <1>3, <2>1 DEF SendReturns, AgentTypeOK
<1>4. ASSUME NEW c \in Commands, SendGivesUp(c) PROVE AgentTypeOK'
  BY <1>4 DEF SendGivesUp, AgentTypeOK
<1>5. ASSUME NEW c \in Commands, Expire(c) PROVE AgentTypeOK'
  BY <1>5 DEF Expire, AgentTypeOK
<1>6. CASE RunExpires \/ UnregisterVM \/ DisconnectVM \/ StopVM
  BY <1>6 DEF RunExpires, UnregisterVM, DisconnectVM, StopVM, AgentTypeOK
<1>7. CASE ServeEnds \/ ScannerFails
  BY <1>7 DEF ServeEnds, ScannerFails, AgentTypeOK
<1>8. CASE ServeRegister
  BY <1>8, <1>h, <1>a DEF ServeRegister, Registered, AgentTypeOK
<1>9. CASE ServeResult
  <2>1. resultCh' \in [Commands -> {0, 1}]
    BY <1>9 DEF ServeResult, DeliverResult, AgentTypeOK
  <2> QED
    BY <1>9, <1>h, <2>1 DEF ServeResult, AgentTypeOK
<1>10. ASSUME NEW k \in 1..MaxBoots, PumpGets(k) PROVE AgentTypeOK'
  BY <1>10, <1>h DEF PumpGets, AgentTypeOK
<1>11. ASSUME NEW k \in 1..MaxBoots, PumpWrites(k) PROVE AgentTypeOK'
  <2>1. toGuest' \in Seq(Commands \cup {"ack"})
    <3>1. pump[k] \in Commands /\ (toGuest' = toGuest \/ toGuest' = Append(toGuest, pump[k]))
      BY <1>11 DEF PumpWrites
    <3> QED
      BY <3>1, <1>a DEF AgentTypeOK
  <2>2. pump' \in [1..MaxBoots -> Commands \cup {"none", "get", "off"}]
    <3>1. pump' = [pump EXCEPT ![k] = "get"] \/ pump' = [pump EXCEPT ![k] = "off"]
      BY <1>11 DEF PumpWrites
    <3> QED
      BY <3>1 DEF AgentTypeOK
  <2>3. UNCHANGED <<coordVars, engineVars, serve, toHost, guestVars>>
    BY <1>11 DEF PumpWrites
  <2> QED
    BY <2>1, <2>2, <2>3 DEF AgentTypeOK
<1>12. ASSUME NEW k \in 1..MaxBoots, PumpEnds(k) PROVE AgentTypeOK'
  BY <1>12 DEF PumpEnds, AgentTypeOK
<1>13. CASE AgentBoots
  <2>1. boots' \in 0..MaxBoots
    BY <1>13, AgentAssumptions DEF AgentBoots, AgentTypeOK
  <2> QED
    BY <1>13, <1>a, <2>1 DEF AgentBoots, AgentTypeOK
<1>14. CASE AgentRegistered \/ AgentReads
  BY <1>14, <1>h DEF AgentRegistered, AgentReads, AgentTypeOK
<1>15. CASE AgentExecutes
  <2>1. executed' \in [Commands -> {0, 1}]
    BY <1>15 DEF AgentExecutes, AgentTypeOK, OnePlace
  <2> QED
    BY <1>15, <1>a, <2>1 DEF AgentExecutes, AgentTypeOK
<1>16. CASE AgentDies
  BY <1>16 DEF AgentDies, AgentTypeOK
<1>17. CASE RegisterAgent \/ GetCommand \/ RemoteLeaves
  BY <1>17 DEF RegisterAgent, GetCommand, RemoteLeaves, AgentTypeOK
<1>18. CASE GetCommandReturns
  BY <1>18, <1>h DEF GetCommandReturns, AgentTypeOK
<1>19. CASE ReportResult
  <2>1. executed' \in [Commands -> {0, 1}]
    BY <1>19 DEF ReportResult, AgentTypeOK, OnePlace
  <2>2. resultCh' \in [Commands -> {0, 1}]
    BY <1>19 DEF ReportResult, DeliverResult, AgentTypeOK
  <2> QED
    BY <1>19, <2>1, <2>2 DEF ReportResult, AgentTypeOK
<1>20. CASE UNCHANGED vars
  BY <1>20 DEF vars, AgentTypeOK
<1> QED
  BY <1>1, <1>2, <1>3, <1>4, <1>5, <1>6, <1>7, <1>8, <1>9, <1>10, <1>11, <1>12, <1>13, <1>14,
     <1>15, <1>16, <1>17, <1>18, <1>19, <1>20 DEF Next, SendCommand, Serve, Pump, Agent, Remote

\* While commands only leave places, results only vanish and no call returns an answer, a
\* command stays in one place.
LEMMA OnePlaceKept ==
  ASSUME OnePlace, UNCHANGED <<resultCh, executed>>,
         \A c \in Commands :
           /\ c \in Members(commands') => c \in Members(commands)
           /\ Pumped(c)' => Pumped(c)
           /\ c \in Members(toGuest') => c \in Members(toGuest)
           /\ agent' = c => agent = c
           /\ remote' = c => remote = c
           /\ c \in Members(toHost') => c \in Members(toHost)
           /\ send'[c] \in {"new", "enqueue"} => send[c] \in {"new", "enqueue"}
           /\ send'[c] = "answered" <=> send[c] = "answered"
  PROVE  OnePlace'
BY DEF OnePlace

\* Every step leaves a command in one place at a time.
LEMMA PlaceStep ==
  AgentTypeOK /\ NoDuplicates /\ OnePlace /\ [Next]_vars => NoDuplicates' /\ OnePlace'
<1> SUFFICES ASSUME AgentTypeOK, NoDuplicates, OnePlace, [Next]_vars
             PROVE  NoDuplicates' /\ OnePlace'
  OBVIOUS
<1> USE DEF coordVars, engineVars, hubVars, guestVars
<1>t. /\ commands \in Seq(Commands)
      /\ toGuest \in Seq(Commands \cup {"ack"})
      /\ toHost \in Seq(Commands \cup {"register"})
      /\ pump \in [1..MaxBoots -> Commands \cup {"none", "get", "off"}]
      /\ send \in [Commands -> {"new", "enqueue", "wait", "answered", "error", "panic"}]
      /\ resultCh \in [Commands -> {0, 1}]
      /\ executed \in [Commands -> {0, 1}]
  BY DEF AgentTypeOK
<1>m. \A m \in {"ack", "register", "down", "registering", "idle", "none", "poll", "gone", "get", "off"} :
        m \notin Commands
  BY AgentAssumptions
<1>d. /\ Once(commands, Commands) /\ Once(toGuest, Commands) /\ Once(toHost, Commands)
      /\ \A k, l \in 1..MaxBoots : pump[k] \in Commands /\ pump[k] = pump[l] => k = l
  BY DEF NoDuplicates
<1>u. /\ UNCHANGED <<commands, toGuest, toHost, pump>> => NoDuplicates'
      /\ pump' = pump => \A c \in Commands : Pumped(c)' <=> Pumped(c)
  BY DEF NoDuplicates, Pumped
<1>1. ASSUME NEW c \in Commands, SendStart(c) \/ SendGivesUp(c) PROVE NoDuplicates' /\ OnePlace'
  <2>1. UNCHANGED <<commands, toGuest, toHost, pump, agent, remote, resultCh, executed>>
    BY <1>1 DEF SendStart, SendGivesUp
  <2>2. \A d \in Commands : /\ send'[d] \in {"new", "enqueue"} => send[d] \in {"new", "enqueue"}
                            /\ send'[d] = "answered" <=> send[d] = "answered"
    BY <1>1, <1>t DEF SendStart, SendGivesUp, InCall
  <2> QED
    BY <1>u, <2>1, <2>2, OnePlaceKept
<1>2. ASSUME NEW c \in Commands, SendEnqueue(c) PROVE NoDuplicates' /\ OnePlace'
  <2>1. UNCHANGED <<toGuest, toHost, pump, agent, remote, resultCh, executed>> /\ send[c] = "enqueue"
    BY <1>2 DEF SendEnqueue
  <2>2. CASE commands' = Append(commands, c) /\ send' = [send EXCEPT ![c] = "wait"]
    <3>1. c \notin Members(commands)
      BY <2>1 DEF OnePlace
    <3>2. Members(commands') = Members(commands) \cup {c} /\ Once(commands', Commands)
      BY <1>t, <1>d, <2>2, <3>1, AppendMembers
    <3>3. NoDuplicates'
      BY <2>1, <3>2 DEF NoDuplicates
    <3>4. OnePlace'
      BY <1>t, <1>u, <2>1, <2>2, <3>2 DEF OnePlace
    <3> QED
      BY <3>3, <3>4
  <2>3. CASE commands' = commands /\ send' = [send EXCEPT ![c] = "panic"]
    <3>1. \A d \in Commands : /\ send'[d] \in {"new", "enqueue"} => send[d] \in {"new", "enqueue"}
                              /\ send'[d] = "answered" <=> send[d] = "answered"
      BY <1>t, <2>1, <2>3
    <3> QED
      BY <1>u, <2>1, <2>3, <3>1, OnePlaceKept
  <2> QED
    BY <1>2, <2>2, <2>3 DEF SendEnqueue
<1>3. ASSUME NEW c \in Commands, SendReturns(c) PROVE NoDuplicates' /\ OnePlace'
  <2>0. resultCh[c] \in {0, 1} /\ resultCh[c] > 0 /\ resultCh' = [resultCh EXCEPT ![c] = resultCh[c] - 1]
    BY <1>3, <1>t DEF SendReturns
  <2>1. /\ UNCHANGED <<commands, toGuest, toHost, pump, agent, remote, executed>>
        /\ resultCh[c] = 1
        /\ resultCh' = [resultCh EXCEPT ![c] = 0]
        /\ send' = [send EXCEPT ![c] = "answered"]
    <3>1. resultCh[c] = 1 /\ resultCh[c] - 1 = 0
      BY <2>0
    <3> QED
      BY <1>3, <2>0, <3>1 DEF SendReturns
  <2>2. OnePlace'
    BY <1>t, <1>u, <2>1 DEF OnePlace
  <2> QED
    BY <1>u, <2>1, <2>2
<1>4. ASSUME NEW c \in Commands, Expire(c) PROVE NoDuplicates' /\ OnePlace'
  BY <1>4, <1>u, OnePlaceKept DEF Expire
<1>5. CASE RunExpires \/ UnregisterVM \/ DisconnectVM \/ ServeEnds \/ ScannerFails \/ UNCHANGED vars
  <2>1. UNCHANGED <<commands, toGuest, toHost, pump, agent, remote, resultCh, executed, send>>
    BY <1>5 DEF RunExpires, UnregisterVM, DisconnectVM, ServeEnds, ScannerFails, vars
  <2> QED
    BY <1>u, <2>1, OnePlaceKept
<1>6. CASE StopVM \/ AgentDies
  <2>1. /\ UNCHANGED <<commands, toGuest, toHost, pump, remote, resultCh, executed, send>>
        /\ agent' = "down"
    BY <1>6 DEF StopVM, AgentDies
  <2> QED
    BY <1>m, <1>u, <2>1, OnePlaceKept
<1>7. CASE ServeRegister
  <2>1. /\ UNCHANGED <<commands, agent, remote, resultCh, executed, send>>
        /\ toHost # << >> /\ toHost' = Tail(toHost)
        /\ toGuest' = Append(toGuest, "ack")
    BY <1>7 DEF ServeRegister
  <2>2. PICK k \in 1..MaxBoots : pump[k] = "none" /\ pump' = [pump EXCEPT ![k] = "get"]
    BY <1>7 DEF ServeRegister
  <2>3. Members(toHost') \subseteq Members(toHost) /\ Once(toHost', Commands)
    BY <1>t, <1>d, <2>1, TailMembers
  <2>4. Members(toGuest') = Members(toGuest) \cup {"ack"} /\ Once(toGuest', Commands)
    <3>1. "ack" \in Commands \cup {"ack"} /\ "ack" \notin Commands
      BY <1>m
    <3> QED
      BY <1>t, <1>d, <2>1, <3>1, AppendMembers
  <2>5. /\ \A c \in Commands : Pumped(c)' => Pumped(c)
        /\ \A i, j \in 1..MaxBoots : pump'[i] \in Commands /\ pump'[i] = pump'[j] => i = j
    BY <1>t, <1>d, <1>m, <2>2 DEF Pumped
  <2>6. NoDuplicates'
    BY <1>d, <2>1, <2>3, <2>4, <2>5 DEF NoDuplicates
  <2> QED
    BY <1>m, <2>1, <2>3, <2>4, <2>5, <2>6, OnePlaceKept
<1>8. CASE ServeResult
  <2> DEFINE c == Head(toHost)
  <2>1. /\ UNCHANGED <<commands, toGuest, pump, agent, remote, executed, send>>
        /\ toHost # << >> /\ toHost' = Tail(toHost)
        /\ c \in Commands
        /\ resultCh' = resultCh \/ resultCh' = [resultCh EXCEPT ![c] = 1]
    BY <1>8 DEF ServeResult, DeliverResult
  <2>2. /\ c \in Members(toHost) /\ c \notin Members(toHost')
        /\ Members(toHost') \subseteq Members(toHost)
        /\ Once(toHost', Commands)
    BY <1>t, <1>d, <2>1, TailMembers
  <2>3. NoDuplicates'
    BY <1>d, <2>1, <2>2 DEF NoDuplicates
  <2> HIDE DEF c
  <2>4. OnePlace'
    BY <1>t, <1>u, <2>1, <2>2 DEF OnePlace
  <2> QED
    BY <2>3, <2>4
<1>9. ASSUME NEW k \in 1..MaxBoots, PumpGets(k) PROVE NoDuplicates' /\ OnePlace'
  <2> DEFINE c == Head(commands)
  <2>1. /\ UNCHANGED <<toGuest, toHost, agent, remote, executed, send, resultCh>>
        /\ commands # << >> /\ commands' = Tail(commands)
        /\ pump[k] = "get"
        /\ pump' = [pump EXCEPT ![k] = c]
    BY <1>9 DEF PumpGets
  <2>2. /\ c \in Commands
        /\ c \in Members(commands) /\ c \notin Members(commands')
        /\ Members(commands') \subseteq Members(commands)
        /\ Once(commands', Commands)
    <3>1. c \in Commands
      BY <1>t, <1>d, <2>1, TailMembers
    <3> QED
      BY <1>t, <1>d, <2>1, <3>1, TailMembers
  <2> HIDE DEF c
  <2>3. ~Pumped(c)
    BY <2>2 DEF OnePlace
  <2>4. /\ \A d \in Commands : Pumped(d)' <=> Pumped(d) \/ d = c
        /\ \A i, j \in 1..MaxBoots : pump'[i] \in Commands /\ pump'[i] = pump'[j] => i = j
    BY <1>t, <1>d, <1>m, <2>1, <2>2, <2>3 DEF Pumped
  <2>5. NoDuplicates'
    BY <1>d, <2>1, <2>2, <2>4 DEF NoDuplicates
  <2>6. OnePlace'
    BY <2>1, <2>2, <2>3, <2>4 DEF OnePlace
  <2> QED
    BY <2>5, <2>6
<1>10. ASSUME NEW k \in 1..MaxBoots, PumpWrites(k) PROVE NoDuplicates' /\ OnePlace'
  <2> DEFINE c == pump[k]
  <2>1. /\ UNCHANGED <<commands, toHost, agent, remote, executed, send, resultCh>>
        /\ c \in Commands
        /\ \E x \in {"get", "off"} : pump' = [pump EXCEPT ![k] = x]
        /\ toGuest' = Append(toGuest, c) \/ toGuest' = toGuest
    BY <1>10 DEF PumpWrites
  <2>2. Pumped(c) /\ c \notin Members(toGuest)
    BY <2>1 DEF Pumped, OnePlace
  <2>3. Members(toGuest') \subseteq Members(toGuest) \cup {c} /\ Once(toGuest', Commands)
    <3>1. CASE toGuest' = Append(toGuest, c)
      <4>1. c \in Commands \cup {"ack"}
        BY <2>1
      <4> HIDE DEF c
      <4> QED
        BY <1>t, <1>d, <2>2, <3>1, <4>1, AppendMembers
    <3> QED
      BY <1>d, <2>1, <3>1
  <2>4. /\ \A d \in Commands : Pumped(d)' <=> Pumped(d) /\ d # c
        /\ \A i, j \in 1..MaxBoots : pump'[i] \in Commands /\ pump'[i] = pump'[j] => i = j
    BY <1>t, <1>d, <1>m, <2>1 DEF Pumped
  <2>5. NoDuplicates'
    BY <1>d, <2>1, <2>3, <2>4 DEF NoDuplicates
  <2> HIDE DEF c
  <2>6. OnePlace'
    BY <2>1, <2>2, <2>3, <2>4 DEF OnePlace
  <2> QED
    BY <2>5, <2>6
<1>11. ASSUME NEW k \in 1..MaxBoots, PumpEnds(k) PROVE NoDuplicates' /\ OnePlace'
  <2>1. /\ UNCHANGED <<commands, toGuest, toHost, agent, remote, executed, send, resultCh>>
        /\ pump[k] = "get" /\ pump' = [pump EXCEPT ![k] = "off"]
    BY <1>11 DEF PumpEnds
  <2>2. /\ \A d \in Commands : Pumped(d)' => Pumped(d)
        /\ \A i, j \in 1..MaxBoots : pump'[i] \in Commands /\ pump'[i] = pump'[j] => i = j
    BY <1>t, <1>d, <1>m, <2>1 DEF Pumped
  <2>3. NoDuplicates'
    BY <1>d, <2>1, <2>2 DEF NoDuplicates
  <2> QED
    BY <2>1, <2>2, <2>3, OnePlaceKept
<1>12. CASE AgentBoots
  <2>1. /\ UNCHANGED <<commands, toGuest, pump, remote, executed, send, resultCh>>
        /\ agent' = "registering" /\ toHost' = Append(toHost, "register")
    BY <1>12 DEF AgentBoots
  <2>2. Members(toHost') = Members(toHost) \cup {"register"} /\ Once(toHost', Commands)
    <3>1. "register" \in Commands \cup {"register"} /\ "register" \notin Commands
      BY <1>m
    <3> QED
      BY <1>t, <1>d, <2>1, <3>1, AppendMembers
  <2>3. NoDuplicates'
    BY <1>d, <2>1, <2>2 DEF NoDuplicates
  <2> QED
    BY <1>m, <1>u, <2>1, <2>2, <2>3, OnePlaceKept
<1>13. CASE AgentRegistered \/ AgentReads
  <2> DEFINE c == Head(toGuest)
  <2>1. /\ UNCHANGED <<commands, toHost, pump, remote, executed, send, resultCh>>
        /\ toGuest # << >> /\ toGuest' = Tail(toGuest)
        /\ agent' = "idle" \/ (agent' = c /\ c \in Commands)
        /\ agent \in {"registering", "idle"}
    BY <1>13 DEF AgentRegistered, AgentReads
  <2>2. /\ c \in Members(toGuest)
        /\ c \in Commands => c \notin Members(toGuest')
        /\ Members(toGuest') \subseteq Members(toGuest)
        /\ Once(toGuest', Commands)
    BY <1>t, <1>d, <2>1, TailMembers
  <2>3. NoDuplicates'
    BY <1>d, <2>1, <2>2 DEF NoDuplicates
  <2> HIDE DEF c
  <2>4. CASE agent' = "idle"
    BY <1>m, <1>u, <2>1, <2>2, <2>3, <2>4, OnePlaceKept
  <2>5. CASE agent' = c /\ c \in Commands
    <3>1. ~Pumped(c) /\ c \notin Members(commands) /\ remote # c /\ executed[c] = 0
          /\ send[c] \notin {"new", "enqueue"}
      BY <2>2, <2>5 DEF OnePlace
    <3>2. /\ Members(commands)' = Members(commands) /\ Members(toHost)' = Members(toHost)
          /\ \A d \in Commands : Pumped(d)' <=> Pumped(d)
      BY <2>1 DEF Members, Pumped
    <3>3. OnePlace'
      BY <2>1, <2>2, <2>5, <3>1, <3>2 DEF OnePlace
    <3> QED
      BY <2>3, <3>3
  <2> QED
    BY <2>1, <2>4, <2>5
<1>14. CASE AgentExecutes
  <2>1. /\ UNCHANGED <<commands, toGuest, pump, remote, send, resultCh>>
        /\ agent \in Commands /\ agent' = "idle"
        /\ executed' = [executed EXCEPT ![agent] = @ + 1]
        /\ toHost' = Append(toHost, agent)
    BY <1>14 DEF AgentExecutes
  <2>2. executed[agent] = 0 /\ agent \notin Members(toHost)
    BY <2>1 DEF OnePlace
  <2>3. Members(toHost') = Members(toHost) \cup {agent} /\ Once(toHost', Commands)
    BY <1>t, <1>d, <2>1, <2>2, AppendMembers
  <2>4. NoDuplicates'
    BY <1>d, <2>1, <2>3 DEF NoDuplicates
  <2>5. executed' = [executed EXCEPT ![agent] = 1]
    BY <1>t, <2>1, <2>2
  <2>6. OnePlace'
    BY <1>m, <1>t, <1>u, <2>1, <2>2, <2>3, <2>5 DEF OnePlace
  <2> QED
    BY <2>4, <2>6
<1>15. CASE RegisterAgent \/ GetCommand \/ RemoteLeaves
  <2>1. /\ UNCHANGED <<commands, toGuest, toHost, pump, agent, executed, send, resultCh>>
        /\ remote' \in {"idle", "poll", "gone"}
    BY <1>15 DEF RegisterAgent, GetCommand, RemoteLeaves
  <2> QED
    BY <1>m, <1>u, <2>1, OnePlaceKept
<1>16. CASE GetCommandReturns
  <2>1. UNCHANGED <<toGuest, toHost, pump, agent, executed, send, resultCh>> /\ remote = "poll"
    BY <1>16 DEF GetCommandReturns
  <2>2. CASE UNCHANGED commands /\ remote' = "idle"
    BY <1>m, <1>u, <2>1, <2>2, OnePlaceKept
  <2>3. CASE commands # << >> /\ remote' = Head(commands) /\ commands' = Tail(commands)
    <3>1. remote' \in Commands
      BY <1>t, <1>d, <2>3, TailMembers
    <3>2. /\ remote' \in Members(commands) /\ remote' \notin Members(commands')
          /\ Members(commands') \subseteq Members(commands)
          /\ Once(commands', Commands)
      BY <1>t, <1>d, <2>3, <3>1, TailMembers
    <3>3. NoDuplicates'
      BY <1>d, <2>1, <3>2 DEF NoDuplicates
    <3>4. OnePlace'
      BY <1>m, <1>u, <2>1, <3>1, <3>2 DEF OnePlace
    <3> QED
      BY <3>3, <3>4
  <2> QED
    BY <1>16, <2>2, <2>3 DEF GetCommandReturns
<1>17. CASE ReportResult
  <2>1. /\ UNCHANGED <<commands, toGuest, toHost, pump, agent, send>>
        /\ remote \in Commands /\ remote' = "idle"
        /\ executed' = [executed EXCEPT ![remote] = @ + 1]
        /\ resultCh' = resultCh \/ resultCh' = [resultCh EXCEPT ![remote] = 1]
    BY <1>17 DEF ReportResult, DeliverResult
  <2>2. executed[remote] = 0
    BY <2>1 DEF OnePlace
  <2>3. executed' = [executed EXCEPT ![remote] = 1]
    BY <1>t, <2>1, <2>2
  <2>4. OnePlace'
    BY <1>m, <1>t, <1>u, <2>1, <2>2, <2>3 DEF OnePlace
  <2> QED
    BY <1>u, <2>1, <2>4
<1> QED
  BY <1>1, <1>2, <1>3, <1>4, <1>5, <1>6, <1>7, <1>8, <1>9, <1>10, <1>11, <1>12, <1>13, <1>14,
     <1>15, <1>16, <1>17 DEF Next, SendCommand, Serve, Pump, Agent, Remote

\* SendCommand has its waiter while it is in the call, and the channel is closed under a
\* sender only after the run was aborted.
LEMMA CallStep ==
  AgentTypeOK /\ WaitersInCall /\ TeardownInOrder /\ [Next]_vars
    => WaitersInCall' /\ TeardownInOrder'
<1> SUFFICES ASSUME AgentTypeOK, WaitersInCall, TeardownInOrder, [Next]_vars
             PROVE  WaitersInCall' /\ TeardownInOrder'
  OBVIOUS
<1> USE DEF coordVars, engineVars, hubVars, guestVars, WaitersInCall, TeardownInOrder, InCall,
            Registered, PanicOnlyAfterAbort, Panicked
<1>t. send \in [Commands -> {"new", "enqueue", "wait", "answered", "error", "panic"}]
      /\ teardown \in {"no", "unregistered", "disconnected", "stopped"}
  BY DEF AgentTypeOK
<1>1. ASSUME NEW c \in Commands, SendStart(c) PROVE WaitersInCall' /\ TeardownInOrder'
  BY <1>1, <1>t DEF SendStart
<1>2. ASSUME NEW c \in Commands, SendEnqueue(c) PROVE WaitersInCall' /\ TeardownInOrder'
  BY <1>2, <1>t DEF SendEnqueue
<1>3. ASSUME NEW c \in Commands, SendReturns(c) \/ SendGivesUp(c)
      PROVE  WaitersInCall' /\ TeardownInOrder'
  BY <1>3, <1>t DEF SendReturns, SendGivesUp
<1>4. CASE RunExpires
  BY <1>4 DEF RunExpires
<1>5. CASE UnregisterVM \/ DisconnectVM \/ StopVM
  BY <1>5 DEF UnregisterVM, DisconnectVM, StopVM
<1>7. ASSUME UNCHANGED <<send, waiters, teardown, runDone>>
      PROVE  WaitersInCall' /\ TeardownInOrder'
  BY <1>7
<1>6. CASE ServeEnds \/ ScannerFails
  BY <1>7, <1>6 DEF ServeEnds, ScannerFails
<1>8. CASE UNCHANGED vars
  BY <1>7, <1>8 DEF vars
<1>9. ASSUME NEW c \in Commands, Expire(c) PROVE WaitersInCall' /\ TeardownInOrder'
  BY <1>7, <1>9 DEF Expire
<1>10. CASE ServeRegister \/ ServeResult
  BY <1>7, <1>10 DEF ServeRegister, ServeResult
<1>11. ASSUME NEW k \in 1..MaxBoots, Pump(k) PROVE WaitersInCall' /\ TeardownInOrder'
  BY <1>7, <1>11 DEF Pump, PumpGets, PumpWrites, PumpEnds
<1>12. CASE AgentBoots \/ Agent \/ AgentDies
  BY <1>7, <1>12 DEF AgentBoots, Agent, AgentRegistered, AgentReads, AgentExecutes, AgentDies
<1>13. CASE Remote
  BY <1>7, <1>13 DEF Remote, RegisterAgent, GetCommand, GetCommandReturns, ReportResult, RemoteLeaves
<1> QED
  BY <1>1, <1>2, <1>3, <1>4, <1>5, <1>6, <1>8, <1>9, <1>10, <1>11, <1>12, <1>13
     DEF Next, SendCommand, Serve

\* Nothing is written to the socket before the ack to the first agent.
LEMMA AckStep == AgentTypeOK /\ AckFirst /\ [Next]_vars => AckFirst'
<1> SUFFICES ASSUME AgentTypeOK, AckFirst, [Next]_vars PROVE AckFirst'
  OBVIOUS
<1> USE DEF coordVars, engineVars, hubVars, guestVars
<1>t. /\ pump \in [1..MaxBoots -> Commands \cup {"none", "get", "off"}]
      /\ toGuest \in Seq(Commands \cup {"ack"})
      /\ boots \in Nat
  BY AgentAssumptions DEF AgentTypeOK
<1>m. \A m \in {"down", "registering", "none", "get", "off"} : m \notin Commands
  BY AgentAssumptions
<1>1. ASSUME UNCHANGED <<boots, toHost, agent, toGuest, pump>> PROVE AckFirst'
  BY <1>1 DEF AckFirst
<1>2. ASSUME NEW c \in Commands, SendStart(c) \/ SendCommand(c) \/ Expire(c) PROVE AckFirst'
  BY <1>1, <1>2 DEF SendStart, SendCommand, SendEnqueue, SendReturns, SendGivesUp, Expire
<1>3. CASE RunExpires \/ UnregisterVM \/ DisconnectVM \/ ServeEnds \/ ScannerFails \/ UNCHANGED vars
  BY <1>1, <1>3 DEF RunExpires, UnregisterVM, DisconnectVM, ServeEnds, ScannerFails, vars
<1>4. CASE StopVM \/ AgentDies
  BY <1>4 DEF StopVM, AgentDies, AckFirst
<1>5. CASE ServeRegister
  <2>1. /\ boots # 0 /\ UNCHANGED <<boots, agent>>
        /\ toGuest' = Append(toGuest, "ack")
    BY <1>5 DEF ServeRegister, AckFirst
  <2>2. "ack" \in Commands \cup {"ack"}
    OBVIOUS
  <2>3. toGuest' # << >> /\ Head(toGuest') = IF toGuest = << >> THEN "ack" ELSE Head(toGuest)
    BY <1>t, <2>1, <2>2, AppendMembers
  <2> QED
    BY <2>1, <2>3 DEF AckFirst
<1>6. CASE ServeResult
  BY <1>6 DEF ServeResult, AckFirst
<1>7. ASSUME NEW k \in 1..MaxBoots, PumpGets(k) \/ PumpEnds(k) PROVE AckFirst'
  <2>1. pump[k] # "none" /\ UNCHANGED <<boots, agent, toGuest, toHost>>
    BY <1>7 DEF PumpGets, PumpEnds
  <2> QED
    BY <2>1 DEF AckFirst
<1>8. ASSUME NEW k \in 1..MaxBoots, PumpWrites(k) PROVE AckFirst'
  <2>1. /\ pump[k] \in Commands /\ pump[k] # "none" /\ UNCHANGED <<boots, agent, toHost>>
        /\ toGuest' = toGuest \/ toGuest' = Append(toGuest, pump[k])
    BY <1>8, <1>m DEF PumpWrites
  <2>2. toGuest # << >> => toGuest' # << >> /\ Head(toGuest') = Head(toGuest)
    <3>1. pump[k] \in Commands \cup {"ack"}
      BY <2>1
    <3> QED
      BY <1>t, <2>1, <3>1, AppendMembers
  <2> QED
    BY <2>1, <2>2 DEF AckFirst
<1>9. CASE AgentBoots
  BY <1>9, <1>t DEF AgentBoots, AckFirst
<1>10. CASE Agent
  <2>1. agent # "down" /\ agent' # "registering" /\ boots' = boots
    BY <1>10, <1>m DEF Agent, AgentRegistered, AgentReads, AgentExecutes
  <2> QED
    BY <2>1 DEF AckFirst
<1>11. CASE Remote
  BY <1>1, <1>11 DEF Remote, RegisterAgent, GetCommand, GetCommandReturns, ReportResult, RemoteLeaves
<1> QED
  BY <1>2, <1>3, <1>4, <1>5, <1>6, <1>7, <1>8, <1>9, <1>10, <1>11 DEF Next, Serve, Pump

\* What has been disturbed stays disturbed.
LEMMA StaysDisturbed ==
  ASSUME AgentTypeOK, AckFirst, [Next]_vars, Undisturbed'
  PROVE  Undisturbed
<1> USE DEF coordVars, engineVars, hubVars, guestVars, Undisturbed, Registered
<1>t. boots \in Nat
  BY AgentAssumptions DEF AgentTypeOK
<1>1. ASSUME NEW c \in Commands, SendStart(c) \/ SendCommand(c) \/ Expire(c) PROVE Undisturbed
  BY <1>1 DEF SendStart, SendCommand, SendEnqueue, SendReturns, SendGivesUp, Expire
<1>2. CASE RunExpires \/ UnregisterVM \/ DisconnectVM \/ StopVM \/ UNCHANGED vars
  BY <1>2 DEF RunExpires, UnregisterVM, DisconnectVM, StopVM, vars
<1>3. CASE Serve \/ ScannerFails
  BY <1>3 DEF Serve, ServeEnds, ServeRegister, ServeResult, ScannerFails
<1>4. ASSUME NEW k \in 1..MaxBoots, Pump(k) PROVE Undisturbed
  BY <1>4 DEF Pump, PumpGets, PumpWrites, PumpEnds
<1>5. CASE AgentBoots
  BY <1>5, <1>t DEF AgentBoots
<1>6. CASE Agent \/ AgentDies
  <2>1. agent # "down" /\ UNCHANGED <<boots, remote, serve, teardown, runDone>>
    BY <1>6, AgentAssumptions DEF Agent, AgentRegistered, AgentReads, AgentExecutes, AgentDies
  <2> QED
    BY <2>1
<1>7. CASE Remote
  <2>1. remote # "gone" /\ UNCHANGED <<boots, agent, serve, teardown, runDone>>
    BY <1>7, AgentAssumptions
       DEF Remote, RegisterAgent, GetCommand, GetCommandReturns, ReportResult, RemoteLeaves
  <2> QED
    BY <2>1
<1> QED
  BY <1>1, <1>2, <1>3, <1>4, <1>5, <1>6, <1>7 DEF Next

\* While nothing is disturbed, no step loses a command whose caller waits.
LEMMA LostStep == AgentInv /\ [Next]_vars => NothingLost'
<1> SUFFICES ASSUME AgentInv, [Next]_vars, Undisturbed', NEW c \in Commands, send'[c] = "wait"
             PROVE  OnItsWay(c)'
  BY DEF NothingLost
<1> USE DEF coordVars, engineVars, hubVars, guestVars
<1>t. /\ commands \in Seq(Commands)
      /\ toGuest \in Seq(Commands \cup {"ack"})
      /\ toHost \in Seq(Commands \cup {"register"})
      /\ pump \in [1..MaxBoots -> Commands \cup {"none", "get", "off"}]
      /\ send \in [Commands -> {"new", "enqueue", "wait", "answered", "error", "panic"}]
      /\ resultCh \in [Commands -> {0, 1}]
      /\ Once(commands, Commands) /\ Once(toGuest, Commands) /\ Once(toHost, Commands)
  BY DEF AgentInv, AgentTypeOK, NoDuplicates
<1>m. \A m \in {"ack", "register", "down", "registering", "idle", "none", "poll", "gone", "get", "off"} :
        m \notin Commands
  BY AgentAssumptions
<1>n. Undisturbed
  BY StaysDisturbed DEF AgentInv
<1>w. send[c] = "wait" => OnItsWay(c)
  BY <1>n DEF AgentInv, NothingLost
<1>p. pump' = pump => (Pumped(c)' <=> Pumped(c))
  BY DEF Pumped
<1>d. c \in Members(toHost) \/ remote = c => resultCh[c] = 0
  BY <1>t DEF AgentInv, OnePlace
<1>1. ASSUME NEW d \in Commands, SendStart(d) \/ SendGivesUp(d) \/ Expire(d) PROVE OnItsWay(c)'
  <2>1. UNCHANGED <<commands, toGuest, toHost, pump, agent, remote, resultCh>> /\ send[c] = "wait"
    BY <1>1, <1>t DEF SendStart, SendGivesUp, Expire
  <2> QED
    BY <1>w, <1>p, <2>1 DEF OnItsWay
<1>2. ASSUME NEW d \in Commands, SendEnqueue(d) PROVE OnItsWay(c)'
  <2>1. UNCHANGED <<toGuest, toHost, pump, agent, remote, resultCh>>
    BY <1>2 DEF SendEnqueue
  <2>2. commands' = Append(commands, d) /\ send' = [send EXCEPT ![d] = "wait"]
    BY <1>2, <1>n DEF SendEnqueue, Undisturbed
  <2>3. Members(commands') = Members(commands) \cup {d}
    BY <1>t, <2>2, AppendMembers
  <2>4. c = d \/ send[c] = "wait"
    BY <1>t, <2>2
  <2> QED
    BY <1>w, <1>p, <2>1, <2>3, <2>4 DEF OnItsWay
<1>3. ASSUME NEW d \in Commands, SendReturns(d) PROVE OnItsWay(c)'
  <2>1. /\ UNCHANGED <<commands, toGuest, toHost, pump, agent, remote>>
        /\ c # d /\ send[c] = "wait" /\ resultCh'[c] = resultCh[c]
    BY <1>3, <1>t DEF SendReturns
  <2> QED
    BY <1>w, <1>p, <2>1 DEF OnItsWay
<1>4. CASE RunExpires \/ UnregisterVM \/ DisconnectVM \/ StopVM \/ RemoteLeaves
  BY <1>4 DEF RunExpires, UnregisterVM, DisconnectVM, StopVM, RemoteLeaves, Undisturbed, Registered
<1>5. CASE ServeEnds \/ ScannerFails \/ UNCHANGED vars
  <2>1. UNCHANGED <<commands, toGuest, toHost, pump, agent, remote, resultCh, send>>
    BY <1>5 DEF ServeEnds, ScannerFails, vars
  <2> QED
    BY <1>w, <1>p, <2>1 DEF OnItsWay
<1>6. CASE ServeRegister
  <2>1. /\ UNCHANGED <<commands, agent, remote, resultCh, send>>
        /\ toHost # << >> /\ Head(toHost) = "register" /\ toHost' = Tail(toHost)
        /\ toGuest' = Append(toGuest, "ack")
    BY <1>6 DEF ServeRegister
  <2>2. PICK k \in 1..MaxBoots : pump[k] = "none" /\ pump' = [pump EXCEPT ![k] = "get"]
    BY <1>6 DEF ServeRegister
  <2>3. Members(toHost) \subseteq Members(toHost') \cup {"register"}
    BY <1>t, <2>1, TailMembers
  <2>4. Members(toGuest') = Members(toGuest) \cup {"ack"}
    <3>1. "ack" \in Commands \cup {"ack"} /\ toGuest \in Seq(Commands \cup {"ack"})
      BY <1>t
    <3>2. toGuest' = Append(toGuest, "ack")
      BY <2>1
    <3> QED
      BY <3>1, <3>2, AppendMembers
  <2>5. Pumped(c) => Pumped(c)'
    BY <1>t, <1>m, <2>2 DEF Pumped
  <2> QED
    BY <1>m, <1>w, <2>1, <2>3, <2>4, <2>5 DEF OnItsWay
<1>7. CASE ServeResult
  <2> DEFINE h == Head(toHost)
  <2>1. /\ UNCHANGED <<commands, toGuest, pump, agent, remote, send>>
        /\ toHost # << >> /\ toHost' = Tail(toHost) /\ h \in Commands
        /\ DeliverResult(h)
    BY <1>7 DEF ServeResult
  <2>2. h \in Members(toHost) /\ Members(toHost) \subseteq Members(toHost') \cup {h}
    BY <1>t, <2>1, TailMembers
  <2> HIDE DEF h
  <2>3. resultCh[c] = 1 => resultCh'[c] = 1
    BY <1>t, <2>1 DEF DeliverResult
  <2>4. h = c => resultCh'[c] = 1
    BY <1>d, <1>n, <1>t, <2>1, <2>2 DEF DeliverResult, Undisturbed, AgentInv, WaitersInCall, InCall
  <2> QED
    BY <1>w, <1>p, <2>1, <2>2, <2>3, <2>4 DEF OnItsWay
<1>8. ASSUME NEW k \in 1..MaxBoots, PumpGets(k) PROVE OnItsWay(c)'
  <2> DEFINE h == Head(commands)
  <2>1. /\ UNCHANGED <<toGuest, toHost, agent, remote, send, resultCh>>
        /\ commands # << >> /\ commands' = Tail(commands)
        /\ pump[k] = "get" /\ pump' = [pump EXCEPT ![k] = h]
    BY <1>8 DEF PumpGets
  <2>2. Members(commands) \subseteq Members(commands') \cup {h}
    BY <1>t, <2>1, TailMembers
  <2> HIDE DEF h
  <2>3. Pumped(c) \/ c = h => Pumped(c)'
    BY <1>t, <1>m, <2>1 DEF Pumped
  <2> QED
    BY <1>w, <2>1, <2>2, <2>3 DEF OnItsWay
<1>9. ASSUME NEW k \in 1..MaxBoots, PumpWrites(k) PROVE OnItsWay(c)'
  <2> DEFINE h == pump[k]
  <2>0. serve = "on"
    BY <1>n DEF Undisturbed
  <2>1. /\ UNCHANGED <<commands, toHost, agent, remote, send, resultCh>>
        /\ h \in Commands
        /\ toGuest' = Append(toGuest, h) /\ pump' = [pump EXCEPT ![k] = "get"]
    BY <1>9, <2>0 DEF PumpWrites
  <2>2. Pumped(c) => Pumped(c)' \/ c = h
    BY <1>t, <2>1 DEF Pumped
  <2> HIDE DEF h
  <2>3. Members(toGuest') = Members(toGuest) \cup {h}
    <3>1. h \in Commands \cup {"ack"}
      BY <2>1
    <3> QED
      BY <1>t, <2>1, <3>1, AppendMembers
  <2> QED
    BY <1>w, <2>1, <2>2, <2>3 DEF OnItsWay
<1>10. ASSUME NEW k \in 1..MaxBoots, PumpEnds(k) PROVE OnItsWay(c)'
  <2>1. /\ UNCHANGED <<commands, toGuest, toHost, agent, remote, send, resultCh>>
        /\ pump[k] = "get" /\ pump' = [pump EXCEPT ![k] = "off"]
    BY <1>10 DEF PumpEnds
  <2>2. Pumped(c) => Pumped(c)'
    BY <1>t, <1>m, <2>1 DEF Pumped
  <2> QED
    BY <1>w, <2>1, <2>2 DEF OnItsWay
<1>11. CASE AgentBoots
  <2>1. /\ UNCHANGED <<commands, toGuest, pump, remote, send, resultCh>>
        /\ agent = "down" /\ toHost' = Append(toHost, "register")
    BY <1>11 DEF AgentBoots
  <2>2. Members(toHost') = Members(toHost) \cup {"register"}
    <3>1. "register" \in Commands \cup {"register"}
      OBVIOUS
    <3> QED
      BY <1>t, <2>1, <3>1, AppendMembers
  <2> QED
    BY <1>m, <1>w, <1>p, <2>1, <2>2 DEF OnItsWay
<1>12. CASE AgentRegistered \/ AgentReads
  <2> DEFINE h == Head(toGuest)
  <2>1. /\ UNCHANGED <<commands, toHost, pump, remote, send, resultCh, boots>>
        /\ toGuest # << >> /\ toGuest' = Tail(toGuest)
        /\ agent \in {"registering", "idle"}
        /\ agent = "idle" => agent' = IF h \in Commands THEN h ELSE "idle"
    BY <1>12 DEF AgentRegistered, AgentReads
  <2>2. Members(toGuest) \subseteq Members(toGuest') \cup {h}
    BY <1>t, <2>1, TailMembers
  <2>3. agent = "registering" => h = "ack"
    BY <1>n, <2>1 DEF Undisturbed, AgentInv, AckFirst
  <2> HIDE DEF h
  <2>4. h = c => agent' = c
    BY <1>m, <2>1, <2>3
  <2> QED
    BY <1>m, <1>w, <1>p, <2>1, <2>2, <2>4 DEF OnItsWay
<1>13. CASE AgentExecutes
  <2>1. /\ UNCHANGED <<commands, toGuest, pump, remote, send, resultCh>>
        /\ agent \in Commands /\ toHost' = Append(toHost, agent)
    BY <1>13 DEF AgentExecutes
  <2>2. Members(toHost') = Members(toHost) \cup {agent}
    <3>1. agent \in Commands \cup {"register"}
      BY <2>1
    <3> QED
      BY <1>t, <2>1, <3>1, AppendMembers
  <2> QED
    BY <1>w, <1>p, <2>1, <2>2 DEF OnItsWay
<1>14. CASE AgentDies
  <2>1. agent # "down" /\ agent' = "down" /\ boots' = boots
    BY <1>14 DEF AgentDies
  <2> QED
    BY <2>1 DEF Undisturbed, AgentInv, AckFirst
<1>15. CASE RegisterAgent \/ GetCommand
  <2>1. /\ UNCHANGED <<commands, toGuest, toHost, pump, agent, send, resultCh>>
        /\ remote \in {"none", "idle"}
    BY <1>15 DEF RegisterAgent, GetCommand
  <2> QED
    BY <1>m, <1>w, <1>p, <2>1 DEF OnItsWay
<1>16. CASE GetCommandReturns
  <2>1. UNCHANGED <<toGuest, toHost, pump, agent, send, resultCh>> /\ remote = "poll"
    BY <1>16 DEF GetCommandReturns
  <2>2. commands # << >> /\ remote' = Head(commands) /\ commands' = Tail(commands)
    BY <1>16, <1>n DEF GetCommandReturns, Undisturbed
  <2>3. Members(commands) \subseteq Members(commands') \cup {remote'}
    BY <1>t, <2>2, TailMembers
  <2> QED
    BY <1>m, <1>w, <1>p, <2>1, <2>3 DEF OnItsWay
<1>17. CASE ReportResult
  <2>1. /\ UNCHANGED <<commands, toGuest, toHost, pump, agent, send>>
        /\ remote \in Commands /\ DeliverResult(remote)
    BY <1>17 DEF ReportResult
  <2>2. resultCh[c] = 1 => resultCh'[c] = 1
    BY <1>t, <2>1 DEF DeliverResult
  <2>3. remote = c => resultCh'[c] = 1
    BY <1>d, <1>n, <1>t, <2>1 DEF DeliverResult, Undisturbed, AgentInv, WaitersInCall, InCall
  <2> QED
    BY <1>w, <1>p, <2>1, <2>2, <2>3 DEF OnItsWay
<1> QED
  BY <1>1, <1>2, <1>3, <1>4, <1>5, <1>6, <1>7, <1>8, <1>9, <1>10, <1>11, <1>12, <1>13, <1>14,
     <1>15, <1>16, <1>17 DEF Next, SendCommand, Serve, Pump, Agent, Remote

\* The inductive invariant holds in every reachable state.
THEOREM AgentInvariant == Spec => []AgentInv
<1>1. AgentInv /\ [Next]_vars => AgentInv'
  BY AgentTypeStep, PlaceStep, CallStep, AckStep, LostStep DEF AgentInv
<1> QED
  BY <1>1, InitAgentInv, PTL DEF Spec

\* No agent executes a command twice, whatever restarts, pumps and remote agents there are.
THEOREM AgentExecutedAtMostOnce == Spec => []ExecutedAtMostOnce
<1>1. AgentInv => ExecutedAtMostOnce
  BY DEF AgentInv, AgentTypeOK, ExecutedAtMostOnce
<1> QED
  BY <1>1, AgentInvariant, PTL

\* SendCommand returns a result only of its own command, and after the execution.
THEOREM AgentAnswerFollowsExecution == Spec => []AnswerFollowsExecution
<1>1. AgentInv => AnswerFollowsExecution
  BY DEF AgentInv, OnePlace, AnswerFollowsExecution
<1> QED
  BY <1>1, AgentInvariant, PTL

\* DeliverResult always finds room in the channel of the caller.
THEOREM AgentDeliveryNeverBlocks == Spec => []DeliveryNeverBlocks
<1>1. AgentInv => DeliveryNeverBlocks
  <2> SUFFICES ASSUME AgentInv PROVE DeliveryNeverBlocks
    OBVIOUS
  <2>1. waiters \subseteq Commands /\ resultCh \in [Commands -> {0, 1}] /\ OnePlace
    BY DEF AgentInv, AgentTypeOK
  <2>2. ASSUME NEW i \in 1..Len(toHost), toHost[i] \in waiters PROVE resultCh[toHost[i]] = 0
    <3>1. toHost[i] \in Members(toHost)
      BY DEF Members
    <3> QED
      BY <2>1, <2>2, <3>1 DEF OnePlace
  <2>3. ASSUME remote \in waiters PROVE resultCh[remote] = 0
    BY <2>1, <2>3 DEF OnePlace
  <2> QED
    BY <2>2, <2>3 DEF DeliveryNeverBlocks
<1> QED
  BY <1>1, AgentInvariant, PTL

\* While both agents live, the socket is read and the run goes on, a command its caller waits for is somewhere
\* between the channel, the agents and the caller.
THEOREM AgentCommandNotLost == Spec => []CommandNotLost
<1>1. AgentInv => CommandNotLost
  <2> SUFFICES ASSUME AgentInv, boots = 1, agent # "down", remote # "gone", serve = "on", Registered,
                      ~runDone, NEW c \in Commands, send[c] = "wait"
               PROVE  \/ \E i \in 1..Len(commands) : commands[i] = c
                      \/ \E k \in 1..MaxBoots : pump[k] = c
                      \/ \E i \in 1..Len(toGuest) : toGuest[i] = c
                      \/ agent = c \/ remote = c
                      \/ \E i \in 1..Len(toHost) : toHost[i] = c
                      \/ resultCh[c] = 1
    BY DEF CommandNotLost
  <2>1. OnItsWay(c)
    BY DEF AgentInv, NothingLost, Undisturbed
  <2> QED
    BY <2>1 DEF OnItsWay, Members, Pumped
<1> QED
  BY <1>1, AgentInvariant, PTL

\* UnregisterVM closes the commands channel under a sender only when the run was aborted.
THEOREM AgentPanicOnlyAfterAbort == Spec => []PanicOnlyAfterAbort
<1>1. AgentInv => PanicOnlyAfterAbort
  BY DEF AgentInv, TeardownInOrder
<1> QED
  BY <1>1, AgentInvariant, PTL
=============================================================================
