-------------------------- MODULE RunSequenceProofs --------------------------
(***************************************************************************)
(* Proofs about SuiteLoader.tla and RunSequence.tla, for any depth of the  *)
(* working directory, any Vishwa path and any number of edits and faults.  *)
(*                                                                         *)
(* LoaderInv says what the search has ruled out at each of its places.     *)
(* SequenceInv, over it, says what each step of executeTestRun has left    *)
(* behind: the VM and its events, and what the verdict rests on.           *)
(* LoopInv is the invariant of the loop in splitPath: the parts collected  *)
(* so far are the maximal stretches without a slash that have ended, in    *)
(* order.  Induction over the iterations is by the least counterexample.   *)
(***************************************************************************)
EXTENDS RunSequence, FiniteSetTheorems, SequenceTheorems, WellFoundedInduction, TLAPS

----------------------------------------------------------------------------
(* What the invariants say                                                 *)

\* The shape of the state of the loader.
LoaderTypeOK ==
  /\ files \in [Locations -> Contents]
  /\ search \in [at : {"idle", "vishwa", "climb", "read", "fallback", "loaded", "failed", "panic"},
                 pos : Nat, cwd : BOOLEAN]
  /\ edits \in Nat
  /\ search.at = "idle" => search.pos = 0 /\ search.cwd
  /\ search.at = "vishwa" => isVishwaSuite
  /\ search.at \in {"climb", "read"} => search.pos \in 0 .. Root /\ search.cwd
  /\ search.at = "fallback" => search.pos \in 1 .. 4

\* The places that were searched have no suite file.
SearchedInVain ==
  ~isVishwaSuite /\ edits = 0 =>
    /\ search.at \in {"climb", "read"} => \A l \in 0 .. search.pos - 1 : files[l] = Absent
    /\ search.at = "fallback" =>
         IF search.cwd THEN \A l \in 0 .. Root : files[l] = Absent
                       ELSE \A j \in 1 .. search.pos - 1 : files[FallbackPaths[j]] = Absent

LoaderInv == LoaderTypeOK /\ SearchedInVain /\ NearestSuiteWins

\* The steps of executeTestRun before there is a suite, before there is a VM, and those
\* that the deferred clean-up follows.
Unloaded == {"start", "device", "load suite"}
WithoutVM == Unloaded \cup {"allocate", "create", "deferred"}
WithVM == {"load driver", "verify", "workflow", "verdict", "complete"}

\* The entries of the stream and of the audit log; the commands and how they were answered.
Entry == {"test_run.started", "test_run.cancelled", "test_run.completed", "vm.created", "vm.ready",
          "vm.destroyed", "driver.loaded", "cancelled", "PASSED", "FAILED"}
Command == {"load_driver", "verify_device", "start_test"} \X {"passed", "failed", "error"}

\* The shape of the state of a run.
RunTypeOK ==
  /\ pc \in WithoutVM \cup {"start vm", "agent"} \cup WithVM \cup {"teardown", "end"}
  /\ events \in Seq(Entry)
  /\ audit \in Seq(Entry)
  /\ sent \in Seq(Command)
  /\ faults \in Nat

\* The end of the VM was announced, or Redis refused the event.
EndAnnounced == Contains(events, "vm.destroyed") \/ "vm.destroyed" \in dropped

\* The VM, what was sent to it and what the stream says of it.
VMInStep ==
  /\ search.at = "panic" => pc = "load suite"
  /\ Contains(events, "vm.created") \/ Contains(events, "vm.ready") => bus
  /\ pc \in WithoutVM => ~Contains(events, "vm.created")
  /\ pc \in WithoutVM \cup {"start vm", "agent"} => ~Contains(events, "vm.ready")
  /\ pc \in WithoutVM \cup {"start vm", "agent"} => sent = << >>
  /\ pc = "end" /\ ~EndAnnounced =>
       /\ Contains(events, "vm.created") => vm = "discarded" /\ sent = << >>
       /\ ~Contains(events, "vm.ready")

\* A test was sent to the guest.
TestStarted == \E i \in DOMAIN sent : sent[i][1] = "start_test"

\* What a verdict rests on, before and after it is written.
VerdictInStep ==
  /\ pc \in {"allocate", "create", "start vm", "agent"} \cup WithVM \/ verdict # "none" => search.at = "loaded"
  /\ pc \in WithoutVM \cup {"start vm", "agent"} \cup (WithVM \ {"complete"}) => verdict = "none"
  /\ pc = "complete" => verdict \in {"PASSED", "FAILED"}
  /\ pc \in {"verdict", "complete"} \/ verdict # "none" => TestStarted
  /\ verdict = "PASSED" /\ failing => expired \/ faults > 0
  /\ \A v \in {"PASSED", "FAILED"} : Contains(audit, v) =>
       /\ verdict = v
       /\ pc \in {"teardown", "end"}
       /\ ~expired /\ faults = 0 /\ cancel \in {"idle", "checked"} => row = v

SequenceInv == LoaderInv /\ RunTypeOK /\ VMInStep /\ VerdictInStep

----------------------------------------------------------------------------
(* The suite loader                                                        *)

\* The fixed paths are locations, and four.
LEMMA FallbackLocations == Len(FallbackPaths) = 4 /\ \A k \in 1 .. 4 : FallbackPaths[k] \in Locations
BY LoaderAssumptions DEF FallbackPaths, Locations, Static, Min2

\* The kinds of suite files.
LEMMA ContentKinds ==
  /\ Absent.kind = "absent" /\ Broken.kind = "broken"
  /\ Listless.kind = "suite" /\ WithTests.kind = "suite" /\ Twice.kind = "suite" /\ WithSteps.kind = "suite"
BY DEF Absent, Broken, Listless, WithTests, Twice, WithSteps, Suite

\* The search starts with nothing ruled out.
LEMMA InitLoader == LoaderInit => LoaderInv
<1> SUFFICES ASSUME LoaderInit PROVE LoaderInv
  OBVIOUS
<1>1. files \in [Locations -> Contents]
  BY DEF LoaderInit, Contents
<1>2. search = [at |-> "idle", pos |-> 0, cwd |-> TRUE] /\ edits = 0
  BY DEF LoaderInit
<1> QED
  BY <1>1, <1>2 DEF LoaderInv, LoaderTypeOK, SearchedInVain, NearestSuiteWins

\* Reading a location: what it means for the invariant.
LEMMA ParseStep ==
  ASSUME LoaderTypeOK, NEW l \in Locations, Parse(l), UNCHANGED <<path, files, edits>>,
         ~isVishwaSuite /\ edits = 0 =>
           IF search.cwd
             THEN \A m \in 0 .. l - 1 : files[m] = Absent
             ELSE \E k \in DOMAIN FallbackPaths :
                    l = FallbackPaths[k] /\ \A j \in 1 .. k - 1 : files[FallbackPaths[j]] = Absent
  PROVE  LoaderInv'
<1>1. search' = [search EXCEPT !.at = search'.at] /\ search'.at \in {"loaded", "failed"}
  BY DEF Parse, LoaderTypeOK
<1>2. search'.cwd = search.cwd /\ search' \in [at : {"loaded", "failed"}, pos : Nat, cwd : BOOLEAN]
  BY <1>1 DEF LoaderTypeOK
<1>3. search'.at = "loaded" =>
        /\ files[l].kind = "suite"
        /\ suite' = [steps |-> StepsOf(files[l]), from |-> l]
  BY DEF Parse, LoaderTypeOK
<1>5. LoaderTypeOK'
  BY <1>2 DEF LoaderTypeOK
<1>6. SearchedInVain'
  BY <1>2 DEF SearchedInVain
<1>7. NearestSuiteWins'
  <2> SUFFICES ASSUME search'.at = "loaded", edits = 0, ~isVishwaSuite
               PROVE  IF search'.cwd
                        THEN \A m \in 0 .. suite'.from - 1 : files[m] = Absent
                        ELSE \E k \in DOMAIN FallbackPaths :
                               /\ suite'.from = FallbackPaths[k]
                               /\ \A j \in 1 .. k - 1 : files[FallbackPaths[j]] = Absent
    BY DEF NearestSuiteWins, isVishwaSuite
  <2>1. suite'.from = l
    BY <1>3
  <2> QED
    BY <1>2, <2>1
<1> QED
  BY <1>5, <1>6, <1>7 DEF LoaderInv

\* Every step of the search, and an edit under way, keeps the invariant.
LEMMA LoaderStep ==
  ASSUME LoaderInv,
         \/ loadTestSuite
         \/ \E l \in Locations : \E c \in Contents : EditFile(l, c)
         \/ UNCHANGED loaderVars
  PROVE  LoaderInv'
<1>0. LoaderTypeOK /\ Root \in Nat
  BY LoaderAssumptions DEF LoaderInv
<1>1. CASE LoadSuiteBegins
  <2>1. search.at = "idle" /\ search.pos = 0 /\ search.cwd /\ UNCHANGED <<path, files, edits, suite>>
    BY <1>0, <1>1 DEF LoadSuiteBegins, LoaderTypeOK
  <2>2. \/ isVishwaSuite /\ search' = [search EXCEPT !.at = "vishwa"]
        \/ search' = [search EXCEPT !.at = "climb"]
        \/ search' = [at |-> "fallback", pos |-> 1, cwd |-> FALSE]
    BY <1>1 DEF LoadSuiteBegins
  <2>3. LoaderTypeOK'
    <3>1. CASE isVishwaSuite /\ search' = [search EXCEPT !.at = "vishwa"]
      BY <1>0, <2>1, <3>1 DEF LoaderTypeOK, isVishwaSuite
    <3>2. CASE search' = [search EXCEPT !.at = "climb"]
      BY <1>0, <2>1, <3>2 DEF LoaderTypeOK
    <3>3. CASE search' = [at |-> "fallback", pos |-> 1, cwd |-> FALSE]
      BY <1>0, <2>1, <3>3 DEF LoaderTypeOK
    <3> QED
      BY <2>2, <3>1, <3>2, <3>3
  <2>4. SearchedInVain' /\ NearestSuiteWins'
    BY <1>0, <2>1, <2>2 DEF LoaderTypeOK, SearchedInVain, NearestSuiteWins, isVishwaSuite
  <2> QED
    BY <2>3, <2>4 DEF LoaderInv
<1>2. CASE LoadVishwa
  <2>1. isVishwaSuite /\ UNCHANGED <<path, files, edits>>
    BY <1>0, <1>2 DEF LoadVishwa, LoaderTypeOK
  <2>2. search' \in {[search EXCEPT !.at = "panic"], [search EXCEPT !.at = "loaded"]}
    BY <1>0, <1>2 DEF LoadVishwa, LoaderTypeOK
  <2>4. LoaderTypeOK'
    BY <1>0, <2>1, <2>2 DEF LoaderTypeOK
  <2> QED
    BY <2>1, <2>4 DEF LoaderInv, SearchedInVain, NearestSuiteWins, isVishwaSuite
<1>3. CASE Climb
  <2>1. /\ search.at = "climb" /\ search.pos \in 0 .. Root /\ search.cwd
        /\ UNCHANGED <<path, files, edits, suite>>
    BY <1>0, <1>3 DEF Climb, LoaderTypeOK
  <2>2. CASE files[search.pos] # Absent
    <3>1. search' = [search EXCEPT !.at = "read"]
      BY <1>3, <2>2 DEF Climb
    <3> QED
      BY <1>0, <2>1, <3>1 DEF LoaderInv, LoaderTypeOK, SearchedInVain, NearestSuiteWins, isVishwaSuite
  <2>3. CASE files[search.pos] = Absent /\ search.pos = Root
    <3>1. search' = [search EXCEPT !.at = "fallback", !.pos = 1]
      BY <1>3, <2>3 DEF Climb
    <3>2. /\ search'.at = "fallback" /\ search'.pos = 1
          /\ search' \in [at : {"fallback"}, pos : Nat, cwd : BOOLEAN]
      BY <1>0, <3>1 DEF LoaderTypeOK
    <3>3. LoaderTypeOK' /\ NearestSuiteWins'
      BY <1>0, <2>1, <3>2 DEF LoaderTypeOK, NearestSuiteWins
    <3>4. SearchedInVain'
      BY <1>0, <2>1, <2>3, <3>1 DEF LoaderInv, LoaderTypeOK, SearchedInVain, isVishwaSuite
    <3> QED
      BY <3>3, <3>4 DEF LoaderInv
  <2>4. CASE files[search.pos] = Absent /\ search.pos # Root
    <3>1. search' = [search EXCEPT !.pos = @ + 1]
      BY <1>3, <2>4 DEF Climb
    <3>2. LoaderTypeOK' /\ NearestSuiteWins'
      BY <1>0, <2>1, <2>4, <3>1 DEF LoaderTypeOK, NearestSuiteWins
    <3>3. SearchedInVain'
      BY <1>0, <2>1, <2>4, <3>1 DEF LoaderInv, LoaderTypeOK, SearchedInVain, isVishwaSuite
    <3> QED
      BY <3>2, <3>3 DEF LoaderInv
  <2> QED
    BY <2>2, <2>3, <2>4
<1>4. CASE ReadFound
  <2>1. search.at = "read" /\ search.pos \in 0 .. Root /\ search.cwd
    BY <1>0, <1>4 DEF ReadFound, LoaderTypeOK
  <2>2. search.pos \in Locations
    BY <1>0, <2>1 DEF Locations, Static
  <2>3. ~isVishwaSuite /\ edits = 0 => \A m \in 0 .. search.pos - 1 : files[m] = Absent
    BY <2>1 DEF LoaderInv, SearchedInVain
  <2> QED
    BY <1>0, <1>4, <2>1, <2>2, <2>3, ParseStep DEF ReadFound
<1>5. CASE Fallback
  <2> DEFINE location == FallbackPaths[search.pos]
  <2>1. /\ search.at = "fallback" /\ search.pos \in 1 .. 4 /\ Len(FallbackPaths) = 4
        /\ location \in Locations /\ UNCHANGED <<path, files, edits>>
    BY <1>0, <1>5, FallbackLocations DEF Fallback, LoaderTypeOK
  <2>2. CASE files[location] = Absent /\ search.pos < 4
    <3>1. search' = [search EXCEPT !.pos = @ + 1] /\ UNCHANGED suite
      BY <1>5, <2>1, <2>2 DEF Fallback
    <3>2. LoaderTypeOK' /\ NearestSuiteWins'
      BY <1>0, <2>1, <2>2, <3>1 DEF LoaderTypeOK, NearestSuiteWins
    <3>3. SearchedInVain'
      BY <1>0, <2>1, <2>2, <3>1 DEF LoaderInv, LoaderTypeOK, SearchedInVain, isVishwaSuite
    <3> QED
      BY <3>2, <3>3 DEF LoaderInv
  <2>3. CASE ~(files[location] = Absent /\ search.pos < 4)
    <3>1. Parse(location)
      BY <1>5, <2>1, <2>3 DEF Fallback
    <3>2. search.pos \in DOMAIN FallbackPaths
      BY <2>1 DEF FallbackPaths
    <3>3. location - 1 <= Root /\ location \in Int
      BY <1>0, <2>1 DEF Locations, Static
    <3>4. ~isVishwaSuite /\ edits = 0 =>
            IF search.cwd
              THEN \A m \in 0 .. location - 1 : files[m] = Absent
              ELSE \E k \in DOMAIN FallbackPaths :
                     location = FallbackPaths[k] /\ \A j \in 1 .. k - 1 : files[FallbackPaths[j]] = Absent
      <4> HIDE DEF location
      <4>1. \A m \in 0 .. location - 1 : m \in 0 .. Root
        BY <1>0, <3>3
      <4> QED
        BY <2>1, <3>2, <4>1 DEF LoaderInv, SearchedInVain, location
    <3> QED
      BY <1>0, <2>1, <3>1, <3>4, ParseStep
  <2> QED
    BY <2>2, <2>3
<1>6. ASSUME NEW l \in Locations, NEW c \in Contents, EditFile(l, c) PROVE LoaderInv'
  <2>1. /\ edits' = edits + 1 /\ files' = [files EXCEPT ![l] = c] /\ UNCHANGED <<path, search, suite>>
        /\ search.at # "loaded"
    BY <1>6 DEF EditFile
  <2>2. edits' # 0 /\ LoaderTypeOK'
    BY <1>0, <2>1 DEF LoaderTypeOK, isVishwaSuite
  <2> QED
    BY <2>1, <2>2 DEF LoaderInv, SearchedInVain, NearestSuiteWins
<1>7. CASE UNCHANGED loaderVars
  BY <1>7 DEF loaderVars, LoaderInv, LoaderTypeOK, SearchedInVain, NearestSuiteWins, isVishwaSuite
<1> QED
  BY <1>1, <1>2, <1>3, <1>4, <1>5, <1>6, <1>7 DEF loadTestSuite

----------------------------------------------------------------------------
(* Events, audit records and commands                                      *)

\* What a log contains after one more entry.
LEMMA LogAppend ==
  ASSUME NEW S, NEW log \in Seq(S), NEW e \in S
  PROVE  /\ Append(log, e) \in Seq(S)
         /\ \A x : Contains(Append(log, e), x) <=> Contains(log, x) \/ x = e
<1> DEFINE a == Append(log, e)
<1>1. /\ Len(log) \in Nat
      /\ a \in Seq(S)
      /\ Len(a) = Len(log) + 1
      /\ a[Len(log) + 1] = e
      /\ \A i \in 1..Len(log) : a[i] = log[i]
  BY AppendProperties, LenProperties
<1> HIDE DEF a
<1>2. 1..Len(a) = 1..Len(log) \cup {Len(log) + 1}
  BY <1>1
<1>3. ASSUME NEW x PROVE Contains(a, x) <=> Contains(log, x) \/ x = e
  BY <1>1, <1>2 DEF Contains
<1> QED
  BY <1>1, <1>3 DEF a

\* An event is published or refused if the bus is enabled, and none is taken back.
LEMMA PublishStep ==
  ASSUME events \in Seq(Entry), NEW e \in Entry, Publish(e) \/ PublishAlways(e)
  PROVE  /\ events' \in Seq(Entry)
         /\ \A x : Contains(events', x) => Contains(events, x) \/ (x = e /\ bus)
         /\ PublishAlways(e) /\ bus => Contains(events', e) \/ e \in dropped'
<1>1. events' = events \/ (bus /\ events' = Append(events, e))
  BY DEF Publish, PublishAlways, XAdd, stream
<1>2. PublishAlways(e) /\ bus => events' = Append(events, e) \/ e \in dropped'
  BY DEF PublishAlways, XAdd
<1>3. /\ Append(events, e) \in Seq(Entry)
      /\ \A x : Contains(Append(events, e), x) <=> Contains(events, x) \/ x = e
  BY LogAppend
<1>4. events' \in Seq(Entry)
  BY <1>1, <1>3
<1>5. ASSUME NEW x, Contains(events', x) PROVE Contains(events, x) \/ (x = e /\ bus)
  BY <1>1, <1>3, <1>5, Zenon
<1>6. PublishAlways(e) /\ bus => Contains(events', e) \/ e \in dropped'
  BY <1>2, <1>3, Zenon
<1> QED
  BY <1>4, <1>5, <1>6

\* A command sent stays in the list of those sent.
LEMMA SentAppend ==
  ASSUME sent \in Seq(Command), NEW c \in Command, sent' = Append(sent, c)
  PROVE  /\ sent' \in Seq(Command)
         /\ TestStarted \/ c[1] = "start_test" => TestStarted'
<1>1. /\ Len(sent) \in Nat /\ DOMAIN sent = 1..Len(sent)
      /\ sent' \in Seq(Command)
      /\ Len(sent') = Len(sent) + 1 /\ DOMAIN sent' = 1..Len(sent')
      /\ sent'[Len(sent) + 1] = c
      /\ \A i \in 1..Len(sent) : sent'[i] = sent[i]
  BY AppendProperties, LenProperties
<1>2. Len(sent) + 1 \in DOMAIN sent' /\ \A i \in DOMAIN sent : i \in DOMAIN sent' /\ sent'[i] = sent[i]
  BY <1>1
<1> QED
  BY <1>1, <1>2 DEF TestStarted

\* A write to the store.
LEMMA UpdateStep ==
  ASSUME faults \in Nat, NEW status, Update(status)
  PROVE  /\ faults' \in Nat
         /\ faults > 0 => faults' > 0
         /\ ~expired /\ faults' = 0 => row' = status
BY DEF Update

----------------------------------------------------------------------------
(* The run                                                                 *)

\* The invariant holds when the run starts.
LEMMA InitSequence == Init => SequenceInv
<1> SUFFICES ASSUME Init PROVE SequenceInv
  OBVIOUS
<1>1. LoaderInv /\ search.at = "idle"
  BY InitLoader DEF Init, LoaderInit
<1>2. pc = "start" /\ vm = "none" /\ verdict = "none" /\ events = << >> /\ audit = << >> /\ sent = << >> /\ faults = 0
  BY DEF Init
<1>3. (\A e : ~Contains(events, e)) /\ \A v : ~Contains(audit, v)
  BY <1>2 DEF Contains
<1> QED
  BY <1>1, <1>2, <1>3 DEF SequenceInv, RunTypeOK, VMInStep, VerdictInStep, WithoutVM, Unloaded, WithVM

\* A step that announces no VM as created or ready.
Quiet ==
  /\ events' \in Seq(Entry)
  /\ Contains(events', "vm.created") => Contains(events, "vm.created")
  /\ Contains(events', "vm.ready") => Contains(events, "vm.ready")

\* The names of events are entries.
LEMMA EventNames ==
  /\ {"test_run.started", "test_run.cancelled", "test_run.completed", "vm.created", "vm.ready",
      "vm.destroyed", "driver.loaded"} \subseteq Entry
  /\ {"cancelled", "vm.created", "vm.destroyed", "PASSED", "FAILED"} \subseteq Entry
BY DEF Entry

\* Publishing another event is quiet.
LEMMA QuietStep ==
  ASSUME events \in Seq(Entry),
         \/ UNCHANGED stream
         \/ \E e \in Entry \ {"vm.created", "vm.ready"} : Publish(e) \/ PublishAlways(e)
  PROVE  Quiet
<1>1. CASE UNCHANGED stream
  BY <1>1 DEF Quiet, stream
<1>2. ASSUME NEW e \in Entry \ {"vm.created", "vm.ready"}, Publish(e) \/ PublishAlways(e) PROVE Quiet
  <2>1. /\ events' \in Seq(Entry)
        /\ \A x : Contains(events', x) => Contains(events, x) \/ (x = e /\ bus)
    BY <1>2, PublishStep
  <2>2. \A x \in {"vm.created", "vm.ready"} : Contains(events', x) => Contains(events, x) \/ x = e
    BY <2>1, Zenon
  <2> QED
    BY <1>2, <2>1, <2>2 DEF Quiet
<1> QED
  BY <1>1, <1>2

\* Every step keeps the shape of the state.
LEMMA RunTypeStep == RunTypeOK /\ VerdictInStep /\ [Next]_vars => RunTypeOK'
<1> SUFFICES ASSUME RunTypeOK, VerdictInStep, [Next]_vars PROVE RunTypeOK'
  OBVIOUS
<1>1. pc' \in WithoutVM \cup {"start vm", "agent"} \cup WithVM \cup {"teardown", "end"}
  <2> USE DEF RunTypeOK, WithoutVM, Unloaded, WithVM
  <2>1. CASE MarkRunning \/ GateOnDevice \/ Allocate \/ CreateVM \/ StartVM \/ WaitForAgent
    BY <2>1 DEF MarkRunning, GateOnDevice, Fails, Allocate, CreateVM, StartVM, WaitForAgent
  <2>2. CASE LoadSuite
    BY <2>2 DEF LoadSuite, runVars, Fails
  <2>3. CASE LoadDriver \/ VerifyDevice
    BY <2>3 DEF LoadDriver, VerifyDevice, SendCommand
  <2>4. CASE RunWorkflow \/ DecideVerdict \/ Complete \/ Teardown
    BY <2>4 DEF RunWorkflow, DecideVerdict, Complete, Teardown
  <2>5. CASE Deadline \/ CancelTestRun \/ Edit \/ UNCHANGED vars
    BY <2>5 DEF Deadline, CancelTestRun, Edit, vars, runVars
  <2> QED
    BY <2>1, <2>2, <2>3, <2>4, <2>5 DEF Next, executeTestRun
<1>2. faults' \in Nat
  <2>0. \A st : Update(st) => faults' = faults \/ faults' = faults + 1
    BY DEF Update
  <2>1. faults' = faults \/ faults' = faults + 1
    BY <2>0 DEF Next, executeTestRun, MarkRunning, GateOnDevice, Fails, LoadSuite, Allocate, CreateVM, StartVM,
                WaitForAgent, LoadDriver, VerifyDevice, SendCommand, RunWorkflow, DecideVerdict, Complete, Teardown,
                Deadline, CancelTestRun, Edit, vars, runVars
  <2>2. faults \in Nat
    BY DEF RunTypeOK
  <2> QED
    BY <2>1, <2>2
<1>3. events' \in Seq(Entry)
  <2>0. events \in Seq(Entry)
    BY DEF RunTypeOK
  <2>1. \/ UNCHANGED stream
        \/ \E e \in {"test_run.started", "test_run.cancelled", "test_run.completed", "vm.created", "vm.ready",
                     "vm.destroyed", "driver.loaded"} : Publish(e) \/ PublishAlways(e)
    BY DEF Next, executeTestRun, MarkRunning, GateOnDevice, Fails, LoadSuite, Allocate, CreateVM, StartVM,
           WaitForAgent, LoadDriver, VerifyDevice, RunWorkflow, DecideVerdict, Complete, Teardown, Deadline,
           CancelTestRun, Edit, vars, runVars, stream
  <2>2. UNCHANGED stream => events' = events
    BY DEF stream
  <2> QED
    BY <2>0, <2>1, <2>2, PublishStep, EventNames
<1>4. audit' \in Seq(Entry)
  <2>0. audit \in Seq(Entry)
    BY DEF RunTypeOK
  <2>1. \/ UNCHANGED audit
        \/ \E e \in {"cancelled", "vm.created", "vm.destroyed", "PASSED", "FAILED"} : audit' = Append(audit, e)
    BY DEF Next, executeTestRun, MarkRunning, GateOnDevice, Fails, LoadSuite, Allocate, CreateVM, StartVM,
           WaitForAgent, LoadDriver, VerifyDevice, RunWorkflow, DecideVerdict, Complete, Teardown, Deadline,
           CancelTestRun, Edit, vars, runVars, VerdictInStep
  <2> QED
    BY <2>0, <2>1, LogAppend, EventNames
<1>5. sent' \in Seq(Command)
  <2>0. sent \in Seq(Command)
    BY DEF RunTypeOK
  <2>1. \/ UNCHANGED sent
        \/ \E t \in {"load_driver", "verify_device", "start_test"} : \E st \in {"passed", "failed", "error"} :
             sent' = Append(sent, <<t, st>>)
    BY DEF Next, executeTestRun, MarkRunning, GateOnDevice, Fails, LoadSuite, Allocate, CreateVM, StartVM,
           WaitForAgent, LoadDriver, VerifyDevice, SendCommand, RunWorkflow, DecideVerdict, Complete, Teardown,
           Deadline, CancelTestRun, Edit, vars, runVars
  <2>2. \A t \in {"load_driver", "verify_device", "start_test"} : \A st \in {"passed", "failed", "error"} :
          <<t, st>> \in Command
    BY DEF Command
  <2> QED
    BY <2>0, <2>1, <2>2, SentAppend
<1> QED
  BY <1>1, <1>2, <1>3, <1>4, <1>5 DEF RunTypeOK

\* Every step keeps the VM and its events in step.
LEMMA VMStep == RunTypeOK /\ VMInStep /\ [Next]_vars => VMInStep'
<1> SUFFICES ASSUME RunTypeOK, VMInStep, [Next]_vars PROVE VMInStep'
  OBVIOUS
<1>0. events \in Seq(Entry)
  BY DEF RunTypeOK
<1>1. \A e \in {"test_run.started", "test_run.cancelled", "test_run.completed", "vm.destroyed", "driver.loaded"} :
        e \in Entry \ {"vm.created", "vm.ready"}
  BY DEF Entry
<1>2. CASE UNCHANGED vars
  BY <1>2 DEF vars, loaderVars, runVars, VMInStep, EndAnnounced
<1>3. CASE Next
  <2> USE DEF VMInStep, WithoutVM, Unloaded, WithVM, loaderVars, Other
  <2>0. search.at # "panic"
    BY <1>3 DEF Next
  <2>1. CASE MarkRunning
    <3>1. Quiet
      BY <1>0, <1>1, <2>1, QuietStep DEF MarkRunning
    <3> QED
      BY <2>0, <2>1, <3>1 DEF MarkRunning, Quiet
  <2>2. CASE GateOnDevice
    <3>1. Quiet
      BY <1>0, <1>1, <2>2, QuietStep DEF GateOnDevice, Fails
    <3> QED
      BY <2>0, <2>2, <3>1 DEF GateOnDevice, Fails, Quiet
  <2>3. CASE LoadSuite
    BY <2>0, <2>3 DEF LoadSuite, Fails, runVars, stream
  <2>4. CASE Allocate \/ StartVM
    BY <2>0, <2>4 DEF Allocate, StartVM, stream
  <2>5. CASE CreateVM
    <3>1. ASSUME Publish("vm.created")
          PROVE  /\ Contains(events', "vm.ready") => Contains(events, "vm.ready")
                 /\ Contains(events', "vm.created") => Contains(events, "vm.created") \/ bus
      <4>1. \A x : Contains(events', x) => Contains(events, x) \/ (x = "vm.created" /\ bus)
        BY <1>0, <3>1, PublishStep, EventNames
      <4>2. "vm.ready" # "vm.created"
        OBVIOUS
      <4> QED
        BY <4>1, <4>2, Zenon
    <3>2. CASE Fails
      BY <2>0, <2>5, <3>2 DEF CreateVM, Fails, stream
    <3>3. CASE Publish("vm.created") /\ pc' = "start vm" /\ UNCHANGED sent
      BY <2>0, <2>5, <3>1, <3>3 DEF CreateVM
    <3> QED
      BY <2>5, <3>2, <3>3 DEF CreateVM
  <2>6. CASE WaitForAgent
    <3>1. ASSUME Publish("vm.ready")
          PROVE  /\ Contains(events', "vm.ready") => Contains(events, "vm.ready") \/ bus
                 /\ Contains(events', "vm.created") => Contains(events, "vm.created")
      <4>1. \A x : Contains(events', x) => Contains(events, x) \/ (x = "vm.ready" /\ bus)
        BY <1>0, <3>1, PublishStep, EventNames
      <4>2. "vm.ready" # "vm.created"
        OBVIOUS
      <4> QED
        BY <4>1, <4>2, Zenon
    <3> QED
      BY <2>0, <2>6, <3>1 DEF WaitForAgent, stream
  <2>7. CASE LoadDriver
    <3>1. Quiet
      BY <1>0, <1>1, <2>7, QuietStep DEF LoadDriver
    <3>2. pc' \in {"verify", "workflow", "teardown"}
      BY <2>7 DEF LoadDriver, SendCommand
    <3> QED
      BY <2>0, <2>7, <3>1, <3>2 DEF LoadDriver, Quiet
  <2>8. CASE VerifyDevice
    <3>1. pc' \in {"workflow", "teardown"}
      BY <2>8 DEF VerifyDevice, SendCommand
    <3> QED
      BY <2>0, <2>8, <3>1 DEF VerifyDevice, stream
  <2>9. CASE RunWorkflow \/ DecideVerdict
    BY <2>0, <2>9 DEF RunWorkflow, DecideVerdict, stream
  <2>10. CASE Complete
    <3>1. Quiet
      BY <1>0, <1>1, <2>10, QuietStep DEF Complete
    <3> QED
      BY <2>0, <2>10, <3>1 DEF Complete, Quiet
  <2>11. CASE Teardown
    <3>1. Quiet
      BY <1>0, <1>1, <2>11, QuietStep DEF Teardown
    <3>2. bus => EndAnnounced'
      BY <1>0, <2>11, PublishStep, EventNames DEF Teardown, EndAnnounced
    <3> QED
      BY <2>0, <2>11, <3>1, <3>2 DEF Teardown, Quiet
  <2>12. CASE Deadline \/ CancelTestRun
    BY <2>0, <2>12 DEF Deadline, CancelTestRun, stream, EndAnnounced
  <2>13. CASE Edit
    <3>1. UNCHANGED <<search, pc, vm, sent, events, dropped, bus>>
      BY <2>13 DEF Edit, EditFile, runVars
    <3> QED
      BY <2>0, <3>1 DEF EndAnnounced
  <2> QED
    BY <1>3, <2>1, <2>2, <2>3, <2>4, <2>5, <2>6, <2>7, <2>8, <2>9, <2>10, <2>11, <2>12, <2>13
       DEF Next, executeTestRun
<1> QED
  BY <1>2, <1>3

\* No verdict is added to the audit log.
NoVerdict == \A v \in {"PASSED", "FAILED"} : Contains(audit', v) => Contains(audit, v)

\* Only Complete adds one.
LEMMA NoVerdictStep ==
  ASSUME audit \in Seq(Entry),
         UNCHANGED audit \/ \E e \in {"cancelled", "vm.created", "vm.destroyed"} : audit' = Append(audit, e)
  PROVE  NoVerdict
<1>1. CASE UNCHANGED audit
  BY <1>1 DEF NoVerdict
<1>2. ASSUME NEW e \in {"cancelled", "vm.created", "vm.destroyed"}, audit' = Append(audit, e)
      PROVE  NoVerdict
  <2>1. e \in Entry
    BY EventNames
  <2>2. \A x : Contains(audit', x) <=> Contains(audit, x) \/ x = e
    BY <1>2, <2>1, LogAppend
  <2>3. e \notin {"PASSED", "FAILED"}
    BY <1>2
  <2> QED
    BY <2>2, <2>3, Zenon DEF NoVerdict
<1> QED
  BY <1>1, <1>2

\* Every step keeps what a verdict rests on.
LEMMA VerdictStep == LoaderInv /\ RunTypeOK /\ VerdictInStep /\ [Next]_vars => VerdictInStep'
<1> SUFFICES ASSUME LoaderInv, RunTypeOK, VerdictInStep, [Next]_vars PROVE VerdictInStep'
  OBVIOUS
<1>0. audit \in Seq(Entry) /\ sent \in Seq(Command)
  BY DEF RunTypeOK
<1>1. faults \in Nat
  BY DEF RunTypeOK
<1>2. CASE UNCHANGED vars
  BY <1>2 DEF vars, loaderVars, runVars, VerdictInStep, TestStarted
<1>3. CASE Next
  <2> USE DEF VerdictInStep, WithoutVM, Unloaded, WithVM, loaderVars, Other
  <2>1. ASSUME UNCHANGED loaderVars, UNCHANGED <<expired, cancel, sent, failing, verdict>>, NoVerdict,
               verdict = "none", pc \notin {"verdict", "complete"},
               pc' \notin {"verdict", "complete"},
               pc' \in {"allocate", "create", "start vm", "agent"} \cup WithVM => search.at = "loaded"
        PROVE  VerdictInStep'
    <3>1. \A v \in {"PASSED", "FAILED"} : ~Contains(audit', v)
      BY <2>1 DEF NoVerdict
    <3> QED
      BY <2>1, <3>1
  <2>2. CASE MarkRunning \/ GateOnDevice \/ Allocate \/ CreateVM \/ StartVM \/ WaitForAgent
    <3>1. NoVerdict
      BY <1>0, <2>2, NoVerdictStep DEF MarkRunning, GateOnDevice, Fails, Allocate, CreateVM, StartVM, WaitForAgent
    <3> QED
      BY <2>1, <2>2, <3>1 DEF MarkRunning, GateOnDevice, Fails, Allocate, CreateVM, StartVM, WaitForAgent
  <2>3. CASE LoadSuite
    <3>1. NoVerdict
      BY <1>0, <2>3, NoVerdictStep DEF LoadSuite, Fails, runVars
    <3>2. CASE loadTestSuite /\ UNCHANGED runVars
      BY <2>3, <3>2 DEF LoadSuite, runVars
    <3>3. CASE ~(loadTestSuite /\ UNCHANGED runVars)
      BY <2>1, <2>3, <3>1, <3>3 DEF LoadSuite, Fails
    <3> QED
      BY <3>2, <3>3
  <2>4. CASE LoadDriver \/ VerifyDevice
    <3>1. NoVerdict
      BY <1>0, <2>4, NoVerdictStep DEF LoadDriver, VerifyDevice
    <3>2. \A v \in {"PASSED", "FAILED"} : ~Contains(audit', v)
      BY <2>4, <3>1 DEF NoVerdict, LoadDriver, VerifyDevice
    <3>3. pc \in {"load driver", "verify"} /\ pc' \in {"verify", "workflow", "teardown"}
      BY <2>4 DEF LoadDriver, VerifyDevice, SendCommand
    <3>4. UNCHANGED loaderVars /\ UNCHANGED <<failing, verdict>>
      BY <2>4 DEF LoadDriver, VerifyDevice
    <3> QED
      BY <3>2, <3>3, <3>4
  <2>5. CASE RunWorkflow
    <3>1. pc = "workflow" /\ UNCHANGED loaderVars /\ UNCHANGED <<verdict, audit>> /\ pc' \in {"verdict", "teardown"}
      BY <2>5 DEF RunWorkflow
    <3>2. verdict = "none" /\ search.at = "loaded" /\ \A v \in {"PASSED", "FAILED"} : ~Contains(audit, v)
      BY <3>1
    <3>3. ASSUME pc' = "verdict" PROVE TestStarted'
      <4>1. PICK st \in {"passed", "failed", "error"} : sent' = Append(sent, <<"start_test", st>>)
        BY <2>5, <3>3 DEF RunWorkflow
      <4>2. <<"start_test", st>> \in Command /\ <<"start_test", st>>[1] = "start_test"
        BY DEF Command
      <4> QED
        BY <1>0, <4>1, <4>2, SentAppend
    <3> QED
      BY <3>1, <3>2, <3>3
  <2>6. CASE DecideVerdict
    <3>1. /\ pc = "verdict" /\ pc' = "complete"
          /\ UNCHANGED loaderVars /\ UNCHANGED <<expired, sent, failing, audit>>
      BY <2>6 DEF DecideVerdict
    <3>2. TestStarted'
      BY <3>1 DEF TestStarted
    <3>3. verdict' \in {"PASSED", "FAILED"}
      BY <2>6 DEF DecideVerdict, finalStatus
    <3>4. verdict' = "PASSED" /\ failing' => expired' \/ faults' > 0
      BY <1>1, <2>6, <3>1 DEF DecideVerdict, finalStatus
    <3> QED
      BY <3>1, <3>2, <3>3, <3>4
  <2>7. CASE Complete
    <3>1. /\ pc = "complete" /\ pc' = "teardown" /\ Update(verdict) /\ audit' = Append(audit, verdict)
          /\ UNCHANGED loaderVars /\ UNCHANGED <<expired, cancel, sent, failing, verdict>>
      BY <2>7 DEF Complete
    <3>2. verdict \in {"PASSED", "FAILED"} /\ verdict \in Entry /\ \A v \in {"PASSED", "FAILED"} : ~Contains(audit, v)
      BY <3>1, EventNames
    <3>3. \A x : Contains(audit', x) <=> Contains(audit, x) \/ x = verdict
      BY <1>0, <3>1, <3>2, LogAppend
    <3>4. \A v \in {"PASSED", "FAILED"} : Contains(audit', v) => v = verdict
      BY <3>2, <3>3, Zenon
    <3>5. faults' \in Nat /\ (faults > 0 => faults' > 0) /\ (~expired /\ faults' = 0 => row' = verdict)
      BY <1>1, <3>1, UpdateStep
    <3>6. verdict = "PASSED" /\ failing => expired \/ faults' > 0
      BY <3>5, Zenon
    <3>7. TestStarted'
      BY <3>1 DEF TestStarted
    <3> QED
      BY <3>1, <3>2, <3>4, <3>5, <3>6, <3>7
  <2>8. CASE Teardown
    <3>1. NoVerdict
      BY <1>0, <2>8, NoVerdictStep DEF Teardown
    <3>2. TestStarted' = TestStarted
      BY <2>8 DEF Teardown, TestStarted
    <3> QED
      BY <2>8, <3>1, <3>2 DEF Teardown, NoVerdict
  <2>9. CASE Deadline
    BY <2>9 DEF Deadline, TestStarted
  <2>10. CASE CancelTestRun
    <3>1. NoVerdict
      BY <1>0, <2>10, NoVerdictStep DEF CancelTestRun
    <3>2. TestStarted' = TestStarted
      BY <2>10 DEF CancelTestRun, TestStarted
    <3>3. cancel' \in {"idle", "checked"} => cancel \in {"idle", "checked"} /\ row' = row
      BY <2>10 DEF CancelTestRun
    <3>4. UNCHANGED loaderVars /\ UNCHANGED <<pc, expired, failing, verdict, faults>>
      BY <2>10 DEF CancelTestRun
    <3> QED
      BY <3>1, <3>2, <3>3, <3>4 DEF NoVerdict
  <2>11. CASE Edit
    <3>1. search.at # "loaded" /\ search' = search /\ UNCHANGED runVars
      BY <2>11 DEF Edit, EditFile
    <3>2. verdict = "none" /\ pc \notin {"verdict", "complete"}
      BY <3>1
    <3> QED
      BY <3>1, <3>2 DEF runVars
  <2> QED
    BY <1>3, <2>2, <2>3, <2>4, <2>5, <2>6, <2>7, <2>8, <2>9, <2>10, <2>11 DEF Next, executeTestRun
<1> QED
  BY <1>2, <1>3

\* A run moves the loader only while it loads its suite.
LEMMA LoaderMoves ==
  ASSUME [Next]_vars
  PROVE  \/ loadTestSuite
         \/ \E l \in Locations : \E c \in Contents : EditFile(l, c)
         \/ UNCHANGED loaderVars
BY DEF Next, executeTestRun, MarkRunning, GateOnDevice, LoadSuite, Allocate, CreateVM, StartVM,
       WaitForAgent, LoadDriver, VerifyDevice, RunWorkflow, DecideVerdict, Complete, Teardown, Deadline,
       CancelTestRun, Edit, vars

\* The inductive invariant holds in every reachable state.
THEOREM SequenceInvariant == Spec => []SequenceInv
<1>1. SequenceInv /\ [Next]_vars => SequenceInv'
  <2> SUFFICES ASSUME SequenceInv, [Next]_vars PROVE SequenceInv'
    OBVIOUS
  <2>1. LoaderInv'
    BY LoaderMoves, LoaderStep DEF SequenceInv
  <2>2. RunTypeOK' /\ VMInStep' /\ VerdictInStep'
    BY RunTypeStep, VMStep, VerdictStep DEF SequenceInv
  <2> QED
    BY <2>1, <2>2 DEF SequenceInv
<1> QED
  BY <1>1, InitSequence, PTL DEF Spec

\* The nearest suite file wins, or the first of the fixed paths without a working directory.
THEOREM LoaderNearestSuiteWins == Spec => []NearestSuiteWins
<1>1. SequenceInv => NearestSuiteWins
  BY DEF SequenceInv, LoaderInv
<1> QED
  BY <1>1, SequenceInvariant, PTL

\* A VM announced as created or ready is announced as destroyed, unless Redis refused the
\* event or the VM did not start.
THEOREM SequenceVMEventsPair == Spec => []VMEventsPair
<1>1. SequenceInv => VMEventsPair
  BY DEF SequenceInv, VMInStep, VMEventsPair, EndAnnounced, Over, WithoutVM, Unloaded
<1> QED
  BY <1>1, SequenceInvariant, PTL

\* A verdict in the audit log is the one in the store, rests on the stored results and on a
\* test that was started, but for the exceptions the property names.
THEOREM SequenceAuditIsTruthful == Spec => []AuditIsTruthful
<1>1. SequenceInv => AuditIsTruthful
  BY DEF SequenceInv, VerdictInStep, TestStarted, AuditIsTruthful
<1> QED
  BY <1>1, SequenceInvariant, PTL

----------------------------------------------------------------------------
(* splitPath                                                               *)

\* A non-empty set of natural numbers has a least member.
LEMMA LeastNatural ==
  ASSUME NEW T, T \subseteq Nat, T # {}
  PROVE  \E i \in T : \A j \in T : i <= j
<1>1. PICK i \in T : \A j \in T : ~(<<j, i>> \in OpToRel(<, Nat))
  BY NatLessThanWellFounded, WFMin, Zenon
<1>2. \A j \in T : ~(j < i)
  BY <1>1, Zenon DEF OpToRel
<1>3. \A j \in T : i <= j
  BY <1>2
<1> QED
  BY <1>3

\* The values of the loop variables of splitPath after each of k iterations.
Loop(p, k, f) ==
  f = [i \in 0 .. k |-> IF i = 0 THEN [parts |-> << >>, start |-> 1] ELSE splitStep(p, f[i - 1], i)]

\* The loop can be run for any number of iterations: by induction on that number.
LEMMA LoopExists ==
  ASSUME NEW p, NEW k \in Nat
  PROVE  \E f : Loop(p, k, f)
<1> DEFINE Bad == {n \in Nat : ~\E f : Loop(p, n, f)}
           first == [parts |-> << >>, start |-> 1]
<1> SUFFICES ASSUME Bad # {} PROVE FALSE
  BY Zenon
<1>1. PICK n \in Bad : \A j \in Bad : n <= j
  <2>1. Bad \subseteq Nat
    OBVIOUS
  <2> HIDE DEF Bad
  <2> QED
    BY <2>1, LeastNatural
<1>2. n \in Nat /\ ~\E f : Loop(p, n, f)
  BY <1>1
<1>3. CASE n = 0
  <2> DEFINE f == [i \in 0 .. 0 |-> first]
  <2>1. f = [i \in 0 .. 0 |-> IF i = 0 THEN first ELSE splitStep(p, f[i - 1], i)]
    <3>1. \A i \in 0 .. 0 : i = 0
      OBVIOUS
    <3> QED
      BY <3>1
  <2> HIDE DEF f
  <2> QED
    BY <1>2, <1>3, <2>1 DEF Loop
<1>4. CASE n # 0
  <2>1. n - 1 \in Nat /\ ~(n <= n - 1)
    BY <1>2, <1>4
  <2>2. PICK f : Loop(p, n - 1, f)
    BY <1>1, <2>1
  <2> HIDE DEF Bad
  <2> DEFINE g == [i \in 0 .. n |-> IF i = n THEN splitStep(p, f[n - 1], n) ELSE f[i]]
             h == [i \in 0 .. n |-> IF i = 0 THEN first ELSE splitStep(p, g[i - 1], i)]
  <2>3. \A i \in 0 .. n : i = n \/ i \in 0 .. (n - 1)
    BY <1>2
  <2>4. \A i \in 0 .. (n - 1) : g[i] = f[i]
    BY <1>2
  <2>5. \A i \in 0 .. (n - 1) : f[i] = IF i = 0 THEN first ELSE splitStep(p, f[i - 1], i)
    BY <2>2 DEF Loop
  <2>6. ASSUME NEW i \in 0 .. n PROVE g[i] = h[i]
    <3>1. CASE i = n
      <4>1. n - 1 \in 0 .. (n - 1)
        BY <2>1
      <4>2. g[n - 1] = f[n - 1]
        BY <2>4, <4>1
      <4>3. g[n] = splitStep(p, f[n - 1], n)
        BY <1>2
      <4>4. h[n] = splitStep(p, g[n - 1], n)
        BY <1>2, <1>4
      <4> QED
        BY <3>1, <4>2, <4>3, <4>4
    <3>2. CASE i # n
      <4>1. i \in 0 .. (n - 1)
        BY <2>3, <3>2
      <4>2. CASE i = 0
        BY <2>4, <2>5, <4>1, <4>2
      <4>3. CASE i # 0
        <5>1. i - 1 \in 0 .. (n - 1)
          BY <1>2, <4>1, <4>3
        <5>2. g[i - 1] = f[i - 1]
          BY <2>4, <5>1
        <5>3. g[i] = splitStep(p, f[i - 1], i)
          BY <2>4, <2>5, <4>1, <4>3
        <5>4. h[i] = splitStep(p, g[i - 1], i)
          BY <4>3
        <5> QED
          BY <5>2, <5>3, <5>4
      <4> QED
        BY <4>2, <4>3
    <3> QED
      BY <3>1, <3>2
  <2>7. g = h
    BY <2>6
  <2>8. Loop(p, n, g)
    BY <2>7, Zenon DEF Loop
  <2> QED
    BY <1>2, <2>8
<1> QED
  BY <1>3, <1>4

\* splitPath returns the parts after the last iteration.
LEMMA SplitLoop ==
  ASSUME NEW p, Len(p) \in Nat
  PROVE  \E f : Loop(p, Len(p) + 1, f) /\ splitPath(p) = f[Len(p) + 1].parts
<1> DEFINE n == Len(p) + 1
           f == CHOOSE f : f = [i \in 0 .. n |-> IF i = 0 THEN [parts |-> << >>, start |-> 1]
                                                ELSE splitStep(p, f[i - 1], i)]
<1>1. n \in Nat
  OBVIOUS
<1>2. Loop(p, n, f)
  <2>1. \E g : g = [i \in 0 .. n |-> IF i = 0 THEN [parts |-> << >>, start |-> 1]
                                              ELSE splitStep(p, g[i - 1], i)]
    BY <1>1, LoopExists DEF Loop
  <2> QED
    BY <2>1, Zenon DEF Loop
<1>3. splitPath(p) = f[n].parts
  BY Zenon DEF splitPath
<1> QED
  BY <1>2, <1>3

\* The stretches that end before position i.
Closed(p, i) == {r \in Stretches(p) : r[2] < i}

\* e lists the stretches in S from left to right.
Listing(e, c, S) ==
  /\ e \in [1 .. c -> S]
  /\ \A i, j \in 1 .. c : i < j => e[i][1] < e[j][1]
  /\ \A r \in S : \E k \in 1 .. c : e[k] = r

\* parts holds the text of the stretches in S, from left to right.
Texts(p, parts, S) ==
  \E c \in Nat : \E e : /\ Listing(e, c, S)
                        /\ parts = [k \in 1 .. c |-> SubSeq(p, e[k][1], e[k][2])]

\* start is where the stretch that may be open after i characters begins.
Open(p, start, i) ==
  /\ start \in 1 .. i + 1
  /\ i <= Len(p) => /\ \A k \in start .. i : p[k] # "/"
                    /\ start = 1 \/ p[start - 1] = "/"

\* The loop after i iterations: it has collected the stretches that have ended.
LoopInv(p, acc, i) == Texts(p, acc.parts, Closed(p, i)) /\ Open(p, acc.start, i)

\* What it means to be a stretch.
LEMMA StretchOf ==
  ASSUME NEW p, Len(p) \in Nat, NEW a, NEW b
  PROVE  <<a, b>> \in Stretches(p) <=>
           /\ a \in 1 .. Len(p) /\ b \in 1 .. Len(p) /\ a <= b
           /\ \A k \in a .. b : p[k] # "/"
           /\ a = 1 \/ p[a - 1] = "/"
           /\ b = Len(p) \/ p[b + 1] = "/"
BY DEF Stretches

\* A stretch is a pair.
LEMMA StretchIsPair ==
  ASSUME NEW p, NEW r \in Stretches(p)
  PROVE  r = <<r[1], r[2]>>
BY DEF Stretches

\* A character of a segment, and a slash before the end: nothing ends here.
LEMMA NothingEnds ==
  ASSUME NEW p, Len(p) \in Nat, NEW i \in 1 .. Len(p) + 1,
         \A r \in Stretches(p) : r[2] # i - 1
  PROVE  Closed(p, i) = Closed(p, i - 1)
<1>1. ASSUME NEW r \in Stretches(p) PROVE r[2] < i <=> r[2] < i - 1
  <2>1. r[2] \in Nat /\ r[2] # i - 1 /\ i \in Nat
    BY DEF Stretches
  <2> QED
    BY <2>1
<1> QED
  BY <1>1 DEF Closed

\* One iteration keeps the loop invariant.
LEMMA LoopStep ==
  ASSUME NEW p, Len(p) \in Nat, NEW i \in 1 .. Len(p) + 1, NEW acc, LoopInv(p, acc, i - 1)
  PROVE  LoopInv(p, splitStep(p, acc, i), i)
<1> DEFINE L == Len(p)
           start == acc.start
           new == splitStep(p, acc, i)
<1>1. /\ start \in 1 .. i /\ i \in Nat /\ i - 1 <= L /\ i - 1 \in Nat /\ start \in Nat
      /\ \A k \in start .. (i - 1) : p[k] # "/"
      /\ start = 1 \/ p[start - 1] = "/"
  BY DEF LoopInv, Open
<1>2. PICK c \in Nat : \E e : /\ Listing(e, c, Closed(p, i - 1))
                              /\ acc.parts = [k \in 1 .. c |-> SubSeq(p, e[k][1], e[k][2])]
  BY DEF LoopInv, Texts
<1>3. PICK e : /\ Listing(e, c, Closed(p, i - 1))
               /\ acc.parts = [k \in 1 .. c |-> SubSeq(p, e[k][1], e[k][2])]
  BY <1>2
<1>4. CASE i <= L /\ p[i] # "/"
  <2>1. new = acc
    BY <1>4 DEF splitStep
  <2>2. \A r \in Stretches(p) : r[2] # i - 1
    <3> SUFFICES ASSUME NEW r \in Stretches(p), r[2] = i - 1 PROVE FALSE
      OBVIOUS
    <3>1. i - 1 = L \/ p[(i - 1) + 1] = "/"
      BY DEF Stretches
    <3> QED
      BY <1>1, <1>4, <3>1
  <2>3. Closed(p, i) = Closed(p, i - 1)
    BY <2>2, NothingEnds
  <2>4. \A k \in start .. i : p[k] # "/"
    <3>1. \A k \in start .. i : k = i \/ k \in start .. (i - 1)
      BY <1>1
    <3> QED
      BY <1>1, <1>4, <3>1
  <2>5. start \in 1 .. i + 1
    BY <1>1
  <2>6. Open(p, start, i)
    BY <1>1, <2>4, <2>5 DEF Open
  <2> QED
    BY <2>1, <2>3, <2>6 DEF LoopInv
<1>5. CASE ~(i <= L /\ p[i] # "/")
  <2>1. /\ new.parts = IF i > start THEN Append(acc.parts, SubSeq(p, start, i - 1)) ELSE acc.parts
        /\ new.start = i + 1
    BY <1>5 DEF splitStep
  <2>2. i = L + 1 \/ (i <= L /\ p[i] = "/")
    BY <1>1, <1>5
  <2>3. Open(p, new.start, i)
    <3>1. i + 1 \in 1 .. i + 1 /\ \A k \in (i + 1) .. i : FALSE
      BY <1>1
    <3>2. (i + 1) - 1 = i
      BY <1>1
    <3>3. i <= L => p[i] = "/"
      BY <1>1, <2>2
    <3> QED
      BY <2>1, <3>1, <3>2, <3>3 DEF Open
  <2> HIDE DEF new
  <2>4. CASE ~(i > start)
    <3>1. start = i
      BY <1>1, <2>4
    <3>2. \A r \in Stretches(p) : r[2] # i - 1
      <4> SUFFICES ASSUME NEW r \in Stretches(p), r[2] = i - 1 PROVE FALSE
        OBVIOUS
      <4>1. r[1] \in 1 .. L /\ r[1] <= i - 1 /\ \A k \in r[1] .. (i - 1) : p[k] # "/"
        BY DEF Stretches
      <4>2. i # 1 /\ p[i - 1] # "/"
        BY <1>1, <4>1
      <4> QED
        BY <1>1, <3>1, <4>2
    <3>3. Closed(p, i) = Closed(p, i - 1)
      BY <3>2, NothingEnds
    <3>4. new.parts = acc.parts
      BY <2>1, <2>4
    <3>5. Texts(p, new.parts, Closed(p, i))
      BY <3>3, <3>4 DEF LoopInv
    <3> QED
      BY <2>3, <3>5 DEF LoopInv, new
  <2>5. CASE i > start
    <3> DEFINE seg == <<start, i - 1>>
    <3>1. seg \in Stretches(p)
      <4>1. i - 1 = L \/ p[(i - 1) + 1] = "/"
        BY <1>1, <2>2
      <4>2. start \in 1 .. L /\ i - 1 \in 1 .. L /\ start <= i - 1
        BY <1>1, <2>5
      <4> QED
        BY <1>1, <4>1, <4>2, StretchOf
    <3>2. ASSUME NEW r \in Stretches(p), r[2] = i - 1 PROVE r = seg
      <4>1. /\ r[1] \in 1 .. L /\ r[1] <= i - 1 /\ \A k \in r[1] .. (i - 1) : p[k] # "/"
            /\ r[1] = 1 \/ p[r[1] - 1] = "/"
        BY <3>2 DEF Stretches
      <4>2. CASE r[1] < start
        <5>1. start # 1 /\ start - 1 \in r[1] .. (i - 1)
          BY <1>1, <4>1, <4>2
        <5> QED
          BY <1>1, <4>1, <5>1
      <4>3. CASE start < r[1]
        <5>1. r[1] # 1 /\ r[1] - 1 \in start .. (i - 1)
          BY <1>1, <4>1, <4>3
        <5> QED
          BY <1>1, <4>1, <5>1
      <4>4. CASE r[1] = start
        BY <3>2, <4>4, StretchIsPair
      <4> QED
        BY <1>1, <4>1, <4>2, <4>3, <4>4
    <3>3. Closed(p, i) = Closed(p, i - 1) \cup {seg}
      <4>1. ASSUME NEW r \in Stretches(p) PROVE r[2] < i <=> (r[2] < i - 1 \/ r = seg)
        <5>1. r[2] \in Nat
          BY DEF Stretches
        <5>2. r = seg => r[2] = i - 1
          OBVIOUS
        <5> QED
          BY <1>1, <3>2, <5>1, <5>2
      <4> QED
        BY <3>1, <4>1 DEF Closed
    <3> DEFINE e2 == [k \in 1 .. c + 1 |-> IF k = c + 1 THEN seg ELSE e[k]]
    <3>4. \A k \in 1 .. c + 1 : k = c + 1 \/ k \in 1 .. c
      BY <1>2
    <3>5. /\ \A k \in 1 .. c : e2[k] = e[k] /\ e[k] \in Closed(p, i - 1)
          /\ e2[c + 1] = seg
      BY <1>2, <1>3 DEF Listing
    <3>6. ASSUME NEW k \in 1 .. c PROVE e[k][1] < start
      <4>1. e[k] \in Stretches(p) /\ e[k][2] < i - 1
        BY <3>5 DEF Closed
      <4>2. /\ e[k][1] \in Nat /\ e[k][2] \in Nat /\ e[k][1] <= e[k][2]
            /\ e[k][2] = L \/ p[e[k][2] + 1] = "/"
        BY <4>1 DEF Stretches
      <4>3. p[e[k][2] + 1] = "/" /\ e[k][2] + 1 <= i - 1
        BY <1>1, <4>1, <4>2
      <4>4. ~(start <= e[k][2] + 1)
        <5> SUFFICES ASSUME start <= e[k][2] + 1 PROVE FALSE
          OBVIOUS
        <5>1. e[k][2] + 1 \in start .. (i - 1)
          BY <1>1, <4>2, <4>3
        <5> QED
          BY <1>1, <4>3, <5>1
      <4> QED
        BY <1>1, <4>2, <4>4
    <3> HIDE DEF e2
    <3>7. e2 \in [1 .. c + 1 -> Closed(p, i)]
      <4>1. \A k \in 1 .. c + 1 : e2[k] \in Closed(p, i)
        BY <3>3, <3>4, <3>5
      <4> QED
        BY <4>1 DEF e2
    <3>8. ASSUME NEW k \in 1 .. c + 1, NEW j \in 1 .. c + 1, k < j PROVE e2[k][1] < e2[j][1]
      <4>1. k \in 1 .. c
        BY <1>2, <3>4, <3>8
      <4>2. CASE j = c + 1
        <5>1. e2[k][1] = e[k][1] /\ e2[j][1] = start
          BY <3>5, <4>1, <4>2
        <5> QED
          BY <3>6, <4>1, <5>1
      <4>3. CASE j \in 1 .. c
        BY <1>3, <3>5, <3>8, <4>1, <4>3 DEF Listing
      <4> QED
        BY <3>4, <4>2, <4>3
    <3>9. ASSUME NEW r \in Closed(p, i) PROVE \E k \in 1 .. c + 1 : e2[k] = r
      <4>1. CASE r = seg
        <5>1. c + 1 \in 1 .. c + 1
          BY <1>2
        <5> QED
          BY <3>5, <4>1, <5>1
      <4>2. CASE r \in Closed(p, i - 1)
        <5>1. PICK k \in 1 .. c : e[k] = r
          BY <1>3, <4>2 DEF Listing
        <5>2. k \in 1 .. c + 1
          BY <1>2, <5>1
        <5> QED
          BY <3>5, <5>1, <5>2
      <4> QED
        BY <3>3, <4>1, <4>2
    <3>10. Listing(e2, c + 1, Closed(p, i))
      BY <3>7, <3>8, <3>9 DEF Listing
    <3>11. new.parts = [k \in 1 .. c + 1 |-> SubSeq(p, e2[k][1], e2[k][2])]
      <4> DEFINE s == acc.parts
                 x == SubSeq(p, start, i - 1)
                 V == {SubSeq(p, e[k][1], e[k][2]) : k \in 1 .. c} \cup {x}
      <4>1. s = [k \in 1 .. c |-> SubSeq(p, e[k][1], e[k][2])]
        BY <1>3
      <4>2. s \in [1 .. c -> V] /\ x \in V
        BY <4>1
      <4> HIDE DEF V, x
      <4>3. s \in Seq(V) /\ Len(s) = c
        BY <1>2, <4>2
      <4> HIDE DEF s
      <4>4. /\ Append(s, x) \in Seq(V) /\ Len(Append(s, x)) = c + 1
            /\ \A k \in 1 .. c : Append(s, x)[k] = s[k]
            /\ Append(s, x)[c + 1] = x
        BY <4>2, <4>3, AppendProperties
      <4>5. new.parts = Append(s, x)
        BY <2>1, <2>5 DEF s, x
      <4>6. Append(s, x) = [k \in 1 .. c + 1 |-> Append(s, x)[k]]
        BY <4>4, LenProperties
      <4>7. ASSUME NEW k \in 1 .. c + 1 PROVE Append(s, x)[k] = SubSeq(p, e2[k][1], e2[k][2])
        <5>1. CASE k = c + 1
          <6>1. e2[k][1] = start /\ e2[k][2] = i - 1
            BY <3>5, <5>1
          <6>2. Append(s, x)[k] = x
            BY <4>4, <5>1
          <6> QED
            BY <6>1, <6>2 DEF x
        <5>2. CASE k \in 1 .. c
          <6>1. s[k] = SubSeq(p, e[k][1], e[k][2])
            BY <4>1, <5>2
          <6> QED
            BY <3>5, <4>4, <5>2, <6>1
        <5> QED
          BY <3>4, <5>1, <5>2
      <4> QED
        BY <4>5, <4>6, <4>7
    <3>12. c + 1 \in Nat
      BY <1>2
    <3>13. Texts(p, new.parts, Closed(p, i))
      BY <3>10, <3>11, <3>12 DEF Texts
    <3> QED
      BY <2>3, <3>13 DEF LoopInv, new
  <2> QED
    BY <2>4, <2>5 DEF new
<1> QED
  BY <1>4, <1>5

\* The loop invariant holds after every iteration.
LEMMA LoopAlways ==
  ASSUME NEW p, Len(p) \in Nat, NEW f, Loop(p, Len(p) + 1, f), NEW m \in 0 .. Len(p) + 1
  PROVE  LoopInv(p, f[m], m)
<1> DEFINE Bad == {i \in 0 .. Len(p) + 1 : ~LoopInv(p, f[i], i)}
           first == [parts |-> << >>, start |-> 1]
<1> SUFFICES ASSUME Bad # {} PROVE FALSE
  BY Zenon
<1>1. PICK n \in Bad : \A j \in Bad : n <= j
  <2>1. Bad \subseteq Nat
    OBVIOUS
  <2> HIDE DEF Bad
  <2> QED
    BY <2>1, LeastNatural
<1>2. n \in 0 .. Len(p) + 1 /\ ~LoopInv(p, f[n], n)
  BY <1>1
<1>3. \A i \in 0 .. Len(p) + 1 : f[i] = IF i = 0 THEN first ELSE splitStep(p, f[i - 1], i)
  BY DEF Loop
<1>4. CASE n = 0
  <2>1. f[0] = first
    BY <1>2, <1>3, <1>4
  <2>2. Closed(p, 0) = {}
    BY DEF Closed, Stretches
  <2>3. Texts(p, << >>, {})
    <3> DEFINE e == [k \in 1 .. 0 |-> << >>]
    <3>1. Listing(e, 0, {})
      BY DEF Listing
    <3>2. << >> = [k \in 1 .. 0 |-> SubSeq(p, e[k][1], e[k][2])]
      OBVIOUS
    <3> HIDE DEF e
    <3> QED
      BY <3>1, <3>2 DEF Texts
  <2>4. Open(p, 1, 0)
    BY DEF Open
  <2>5. f[0].parts = << >> /\ f[0].start = 1
    BY <2>1
  <2> QED
    BY <1>2, <1>4, <2>2, <2>3, <2>4, <2>5 DEF LoopInv
<1>5. CASE n # 0
  <2>1. n - 1 \in 0 .. Len(p) + 1 /\ ~(n <= n - 1) /\ n \in 1 .. Len(p) + 1
    BY <1>2, <1>5
  <2>2. LoopInv(p, f[n - 1], n - 1)
    BY <1>1, <2>1
  <2>3. f[n] = splitStep(p, f[n - 1], n)
    BY <1>2, <1>3, <1>5
  <2> HIDE DEF Bad
  <2> QED
    BY <1>2, <2>1, <2>2, <2>3, LoopStep
<1> QED
  BY <1>4, <1>5

\* There is one way to list stretches from left to right.
LEMMA OneListing ==
  ASSUME NEW S, \A r \in S : r[1] \in Nat, NEW c \in Nat,
         NEW e, Listing(e, c, S), NEW q, Listing(q, c, S)
  PROVE  e = q
<1> DEFINE Bad == {k \in 1 .. c : e[k] # q[k]}
<1>1. e \in [1 .. c -> S] /\ q \in [1 .. c -> S]
  BY DEF Listing
<1> SUFFICES ASSUME Bad # {} PROVE FALSE
  BY <1>1
<1>2. PICK k \in Bad : \A j \in Bad : k <= j
  <2>1. Bad \subseteq Nat
    OBVIOUS
  <2> HIDE DEF Bad
  <2> QED
    BY <2>1, LeastNatural
<1>3. k \in 1 .. c /\ e[k] # q[k] /\ \A j \in 1 .. c : j < k => e[j] = q[j]
  BY <1>2
<1>4. \A j \in 1 .. c : e[j][1] \in Nat /\ q[j][1] \in Nat
  BY <1>1
<1>5. ASSUME NEW u, NEW v, Listing(u, c, S), Listing(v, c, S), u[k] # v[k],
             \A j \in 1 .. c : j < k => u[j] = v[j],
             \A j \in 1 .. c : u[j][1] \in Nat /\ v[j][1] \in Nat
      PROVE  v[k][1] < u[k][1]
  <2>1. PICK a \in 1 .. c : v[a] = u[k]
    BY <1>3, <1>5 DEF Listing
  <2>2. ~(a < k)
    <3> SUFFICES ASSUME a < k PROVE FALSE
      OBVIOUS
    <3>1. u[a] = u[k] /\ u[a][1] < u[k][1]
      BY <1>3, <1>5, <2>1 DEF Listing
    <3> QED
      BY <1>3, <1>5, <3>1
  <2>3. a # k
    BY <1>5, <2>1
  <2>4. k < a
    BY <1>3, <2>1, <2>2, <2>3
  <2> QED
    BY <1>3, <1>5, <2>1, <2>4 DEF Listing
<1>6. q[k][1] < e[k][1]
  BY <1>3, <1>4, <1>5
<1>7. e[k][1] < q[k][1]
  BY <1>3, <1>4, <1>5
<1> QED
  BY <1>3, <1>4, <1>6, <1>7

\* A list of all stretches from left to right is what Segments chooses.
LEMMA SegmentsListed ==
  ASSUME NEW p, Len(p) \in Nat, NEW c \in Nat, NEW e, Listing(e, c, Stretches(p))
  PROVE  Segments(p) = [k \in 1 .. c |-> SubSeq(p, e[k][1], e[k][2])]
<1> DEFINE S == Stretches(p)
           Rises(q) == \A i, j \in DOMAIN q : i < j => q[i][1] < q[j][1]
           ordered == CHOOSE q \in [1 .. Cardinality(S) -> S] : Rises(q)
<1>1. \A r \in S : r[1] \in Nat
  BY DEF Stretches
<1>2. /\ e \in [1 .. c -> S] /\ Rises(e)
      /\ \A r \in S : \E k \in 1 .. c : e[k] = r
  BY DEF Listing
<1>3. ASSUME NEW q \in [1 .. c -> S], Rises(q) PROVE q \in Injection(1 .. c, S)
  <2>1. ASSUME NEW i \in 1 .. c, NEW j \in 1 .. c, q[i] = q[j] PROVE i = j
    <3>1. q[i][1] \in Nat
      BY <1>1
    <3>2. ~(i < j) /\ ~(j < i)
      BY <1>3, <2>1, <3>1
    <3> QED
      BY <3>2
  <2> HIDE DEF S, Rises
  <2> QED
    BY <2>1 DEF Injection, IsInjective
<1>4. IsFiniteSet(1 .. c) /\ Cardinality(1 .. c) = c
  BY FS_Interval
<1> HIDE DEF S
<1>5. IsFiniteSet(S) /\ Cardinality(S) = c
  <2>1. e \in Surjection(1 .. c, S)
    BY <1>2 DEF Surjection
  <2>2. e \in Bijection(1 .. c, S)
    BY <1>2, <1>3, <2>1 DEF Bijection
  <2>3. ExistsBijection(1 .. c, S)
    BY <2>2 DEF ExistsBijection
  <2> QED
    BY <1>4, <2>3, FS_Bijection
<1>6. ordered \in [1 .. c -> S] /\ Rises(ordered)
  <2> HIDE DEF Rises
  <2> QED
    BY <1>2, <1>5
<1>7. Segments(p) = [n \in DOMAIN ordered |-> SubSeq(p, ordered[n][1], ordered[n][2])]
  BY DEF Segments, S
<1> HIDE DEF ordered
<1>8. ordered \in Surjection(1 .. c, S)
  <2>1. ordered \in Injection(1 .. c, S)
    BY <1>3, <1>6
  <2> HIDE DEF Rises
  <2> QED
    BY <1>4, <1>5, <2>1, FS_Injection
<1>9. Listing(ordered, c, S)
  <2>1. \A r \in S : \E k \in 1 .. c : ordered[k] = r
    BY <1>8 DEF Surjection
  <2> QED
    BY <1>6, <2>1 DEF Listing
<1>10. Listing(e, c, S)
  BY DEF S
<1>11. ordered = e
  BY <1>1, <1>9, <1>10, OneListing
<1>12. DOMAIN ordered = 1 .. c
  BY <1>6
<1> QED
  BY <1>7, <1>11, <1>12

\* splitPath returns the segments of any text, and none only if the text is all slashes.
LEMMA SplitIsExact ==
  ASSUME NEW p, Len(p) \in Nat
  PROVE  /\ splitPath(p) = Segments(p)
         /\ splitPath(p) = << >> => \A k \in 1 .. Len(p) : p[k] = "/"
<1> DEFINE L == Len(p)
<1>1. PICK f : Loop(p, L + 1, f) /\ splitPath(p) = f[L + 1].parts
  BY SplitLoop
<1>2. \A i \in 0 .. L + 1 : LoopInv(p, f[i], i)
  BY <1>1, LoopAlways
<1>3. Closed(p, L + 1) = Stretches(p)
  <2>1. \A r \in Stretches(p) : r[2] < L + 1
    BY DEF Stretches
  <2> QED
    BY <2>1 DEF Closed
<1>4. Texts(p, splitPath(p), Stretches(p))
  <2>1. L + 1 \in 0 .. L + 1
    OBVIOUS
  <2>2. LoopInv(p, f[L + 1], L + 1)
    BY <1>2, <2>1
  <2> QED
    BY <1>1, <1>3, <2>2 DEF LoopInv
<1>5. PICK c \in Nat : \E e : /\ Listing(e, c, Stretches(p))
                              /\ splitPath(p) = [k \in 1 .. c |-> SubSeq(p, e[k][1], e[k][2])]
  BY <1>4 DEF Texts
<1>6. PICK e : /\ Listing(e, c, Stretches(p))
               /\ splitPath(p) = [k \in 1 .. c |-> SubSeq(p, e[k][1], e[k][2])]
  BY <1>5
<1>7. splitPath(p) = Segments(p)
  BY <1>5, <1>6, SegmentsListed
<1>8. ASSUME splitPath(p) = << >> PROVE Stretches(p) = {}
  <2>1. DOMAIN [k \in 1 .. c |-> SubSeq(p, e[k][1], e[k][2])] = {}
    <3>1. DOMAIN << >> = {}
      OBVIOUS
    <3> QED
      BY <1>6, <1>8, <3>1, Zenon
  <2>2. 1 .. c = {}
    BY <2>1
  <2> QED
    BY <1>6, <2>2 DEF Listing
<1>9. ASSUME NEW m \in 1 .. L, p[m] # "/" PROVE Stretches(p) # {}
  <2> DEFINE Ends == {j \in m + 1 .. L + 1 : j = L + 1 \/ p[j] = "/"}
  <2>1. Ends \subseteq Nat /\ L + 1 \in Ends
    OBVIOUS
  <2>2. PICK n \in Ends : \A j \in Ends : n <= j
    <3> HIDE DEF Ends
    <3> QED
      BY <2>1, LeastNatural
  <2>3. n \in m + 1 .. L + 1 /\ (n = L + 1 \/ p[n] = "/")
    BY <2>2
  <2>4. p[n - 1] # "/"
    <3>1. CASE n - 1 = m
      BY <1>9, <3>1
    <3>2. CASE n - 1 # m
      <4>1. n - 1 \in m + 1 .. L + 1 /\ ~(n <= n - 1)
        BY <2>3, <3>2
      <4> QED
        BY <2>2, <4>1
    <3> QED
      BY <3>1, <3>2
  <2> HIDE DEF Ends
  <2> DEFINE a == f[n - 1].start
  <2>5. n - 1 \in 0 .. L + 1 /\ n - 1 <= L /\ n - 1 \in 1 .. L
    BY <2>3
  <2>6. Open(p, a, n - 1)
    BY <1>2, <2>5 DEF LoopInv
  <2> HIDE DEF a
  <2>7. /\ a \in 1 .. (n - 1) + 1
        /\ \A k \in a .. (n - 1) : p[k] # "/"
        /\ a = 1 \/ p[a - 1] = "/"
    BY <2>5, <2>6 DEF Open
  <2>8. a # n
    <3> SUFFICES ASSUME a = n PROVE FALSE
      OBVIOUS
    <3>1. n # 1
      BY <2>3
    <3> QED
      BY <2>4, <2>7, <3>1
  <2>9. a \in 1 .. L /\ a <= n - 1
    BY <2>3, <2>7, <2>8
  <2>10. n - 1 = L \/ p[(n - 1) + 1] = "/"
    BY <2>3
  <2>11. <<a, n - 1>> \in Stretches(p)
    BY <2>5, <2>7, <2>9, <2>10, StretchOf
  <2> QED
    BY <2>11
<1> QED
  BY <1>7, <1>8, <1>9

\* The path is a text and stays what it is; if loading it panics, it is all slashes.
PathInv ==
  /\ Len(path) \in Nat /\ DOMAIN path = 1 .. Len(path)
  /\ search.at = "panic" => isVishwaSuite /\ splitPath(path) = << >>

\* The loader keeps PathInv.
LEMMA PathStep == LoaderInv /\ PathInv /\ [Next]_vars => PathInv'
<1> SUFFICES ASSUME LoaderInv, PathInv, [Next]_vars PROVE PathInv'
  OBVIOUS
<1>1. path' = path
  BY LoaderMoves DEF loadTestSuite, LoadSuiteBegins, LoadVishwa, Climb, ReadFound, Fallback, EditFile, loaderVars
<1>2. search' = search \/ search'.at # "panic" \/ (search.at = "vishwa" /\ splitPath(path) = << >>)
  <2>1. /\ \A at : [search EXCEPT !.at = at].at = at
        /\ \A pos : [search EXCEPT !.pos = pos].at = search.at
        /\ \A at, pos : [search EXCEPT !.at = at, !.pos = pos].at = at
    BY DEF LoaderInv, LoaderTypeOK
  <2>2. CASE LoadSuiteBegins
    <3>1. \/ search' = [search EXCEPT !.at = "vishwa"]
          \/ search' = [search EXCEPT !.at = "climb"]
          \/ search' = [at |-> "fallback", pos |-> 1, cwd |-> FALSE]
      BY <2>2 DEF LoadSuiteBegins
    <3>2. [at |-> "fallback", pos |-> 1, cwd |-> FALSE].at = "fallback"
      OBVIOUS
    <3>3. search'.at \in {"vishwa", "climb", "fallback"}
      BY <2>1, <3>1, <3>2, Zenon
    <3> QED
      BY <3>3
  <2>3. CASE LoadVishwa
    BY <2>1, <2>3 DEF LoadVishwa
  <2>4. CASE Climb
    <3>1. search.at = "climb"
      BY <2>4 DEF Climb
    <3>2. \/ search' = [search EXCEPT !.at = "read"]
          \/ search' = [search EXCEPT !.at = "fallback", !.pos = 1]
          \/ search' = [search EXCEPT !.pos = @ + 1]
      BY <2>4 DEF Climb
    <3> QED
      BY <2>1, <3>1, <3>2
  <2>5. ASSUME NEW l, Parse(l) PROVE search'.at # "panic"
    BY <2>1, <2>5 DEF Parse
  <2>6. CASE ReadFound
    BY <2>5, <2>6 DEF ReadFound
  <2>7. CASE Fallback
    <3>1. search.at = "fallback"
      BY <2>7 DEF Fallback
    <3>2. search' = [search EXCEPT !.pos = @ + 1] \/ Parse(FallbackPaths[search.pos])
      BY <2>7 DEF Fallback
    <3>3. CASE search' = [search EXCEPT !.pos = @ + 1]
      BY <2>1, <3>1, <3>3
    <3> QED
      BY <2>5, <3>2, <3>3
  <2> QED
    BY <2>2, <2>3, <2>4, <2>6, <2>7, LoaderMoves DEF loadTestSuite, EditFile, loaderVars
<1>3. search.at = "vishwa" => isVishwaSuite
  BY DEF LoaderInv, LoaderTypeOK
<1>4. isVishwaSuite' = isVishwaSuite /\ splitPath(path)' = splitPath(path)
  BY <1>1 DEF isVishwaSuite
<1> QED
  BY <1>1, <1>2, <1>3, <1>4 DEF PathInv

\* Whatever the suite ID is, splitPath yields exactly its segments, and the indexing of the
\* last one panics only for an ID that is all slashes.
THEOREM LoaderSplitPathIsExact == Spec => []SplitPathIsExact
<1>1. Init => PathInv
  <2> SUFFICES ASSUME Init PROVE PathInv
    OBVIOUS
  <2>1. PICK k \in 0 .. MaxPath : path \in [1 .. k -> {"/", "a", "b"}]
    BY DEF Init, LoaderInit
  <2>2. k \in Nat
    BY <2>1, LoaderAssumptions
  <2>3. Len(path) = k /\ DOMAIN path = 1 .. k
    BY <2>1, <2>2
  <2>4. search.at = "idle"
    BY DEF Init, LoaderInit
  <2> QED
    BY <2>2, <2>3, <2>4 DEF PathInv
<1>2. PathInv => SplitPathIsExact
  <2> SUFFICES ASSUME PathInv PROVE SplitPathIsExact
    OBVIOUS
  <2>1. /\ splitPath(path) = Segments(path)
        /\ splitPath(path) = << >> => \A i \in DOMAIN path : path[i] = "/"
    BY SplitIsExact DEF PathInv
  <2> QED
    BY <2>1 DEF PathInv, SplitPathIsExact
<1>3. SequenceInv /\ PathInv /\ [Next]_vars => PathInv'
  BY PathStep DEF SequenceInv
<1> QED
  BY <1>1, <1>2, <1>3, SequenceInvariant, PTL DEF Spec
=============================================================================
