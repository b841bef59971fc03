------------------------------- MODULE Stores -------------------------------
(***************************************************************************)
(* The two implementations of storage.Store, MemoryStore (memory.go) and   *)
(* PostgresStore (postgres.go), given the same calls: those the API, the   *)
(* engine and the VM manager make.  The read operations and the API        *)
(* handlers over them (api/grpc_server.go) are operators on the tables.    *)
(*                                                                         *)
(* A run or a VM is named by its place in the order of creation, for which *)
(* both stores have identifiers of their own (a counter under the lock,    *)
(* gen_random_uuid, the VM manager's counter).  Times are values of a      *)
(* clock that moves on whenever it is read.  The calls are those made      *)
(* while the context of the run lives and the database answers: otherwise  *)
(* Postgres alone refuses them.  Columns no operation reads back are left  *)
(* out.                                                                    *)
(***************************************************************************)
EXTENDS Naturals, Sequences, FiniteSets

CONSTANTS
  Devices,    \* IDs in the device registry
  MaxRuns,    \* bound on the test runs that are created
  MaxVMs,     \* bound on the VMs that are created
  MaxResults, \* bound on the results of one run
  MaxClock    \* bound on the clock

ASSUME StoresAssumptions ==
  IsFiniteSet(Devices) /\ MaxRuns \in Nat /\ MaxVMs \in Nat /\ MaxResults \in Nat /\ MaxClock \in Nat

VARIABLES
  mem,    \* the maps of MemoryStore: runs, results per run, vms, as sequences
  pg,     \* the tables of PostgresStore, likewise
  clock,
  owner,  \* per run: "queued", "executing" or "done"
  saving  \* per run: the results that its step goroutines are about to save

vars == <<mem, pg, clock, owner, saving>>

StatusNames == <<"PENDING", "QUEUED", "RUNNING", "PASSED", "FAILED", "ERRORED", "CANCELLED",
                 "TIMEOUT">>
VMStatusNames == <<"CREATING", "BOOTING", "READY", "RUNNING_TEST", "STOPPING", "STOPPED", "ERROR",
                   "DESTROYED">>
Final == {"PASSED", "FAILED", "ERRORED", "CANCELLED", "TIMEOUT"}

Statuses == {StatusNames[i] : i \in 1..Len(StatusNames)}
VMStatuses == {VMStatusNames[i] : i \in 1..Len(VMStatusNames)}

\* A text column without a value; a time without a value.
NULL == "NULL"
nil == 0

\* The messages that go with a status: the engine gives a reason for everything but
\* RUNNING and the verdict.
Messages == [RUNNING |-> "", PASSED |-> "", FAILED |-> "", PENDING |-> "waiting for resources",
             ERRORED |-> "what failed", CANCELLED |-> "cancelled"]

NewMemoryStore == [runs |-> << >>, results |-> << >>, vms |-> << >>]

\* The tables of a new database.
ensureSchema == [runs |-> << >>, results |-> << >>, vms |-> << >>]

Init ==
  /\ mem = NewMemoryStore
  /\ pg = ensureSchema
  /\ clock = 1
  /\ owner = << >>
  /\ saving = << >>

----------------------------------------------------------------------------
(* Durations                                                               *)

\* A millisecond on the clock: odd, so that no time is half way between two.
UnitsPerMs == 3

\* Duration.Milliseconds drops the fraction, and the cast of EXTRACT(EPOCH ...) * 1000 to
\* BIGINT takes the nearest integer.
Milliseconds(d) == d \div UnitsPerMs
NearestMilliseconds(d) == (2 * d + UnitsPerMs) \div (2 * UnitsPerMs)

----------------------------------------------------------------------------
(* MemoryStore                                                             *)

MemCreateTestRun(device) ==
  [mem EXCEPT !.runs = Append(@, [device |-> device, status |-> "PENDING", created |-> clock,
                                  started |-> nil, completed |-> nil, duration |-> 0, msg |-> ""]),
              !.results = Append(@, << >>)]

\* Mutant: the time of the start is not recorded.
MemUpdateUnstarted(run, s, msg) ==
  [run EXCEPT !.status = s,
              !.msg = IF msg # "" THEN msg ELSE @,
              !.completed = IF s \in Final THEN clock ELSE @]

\* UpdateTestRunStatus: an empty message leaves the old one; a run that never started has
\* no duration.
MemUpdate(run, s, msg) ==
  [run EXCEPT !.status = s,
              !.msg = IF msg # "" THEN msg ELSE @,
              !.started = IF s = "RUNNING" THEN clock ELSE @,
              !.completed = IF s \in Final THEN clock ELSE @,
              !.duration = IF s \in Final /\ run.started # nil THEN Milliseconds(clock - run.started)
                                                                 ELSE @]

MemSaveTestResult(i, x) == [mem EXCEPT !.results[i] = Append(@, x)]

MemSaveVM(device) ==
  [mem EXCEPT !.vms = Append(@, [device |-> device, status |-> "CREATING", created |-> clock])]

MemUpdateVMStatus(v, s) == [mem EXCEPT !.vms[v].status = s]

\* Reads return copies.
MemGetTestRun(i) == mem.runs[i]
MemGetTestResults(i) == mem.results[i]
MemGetVM(v) == mem.vms[v]

\* The rows a loop over the map selects; "" filters nothing.
MemMatching(rows, device, status) ==
  {i \in 1..Len(rows) : ~(device # "" /\ rows[i].device # device) /\ ~(status # "" /\ rows[i].status # status)}

From(seq, offset) == SubSeq(seq, offset + 1, Len(seq))
Upto(seq, limit) == SubSeq(seq, 1, IF limit < Len(seq) THEN limit ELSE Len(seq))

\* The page of a list in whatever order the map yields it.  An offset past the end is
\* ignored.
MemPage(seq, limit, offset) ==
  Upto(IF offset < Len(seq) THEN From(seq, offset) ELSE seq, limit)

MemListVMs(device, status) == MemMatching(mem.vms, device, status)
MemListRunningTestRuns == {i \in 1..Len(mem.runs) : mem.runs[i].status \in {"RUNNING", "QUEUED", "PENDING"}}
MemListOrphanedVMs == {v \in 1..Len(mem.vms) : mem.vms[v].status \in {"CREATING", "BOOTING", "RUNNING_TEST"}}

----------------------------------------------------------------------------
(* PostgresStore                                                           *)

nullableStr(s) == IF s = "" THEN NULL ELSE s
coalesceText(x, y) == IF x = NULL THEN y ELSE x
coalesceTime(x, y) == IF x = nil THEN y ELSE x

PgCreateTestRun(device) ==
  [pg EXCEPT !.runs = Append(@, [device |-> device, status |-> "PENDING", created |-> clock,
                                 started |-> nil, completed |-> nil, duration |-> 0,
                                 msg |-> nullableStr("")]),
             !.results = Append(@, {})]

\* UpdateTestRunStatus: the message is always replaced, and the duration counts from the
\* start or from the creation.
PgUpdate(row, s, msg) ==
  [row EXCEPT !.status = s,
              !.msg = nullableStr(msg),
              !.started = IF s = "RUNNING" THEN clock ELSE @,
              !.completed = IF s \in Final THEN clock ELSE @,
              !.duration = IF s \in Final
                             THEN NearestMilliseconds(clock - coalesceTime(row.started, row.created))
                             ELSE @]

\* GetTestRun: what Scan makes of a row.
PgGetTestRun(i) == [pg.runs[i] EXCEPT !.msg = coalesceText(@, "")]

\* The foreign key refuses results of a run that does not exist.
PgSaveTestResult(i, x) ==
  IF i \in 1..Len(pg.runs) THEN [pg EXCEPT !.results[i] = @ \cup {x}] ELSE pg

\* The row is new: ON CONFLICT has nothing to update.
PgSaveVM(device) ==
  [pg EXCEPT !.vms = Append(@, [device |-> device, status |-> "CREATING", created |-> clock])]

PgUpdateVMStatus(v, s) == [pg EXCEPT !.vms[v].status = s]

InOrderOfCompletion(list) == \A j, k \in DOMAIN list : j < k => list[j].at < list[k].at

\* ORDER BY completed_at
PgGetTestResults(i) ==
  LET S == pg.results[i] IN CHOOSE p \in [1..Cardinality(S) -> S] : InOrderOfCompletion(p)
PgGetVM(v) == pg.vms[v]

\* WHERE 1=1 AND ...
PgMatching(rows, device, status) ==
  {i \in 1..Len(rows) : (device # "" => rows[i].device = device) /\ (status # "" => rows[i].status = status)}

\* ORDER BY created_at DESC
PgOrdered(rows, S) ==
  CHOOSE p \in [1..Cardinality(S) -> S] :
    \A i, j \in DOMAIN p : i < j => rows[p[i]].created > rows[p[j]].created

\* Mutant: the limit is applied before the offset.
PgPageLimitFirst(seq, limit, offset) == From(Upto(seq, limit), offset)

\* LIMIT and OFFSET
PgPage(seq, limit, offset) == Upto(From(seq, offset), limit)

PgListVMs(device, status) == PgMatching(pg.vms, device, status)
PgListRunningTestRuns == {i \in 1..Len(pg.runs) : pg.runs[i].status \in {"RUNNING", "QUEUED", "PENDING"}}
PgListOrphanedVMs == {v \in 1..Len(pg.vms) : pg.vms[v].status \in {"CREATING", "BOOTING", "RUNNING_TEST"}}

----------------------------------------------------------------------------
(* The API over the reads; 0 is the unspecified value of the enumerations  *)

Position(name, names) == CHOOSE i \in 1..Len(names) : names[i] = name

testRunStatusToProto(s) == IF s \in Statuses THEN Position(s, StatusNames) ELSE 0
vmStatusToProto(s) == IF s \in VMStatuses THEN Position(s, VMStatusNames) ELSE 0

\* Mutant: the last status is missing in the switch.
ProtoToTestRunStatusPartial(p) == IF p \in 1..6 THEN StatusNames[p] ELSE ""

protoToTestRunStatus(p) == IF p \in 1..8 THEN StatusNames[p] ELSE ""
protoToVMStatus(p) == IF p \in 1..8 THEN VMStatusNames[p] ELSE ""

\* GetTestRun and GetVM: status and device, as a client sees them.
testRunToProto(run) == [device |-> run.device, status |-> testRunStatusToProto(run.status)]
vmToProto(vm) == [device |-> vm.device, status |-> vmStatusToProto(vm.status)]

GetTestResults(results) == [k \in DOMAIN results |-> testRunStatusToProto(results[k].status)]

\* The filters that ListTestRuns and ListVMs hand to the store.
ListTestRunsFilter(p) == IF p # 0 THEN protoToTestRunStatus(p) ELSE ""
ListVMsFilter(p) == IF p # 0 THEN protoToVMStatus(p) ELSE ""

----------------------------------------------------------------------------
(* The calls                                                               *)

Tick == clock < MaxClock /\ clock' = clock + 1

UpdateTestRunStatus(i, s) ==
  /\ mem' = [mem EXCEPT !.runs[i] = MemUpdate(@, s, Messages[s])]
  /\ pg' = [pg EXCEPT !.runs[i] = PgUpdate(@, s, Messages[s])]

\* SubmitTestRun; a device outside the registry is refused before.
Submit ==
  /\ Len(mem.runs) < MaxRuns
  /\ \E d \in Devices : mem' = MemCreateTestRun(d) /\ pg' = PgCreateTestRun(d)
  /\ owner' = Append(owner, "queued")
  /\ saving' = Append(saving, {})
  /\ Tick

\* executeTestRun marks the run it was given, whatever its status has become.
Start(i) ==
  /\ owner[i] = "queued"
  /\ UpdateTestRunStatus(i, "RUNNING")
  /\ owner' = [owner EXCEPT ![i] = "executing"]
  /\ UNCHANGED saving
  /\ Tick

\* No resources, hence no VM and no result: the run goes back to the queue.
Defer(i) ==
  /\ owner[i] = "executing"
  /\ mem.results[i] = << >> /\ saving[i] = {}
  /\ UpdateTestRunStatus(i, "PENDING")
  /\ owner' = [owner EXCEPT ![i] = "queued"]
  /\ UNCHANGED saving
  /\ Tick

\* Step 7 of executeTestRun, from GetTestResults.
Verdict(results) ==
  IF \E k \in 1..Len(results) : results[k].status \in {"FAILED", "ERRORED"} THEN "FAILED" ELSE "PASSED"

\* A rejection, an error or the verdict, after the steps have returned.
Finish(i) ==
  /\ owner[i] = "executing"
  /\ saving[i] = {}
  /\ \E s \in {"ERRORED", "CANCELLED", Verdict(MemGetTestResults(i))} : UpdateTestRunStatus(i, s)
  /\ owner' = [owner EXCEPT ![i] = "done"]
  /\ UNCHANGED saving
  /\ Tick

\* processResultsForStep, in the goroutine of some step, takes the time of a result ...
CompleteResult(i) ==
  /\ owner[i] = "executing"
  /\ Len(mem.results[i]) + Cardinality(saving[i]) < MaxResults
  /\ \E s \in {"PASSED", "FAILED", "ERRORED"} :
       saving' = [saving EXCEPT ![i] = @ \cup {[status |-> s, at |-> clock]}]
  /\ UNCHANGED <<mem, pg, owner>>
  /\ Tick

\* ... and saves it, perhaps after a result that another step completed later.
SaveResult(i) ==
  /\ \E x \in saving[i] : /\ mem' = MemSaveTestResult(i, x) /\ pg' = PgSaveTestResult(i, x)
                          /\ saving' = [saving EXCEPT ![i] = @ \ {x}]
  /\ UNCHANGED <<clock, owner>>

\* CancelTestRun of a run that is unfinished.
Cancel(i) ==
  /\ MemGetTestRun(i).status \in {"PENDING", "RUNNING", "QUEUED"}
  /\ UpdateTestRunStatus(i, "CANCELLED")
  /\ UNCHANGED <<owner, saving>>
  /\ Tick

\* SaveVM with the identifier of a new VM, by the VM manager.
CreateVM ==
  /\ Len(mem.vms) < MaxVMs
  /\ \E d \in Devices : mem' = MemSaveVM(d) /\ pg' = PgSaveVM(d)
  /\ UNCHANGED <<owner, saving>>
  /\ Tick

\* The VM manager, the agent server and the recovery move the status of a VM.
MoveVM(v) ==
  /\ \E s \in VMStatuses \ {"CREATING", "RUNNING_TEST"} :
       mem' = MemUpdateVMStatus(v, s) /\ pg' = PgUpdateVMStatus(v, s)
  /\ UNCHANGED <<clock, owner, saving>>

Next ==
  \/ Submit \/ CreateVM
  \/ \E i \in 1..Len(mem.runs) :
       Start(i) \/ Defer(i) \/ CompleteResult(i) \/ SaveResult(i) \/ Finish(i) \/ Cancel(i)
  \/ \E v \in 1..Len(mem.vms) : MoveVM(v)

Spec == Init /\ [][Next]_vars

----------------------------------------------------------------------------
(* Properties                                                              *)

\* Where the messages differ, Postgres has dropped one that the memory store still shows,
\* of an earlier status: the run waited or was cancelled, and then went on.
MessagesAgree(i) ==
  LET m == mem.runs[i].msg
      p == PgGetTestRun(i).msg
  IN  /\ p \in {m, ""}
      /\ m # p => Messages[mem.runs[i].status] = ""

\* The duration of a run is the time from its last start to its end, in whole milliseconds
\* in the memory store and to the nearest one in Postgres.  They differ by more only for a
\* run that ended before it was started.
DurationsAgree(i) ==
  LET m == mem.runs[i]
      p == PgGetTestRun(i)
      d == m.completed - m.started
  IN  /\ m.started # nil /\ m.started < m.completed =>
           /\ UnitsPerMs * m.duration <= d /\ d < UnitsPerMs * (m.duration + 1)
           /\ p.duration = IF 2 * (d - UnitsPerMs * m.duration) < UnitsPerMs THEN m.duration
                                                                          ELSE m.duration + 1
      /\ p.duration \notin {m.duration, m.duration + 1} => (m.started = nil \/ m.completed < m.started)

\* The stores return the same results, hence the same verdict: Postgres in the order in
\* which they completed, the memory store in the order in which they were saved.
ResultsAgree(i) ==
  LET m == MemGetTestResults(i)
      p == PgGetTestResults(i)
  IN  /\ Len(p) = Len(m)
      /\ {p[k] : k \in 1..Len(p)} = {m[k] : k \in 1..Len(m)}
      /\ Verdict(p) = Verdict(m)
      /\ InOrderOfCompletion(p)
      /\ InOrderOfCompletion(m) => p = m

\* "Implementations may back this with Postgres, in-memory, or both": after the same calls
\* both return the same runs, with the same statuses and times, and the same VMs; recovery
\* would find the same runs and orphans; and messages, durations and the order of the
\* results differ only as the three definitions above say.
BackendsAgree ==
  /\ Len(mem.runs) = Len(pg.runs)
  /\ \A i \in 1..Len(mem.runs) :
       \A f \in {"device", "status", "created", "started", "completed"} :
         MemGetTestRun(i)[f] = PgGetTestRun(i)[f]
  /\ Len(mem.vms) = Len(pg.vms)
  /\ \A v \in 1..Len(mem.vms) : MemGetVM(v) = PgGetVM(v)
  /\ MemListRunningTestRuns = PgListRunningTestRuns
  /\ MemListOrphanedVMs = PgListOrphanedVMs
  /\ \A i \in 1..Len(mem.runs) : MessagesAgree(i) /\ DurationsAgree(i) /\ ResultsAgree(i)

\* The filters of ListTestRuns and ListVMs, through the conversions in both directions,
\* select exactly what GetTestRun and GetVM show with that status and device, in both
\* stores; and GetTestResults shows every result with the status it was saved with.
ListsMatchGets ==
  /\ \A i \in 1..Len(mem.runs) : \A k \in DOMAIN MemGetTestResults(i) :
       StatusNames[GetTestResults(MemGetTestResults(i))[k]] = MemGetTestResults(i)[k].status
  /\ \A d \in Devices \cup {""} : \A p \in 0..8 :
       LET Shown(x) == d \in {"", x.device} /\ p \in {0, x.status}
           s == ListTestRunsFilter(p)
           v == ListVMsFilter(p)
       IN  /\ MemMatching(mem.runs, d, s) = {i \in 1..Len(mem.runs) : Shown(testRunToProto(MemGetTestRun(i)))}
           /\ PgMatching(pg.runs, d, s) = {i \in 1..Len(pg.runs) : Shown(testRunToProto(PgGetTestRun(i)))}
           /\ MemListVMs(d, v) = {i \in 1..Len(mem.vms) : Shown(vmToProto(MemGetVM(i)))}
           /\ PgListVMs(d, v) = {i \in 1..Len(pg.vms) : Shown(vmToProto(PgGetVM(i)))}

\* The orders in which a Go map may yield the members of S.
MapOrders(S) == {p \in [1..Cardinality(S) -> S] : \A i, j \in DOMAIN p : p[i] = p[j] => i = j}

\* Pages of Postgres cover the matching runs, newest first, each once, and end with an
\* empty page.  A page of the memory store has the same length up to the end; past it the
\* memory store starts again.
PagesAgree ==
  \A s \in Statuses \cup {""} : \A limit \in 1..MaxRuns : \A k \in 0..MaxRuns :
    LET S == PgMatching(pg.runs, "", s)
        all == PgOrdered(pg.runs, S)
        page == PgPage(all, limit, k * limit)
    IN  /\ \A i \in 1..limit :
             IF k * limit + i <= Len(all)
               THEN i <= Len(page) /\ page[i] = all[k * limit + i]
               ELSE Len(page) < i
        /\ \A order \in MapOrders(S) :
             Len(MemPage(order, limit, k * limit)) =
               Len(IF k * limit < Len(all) THEN page ELSE PgPage(all, limit, 0))
=============================================================================
