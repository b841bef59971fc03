------------------------------ MODULE Workflow ------------------------------
(***************************************************************************)
(* A workflow that NewWorkflow accepted (internal/core/workflow.go): Ready, *)
(* MarkRunning, Advance with its skip propagation, IsDone, IsBlocked and   *)
(* Summary.  propagateSkip is the loop it is in the code, one iteration    *)
(* per step, so that what it achieves can be proved by invariance; while   *)
(* the loop runs (skipAt > 0) no other operation does, because the one     *)
(* goroutine that owns the workflow is inside Advance.                     *)
(*                                                                         *)
(* The specification lets any caller use the API as it is documented: mark *)
(* ready steps as running, record the outcome of a running one.            *)
(* RunWorkflow.tla adds the caller the orchestrator has.                   *)
(***************************************************************************)
EXTENDS WorkflowGraph

CONSTANT Steps

ASSUME StepsAssumption == IsFiniteSet(Steps) /\ Steps # {}

VARIABLES deps,    \* def.DependsOn of each step
          order,   \* w.order, as NewWorkflow computed it
          status,  \* s.status of each step
          skipAt   \* index propagateSkip has reached in the order, 0 when it is not running

wfVars == <<deps, order, status, skipAt>>

WFInit ==
  /\ deps \in [Steps -> SUBSET Steps]
  /\ order \in Orderings(Steps)
  /\ Topological(order, Steps, deps)
  /\ status = [s \in Steps |-> "pending"]
  /\ skipAt = 0

depsAllPassed(s) == \A d \in deps[s] : status[d] = "passed"

\* Mutant: a skipped dependency does not count.
depsDirectlyFailed(s) == \E d \in deps[s] : status[d] = "failed"

depsAnyFailed(s) == \E d \in deps[s] : status[d] \in {"failed", "skipped"}

Ready == {s \in Steps : status[s] = "pending" /\ depsAllPassed(s)}

IsDone == \A s \in Steps : status[s] \notin {"pending", "running"}

IsBlocked == ~IsDone /\ Ready = {}

Summary ==
  [passed  |-> Cardinality({s \in Steps : status[s] = "passed"}),
   failed  |-> Cardinality({s \in Steps : status[s] = "failed"}),
   skipped |-> Cardinality({s \in Steps : status[s] = "skipped"})]

\* MarkRunning for every step of the set S.
MarkRunning(S) ==
  /\ skipAt = 0
  /\ status' = [s \in Steps |-> IF s \in S THEN "running" ELSE status[s]]
  /\ UNCHANGED <<deps, order, skipAt>>

\* Advance up to the call of propagateSkip.
Advance(s, outcome) ==
  /\ skipAt = 0
  /\ status' = [status EXCEPT ![s] = outcome]
  /\ skipAt' = IF outcome = "failed" THEN 1 ELSE 0
  /\ UNCHANGED <<deps, order>>

\* One iteration of propagateSkip.
PropagateSkip ==
  /\ skipAt > 0
  /\ LET s == order[skipAt] IN
       status' = IF status[s] = "pending" /\ depsAnyFailed(s)
                   THEN [status EXCEPT ![s] = "skipped"]
                   ELSE status
  /\ skipAt' = IF skipAt = Len(order) THEN 0 ELSE skipAt + 1
  /\ UNCHANGED <<deps, order>>

WFNext ==
  \/ \E S \in SUBSET Ready : S # {} /\ MarkRunning(S)
  \/ \E s \in Steps, outcome \in {"passed", "failed"} :
       status[s] = "running" /\ Advance(s, outcome)
  \/ PropagateSkip

WFSpec == WFInit /\ [][WFNext]_wfVars

----------------------------------------------------------------------------
(* Properties                                                              *)

StepStatus == {"pending", "running", "passed", "failed", "skipped"}

\* The shape of the state.
WFTypeOK ==
  /\ deps \in [Steps -> SUBSET Steps]
  /\ order \in Seq(Steps)
  /\ status \in [Steps -> StepStatus]
  /\ skipAt \in 0..Len(order)

\* A step is started only after everything it depends on has passed.
StartedAfterDeps ==
  \A s \in Steps : status[s] \in {"running", "passed", "failed"} => depsAllPassed(s)

\* "skips all transitively dependent steps", and no others: whenever Advance has
\* returned, a step is skipped if and only if some step upstream of it failed.  One
\* pass over the topological order is enough for that.
SkippedExactly ==
  skipAt = 0 =>
    \A s \in Steps :
      status[s] = "skipped" <=> \E t \in Upstream(Steps, deps, s) : status[t] = "failed"

\* The driver loop cannot hang on a half-finished workflow: whenever it is not done,
\* something is running or can be started.
NeverStuck == skipAt = 0 /\ ~IsDone => Ready # {} \/ \E s \in Steps : status[s] = "running"

\* A step's outcome is final, and only a pending step is ever skipped.
OutcomesFinal ==
  [][ \A s \in Steps : \/ status'[s] = status[s]
                       \/ status[s] = "pending" /\ status'[s] \in {"running", "skipped"}
                       \/ status[s] = "running" /\ status'[s] \in {"passed", "failed"} ]_wfVars
=============================================================================
