---------------------------- MODULE RunWorkflow ----------------------------
(***************************************************************************)
(* The test phase of a run: runWorkflow of core/execution_engine.go, the   *)
(* goroutine it starts for every step with its retry loop, the results     *)
(* that processResultsForStep stores, and the final status that            *)
(* executeTestRun derives from the stored results.                         *)
(*                                                                         *)
(* The replies of the guest agent are those of GuestAgent.tla; the stored  *)
(* results are abstracted to the set of their statuses.                    *)
(***************************************************************************)
EXTENDS Workflow, GuestAgent

CONSTANTS TestRuns,      \* what the test binaries may do
          RetryMax,      \* def.RetryMax, 1 for suites that list tests
          StoreMayFail,  \* whether SaveTestResult and GetTestResults may fail
          MayExpire      \* whether the context of the run may end

ASSUME RunAssumptions ==
  TestRuns \subseteq TestRun /\ RetryMax \in Nat /\ StoreMayFail \in BOOLEAN /\ MayExpire \in BOOLEAN

VARIABLES loop,         \* the goroutine in runWorkflow: "launch", "select", "done", "aborted"
          step,         \* per step, its goroutine: "none", "send", "backoff", "report", "ended"
          attempt,      \* per step, the retry loop's counter
          outcome,      \* per step, finalStatus of its goroutine
          resultsChan,  \* results on their way to runWorkflow
          ctxDone,      \* the run's context is done
          saved,        \* statuses of the results stored for this run
          unread,       \* GetTestResults failed
          verdict       \* finalStatus of executeTestRun, "none" until then

runVars == <<loop, step, attempt, outcome, resultsChan, ctxDone, saved, unread, verdict>>
vars == <<wfVars, runVars>>

Init ==
  /\ WFInit
  /\ loop = "launch"
  /\ step = [s \in Steps |-> "none"]
  /\ attempt = [s \in Steps |-> 0]
  /\ outcome = [s \in Steps |-> "passed"]
  /\ resultsChan = << >>
  /\ ctxDone = FALSE
  /\ saved = {}
  /\ unread = FALSE
  /\ verdict = "none"

----------------------------------------------------------------------------
(* The goroutine in runWorkflow                                            *)

\* Mutant: the steps that are started are not marked as running.
LaunchUnmarked ==
  /\ loop = "launch"
  /\ ~IsDone
  /\ skipAt = 0
  /\ step' = [s \in Steps |-> IF s \in Ready THEN "send" ELSE step[s]]
  /\ loop' = "select"
  /\ UNCHANGED <<wfVars, attempt, outcome, resultsChan, ctxDone, saved, unread, verdict>>

\* Every ready step is marked and its goroutine started; then the loop waits.
Launch ==
  /\ loop = "launch"
  /\ ~IsDone
  /\ MarkRunning(Ready)
  /\ step' = [s \in Steps |-> IF s \in Ready THEN "send" ELSE step[s]]
  /\ loop' = "select"
  /\ UNCHANGED <<attempt, outcome, resultsChan, ctxDone, saved, unread, verdict>>

\* Mutant: the loop drains the channel and propagates skips once.
ReceiveAll ==
  /\ loop = "select"
  /\ resultsChan # << >>
  /\ skipAt = 0
  /\ status' = [s \in Steps |-> IF \E i \in 1..Len(resultsChan) : resultsChan[i].step = s
                                THEN outcome[s] ELSE status[s]]
  /\ skipAt' = IF \E i \in 1..Len(resultsChan) : resultsChan[i].status = "failed" THEN 1 ELSE 0
  /\ resultsChan' = << >>
  /\ loop' = "launch"
  /\ UNCHANGED <<deps, order, step, attempt, outcome, ctxDone, saved, unread, verdict>>

\* The select: a result, recorded with Advance.
Receive ==
  /\ loop = "select"
  /\ resultsChan # << >>
  /\ Advance(Head(resultsChan).step, Head(resultsChan).status)
  /\ resultsChan' = Tail(resultsChan)
  /\ loop' = "launch"
  /\ UNCHANGED <<step, attempt, outcome, ctxDone, saved, unread, verdict>>

\* The select: the end of the context.  The error is not ErrWorkflowFailed, so the run
\* is ERRORED; step goroutines may still be alive.
Abort ==
  /\ loop = "select"
  /\ ctxDone
  /\ loop' = "aborted"
  /\ verdict' = "ERRORED"
  /\ UNCHANGED <<wfVars, step, attempt, outcome, resultsChan, ctxDone, saved, unread>>

Failing == {"FAILED", "ERRORED"}

\* Step 7 of executeTestRun: the stored results decide, and an error of GetTestResults
\* counts as no results.
DecideVerdict ==
  /\ unread' \in IF StoreMayFail THEN BOOLEAN ELSE {FALSE}
  /\ verdict' = IF ~unread' /\ saved \cap Failing # {} THEN "FAILED" ELSE "PASSED"

\* Mutant: the loop also ends when IsBlocked says so.
FinishWhenBlocked ==
  /\ loop = "launch"
  /\ skipAt = 0
  /\ IsDone \/ IsBlocked
  /\ loop' = "done"
  /\ DecideVerdict
  /\ UNCHANGED <<wfVars, step, attempt, outcome, resultsChan, ctxDone, saved>>

\* Mutant: the loop ends when every step has passed.
FinishWhenAllPassed ==
  /\ loop = "launch"
  /\ Summary.passed = Cardinality(Steps)
  /\ loop' = "done"
  /\ DecideVerdict
  /\ UNCHANGED <<wfVars, step, attempt, outcome, resultsChan, ctxDone, saved>>

\* runWorkflow returns nil or ErrWorkflowFailed, which executeTestRun treats alike.
Finish ==
  /\ loop = "launch"
  /\ skipAt = 0
  /\ IsDone
  /\ loop' = "done"
  /\ DecideVerdict
  /\ UNCHANGED <<wfVars, step, attempt, outcome, resultsChan, ctxDone, saved>>

----------------------------------------------------------------------------
(* The goroutine of a step                                                 *)

mapAgentStatus(st) ==
  CASE st \in {"passed", "PASS"} -> "PASSED"
    [] st \in {"failed", "FAIL"} -> "FAILED"
    [] OTHER -> "ERRORED"

\* What processResultsForStep stores: one result for each in the reply, or one with the
\* agent's own status when it has none.
ResultsOf(reply) ==
  IF reply.items = {}
    THEN {mapAgentStatus(reply.status)}
    ELSE {mapAgentStatus(item) : item \in reply.items}

Replies == {StartTestReply(t) : t \in TestRuns}

\* The sets of results that a passing, and a failing, attempt may have.
PassingResults == {ResultsOf(reply) : reply \in {r \in Replies : r.status = "passed"}}
FailingResults == {ResultsOf(reply) : reply \in {r \in Replies : r.status # "passed"}}

\* Each SaveTestResult may fail, which is only logged.
Save(results) ==
  \E kept \in IF StoreMayFail THEN SUBSET results ELSE {results} : saved' = saved \cup kept

\* After an attempt that did not pass: retry or report.
RetryOrReport(s) ==
  /\ outcome' = [outcome EXCEPT ![s] = "failed"]
  /\ IF attempt[s] < RetryMax
       THEN step' = [step EXCEPT ![s] = "backoff"]
       ELSE step' = [step EXCEPT ![s] = "report"]

\* SendCommand returns a reply with status "passed".
AttemptPasses(s) ==
  /\ step[s] = "send"
  /\ \E results \in PassingResults : Save(results)
  /\ outcome' = [outcome EXCEPT ![s] = "passed"]
  /\ step' = [step EXCEPT ![s] = "report"]
  /\ UNCHANGED <<wfVars, loop, attempt, resultsChan, ctxDone, unread, verdict>>

\* SendCommand returns a reply with another status.
AttemptFails(s) ==
  /\ step[s] = "send"
  /\ \E results \in FailingResults : Save(results)
  /\ RetryOrReport(s)
  /\ UNCHANGED <<wfVars, loop, attempt, resultsChan, ctxDone, unread, verdict>>

\* SendCommand returns an error: no reply in TimeoutSec+10 seconds, the context is done
\* or the VM was unregistered.  Nothing is stored.
AttemptUnanswered(s) ==
  /\ step[s] = "send"
  /\ RetryOrReport(s)
  /\ UNCHANGED <<wfVars, loop, attempt, resultsChan, ctxDone, saved, unread, verdict>>

\* The exponential backoff ends.
Retry(s) ==
  /\ step[s] = "backoff"
  /\ attempt' = [attempt EXCEPT ![s] = @ + 1]
  /\ step' = [step EXCEPT ![s] = "send"]
  /\ UNCHANGED <<wfVars, loop, outcome, resultsChan, ctxDone, saved, unread, verdict>>

\* Mutant: a channel for one result.
ResultsCapOne == 1

\* resultsChan has room for one result of every step.
ResultsCap == Cardinality(Steps)

\* The last act of the goroutine, which blocks while the channel is full.
Report(s) ==
  /\ step[s] = "report"
  /\ Len(resultsChan) < ResultsCap
  /\ resultsChan' = Append(resultsChan, [step |-> s, status |-> outcome[s]])
  /\ step' = [step EXCEPT ![s] = "ended"]
  /\ UNCHANGED <<wfVars, loop, attempt, outcome, ctxDone, saved, unread, verdict>>

----------------------------------------------------------------------------
Expire ==
  /\ MayExpire
  /\ ~ctxDone
  /\ ctxDone' = TRUE
  /\ UNCHANGED <<wfVars, loop, step, attempt, outcome, resultsChan, saved, unread, verdict>>

Skip == PropagateSkip /\ UNCHANGED runVars

Main == Launch \/ Receive \/ Abort \/ Finish \/ Skip

StepGoroutine(s) ==
  AttemptPasses(s) \/ AttemptFails(s) \/ AttemptUnanswered(s) \/ Retry(s) \/ Report(s)

Next == Main \/ Expire \/ \E s \in Steps : StepGoroutine(s)

\* Goroutines that can run do; SendCommand returns because its context has a deadline,
\* the backoff because it is a sleep.
Spec ==
  /\ Init
  /\ [][Next]_vars
  /\ WF_vars(Main)
  /\ \A s \in Steps : WF_vars(StepGoroutine(s))

----------------------------------------------------------------------------
(* Properties                                                              *)

Reported(s) == \E i \in 1..Len(resultsChan) : resultsChan[i].step = s

\* The bookkeeping of runWorkflow is in step with its goroutines: a step is running
\* exactly while its goroutine is alive or its result is in the channel, and there is
\* one such result at most.  So a step is never started twice, no result is lost, and a
\* goroutine that reports never blocks, even after an abort, when nobody reads any more.
GoroutinePerRunningStep ==
  /\ \A i, j \in 1..Len(resultsChan) : resultsChan[i].step = resultsChan[j].step => i = j
  /\ \A s \in Steps :
       /\ status[s] = "running" <=> (step[s] \in {"send", "backoff", "report"} \/ Reported(s))
       /\ step[s] = "report" => Len(resultsChan) < ResultsCap

\* runWorkflow uses the workflow as it is meant to be used: it marks only ready steps,
\* records one outcome for each running step and nothing else, whatever the goroutines do.
ImplementsWorkflow == WFSpec

\* The verdict is not computed too early: a run is never PASSED while a failing result
\* of it is stored, or is still going to be (unless the results cannot be read).
PassedHasNoFailure == verdict = "PASSED" /\ ~unread => saved \cap Failing = {}

\* runWorkflow returns.
RunEnds == <>(loop \in {"done", "aborted"})

\* A run is PASSED only if its tests passed.
PassedMeansAllPassed == verdict = "PASSED" => \A s \in Steps : status[s] = "passed"
=============================================================================
