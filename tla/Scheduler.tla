----------------------------- MODULE Scheduler -----------------------------
(***************************************************************************)
(* The FIFO scheduler of internal/core/scheduler.go, at the granularity of *)
(* its critical sections and channel operations, together with the         *)
(* goroutines that call it: any number of callers of Enqueue, the engine's *)
(* single worker looping on Next (execution_engine.go, worker), callers of *)
(* TryNext, the goroutines that execute runs and finally call Release, and *)
(* the caller of Close.                                                    *)
(*                                                                         *)
(* Every element of Runs is one submission: it is enqueued at most once.   *)
(* Enqueue and Release change the queue or the counter under the lock and  *)
(* signal the channel afterwards, so each is two steps.                    *)
(***************************************************************************)
EXTENDS Naturals, Sequences, FiniteSets

CONSTANTS Runs, MaxConcurrent

ASSUME RunsFinite == IsFiniteSet(Runs)
ASSUME MaxConcurrentPositive == MaxConcurrent \in Nat \ {0}

VARIABLES queue,        \* s.queue
          activeCount,  \* s.activeCount
          notify,       \* number of tokens in the capacity-1 channel s.notify
          closed,       \* s.notify was closed
          worker,       \* where the engine's worker is inside Next
          submit,       \* per run, where its Enqueue call is
          exec,         \* per run, where its execution is
          crashed       \* an unrecovered panic ended the process

vars == <<queue, activeCount, notify, closed, worker, submit, exec, crashed>>

Init ==
  /\ queue = << >>
  /\ activeCount = 0
  /\ notify = 0
  /\ closed = FALSE
  /\ worker = "check"
  /\ submit = [r \in Runs |-> "new"]
  /\ exec = [r \in Runs |-> "none"]
  /\ crashed = FALSE

----------------------------------------------------------------------------
(* Enqueue                                                                 *)

\* s.queue = append(s.queue, run), under the lock.
EnqueueAppend(r) ==
  /\ submit[r] = "new"
  /\ queue' = Append(queue, r)
  /\ submit' = [submit EXCEPT ![r] = "signal"]
  /\ exec' = [exec EXCEPT ![r] = "queued"]
  /\ UNCHANGED <<activeCount, notify, closed, worker, crashed>>

\* The non-blocking send: a full channel keeps its token, a closed one panics
\* and nothing recovers it.
EnqueueSignal(r) ==
  /\ submit[r] = "signal"
  /\ submit' = [submit EXCEPT ![r] = "done"]
  /\ IF closed
       THEN crashed' = TRUE /\ UNCHANGED notify
       ELSE notify' = 1 /\ UNCHANGED crashed
  /\ UNCHANGED <<queue, activeCount, closed, worker, exec>>

----------------------------------------------------------------------------
(* Next and TryNext                                                        *)

\* The condition both test under the lock.
SlotAndWork == activeCount < MaxConcurrent /\ queue # << >>

\* Mutant: the youngest run is handed out.
PopLast ==
  /\ queue' = SubSeq(queue, 1, Len(queue) - 1)
  /\ activeCount' = activeCount + 1
  /\ exec' = [exec EXCEPT ![queue[Len(queue)]] = "active"]

PopHead ==
  /\ queue' = Tail(queue)
  /\ activeCount' = activeCount + 1
  /\ exec' = [exec EXCEPT ![Head(queue)] = "active"]

\* Next returns a run; the worker starts its goroutine and calls Next again.
NextDispatch ==
  /\ worker = "check"
  /\ SlotAndWork
  /\ PopHead
  /\ UNCHANGED <<notify, closed, worker, submit, crashed>>

\* Nothing to hand out: the worker unlocks and goes on to receive.
NextBlock ==
  /\ worker = "check"
  /\ ~SlotAndWork
  /\ worker' = "receive"
  /\ UNCHANGED <<queue, activeCount, notify, closed, submit, exec, crashed>>

\* Mutant: a wake-up that finds the queue empty makes Next return nil.
NextReceiveNilWhenIdle ==
  /\ worker = "receive"
  /\ \/ notify = 1 /\ notify' = 0 /\ worker' = IF queue = << >> THEN "exited" ELSE "check"
     \/ notify = 0 /\ closed /\ worker' = "exited" /\ UNCHANGED notify
  /\ UNCHANGED <<queue, activeCount, closed, submit, exec, crashed>>

\* The receive: a buffered token is delivered even after Close; without a token
\* a closed channel makes Next return nil and the worker returns.
NextReceive ==
  /\ worker = "receive"
  /\ \/ notify = 1 /\ notify' = 0 /\ worker' = "check"
     \/ notify = 0 /\ closed /\ worker' = "exited" /\ UNCHANGED notify
  /\ UNCHANGED <<queue, activeCount, closed, submit, exec, crashed>>

\* TryNext hands a run to another caller without touching the channel.
TryNext ==
  /\ SlotAndWork
  /\ PopHead
  /\ UNCHANGED <<notify, closed, worker, submit, crashed>>

----------------------------------------------------------------------------
(* Release and Close                                                       *)

ReleaseSlot(r) ==
  /\ exec[r] = "active"
  /\ activeCount' = IF activeCount > 0 THEN activeCount - 1 ELSE activeCount
  /\ exec' = [exec EXCEPT ![r] = "signal"]
  /\ UNCHANGED <<queue, notify, closed, worker, submit, crashed>>

\* Mutant: Release does not wake the worker.
ReleaseSilent(r) ==
  /\ exec[r] = "signal"
  /\ exec' = [exec EXCEPT ![r] = "done"]
  /\ UNCHANGED <<queue, activeCount, notify, closed, worker, submit, crashed>>

\* The send is the same as Enqueue's, but a panic is recovered.
ReleaseSignal(r) ==
  /\ exec[r] = "signal"
  /\ exec' = [exec EXCEPT ![r] = "done"]
  /\ notify' = IF closed THEN notify ELSE 1
  /\ UNCHANGED <<queue, activeCount, closed, worker, submit, crashed>>

Close ==
  /\ ~closed
  /\ closed' = TRUE
  /\ UNCHANGED <<queue, activeCount, notify, worker, submit, exec, crashed>>

----------------------------------------------------------------------------
Worker == NextDispatch \/ NextBlock \/ NextReceive

Next ==
  /\ ~crashed
  /\ \/ Worker
     \/ TryNext
     \/ Close
     \/ \E r \in Runs : \/ EnqueueAppend(r) \/ EnqueueSignal(r)
                        \/ ReleaseSlot(r) \/ ReleaseSignal(r)

(***************************************************************************)
(* Fairness: the Go runtime runs every goroutine that can run.  The worker *)
(* and a caller that is past its critical section go on; an execution ends *)
(* because executeTestRun works under a context with a deadline.  Nobody   *)
(* has to submit, to call TryNext or to close.                             *)
(***************************************************************************)
Fairness ==
  /\ WF_vars(~crashed /\ Worker)
  /\ \A r \in Runs : /\ WF_vars(~crashed /\ EnqueueSignal(r))
                     /\ WF_vars(~crashed /\ ReleaseSlot(r))
                     /\ WF_vars(~crashed /\ ReleaseSignal(r))

Spec == Init /\ [][Next]_vars /\ Fairness

----------------------------------------------------------------------------
(* Properties                                                              *)

\* The shape of the scheduler's state.
TypeOK ==
  /\ queue \in Seq(Runs)
  /\ activeCount \in Nat
  /\ notify \in {0, 1}
  /\ closed \in BOOLEAN
  /\ worker \in {"check", "receive", "exited"}
  /\ submit \in [Runs -> {"new", "signal", "done"}]
  /\ exec \in [Runs -> {"none", "queued", "active", "signal", "done"}]
  /\ crashed \in BOOLEAN

Active == {r \in Runs : exec[r] = "active"}

\* The counter is exactly the number of executions that hold a slot, so Release's
\* "if s.activeCount > 0" never hides a lost or a double release.
SlotsAccounted == activeCount = Cardinality(Active)

\* Never more than MaxConcurrent executions at a time, whoever took them out.
ConcurrencyLimit == Cardinality(Active) <= MaxConcurrent

\* The queue holds the queued runs, each once: none is lost or handed out twice.
QueueExact ==
  /\ \A i, j \in 1..Len(queue) : queue[i] = queue[j] => i = j
  /\ \A r \in Runs : exec[r] = "queued" <=> \E i \in 1..Len(queue) : queue[i] = r

\* No lost wake-up on the capacity-1 channel: when the worker is waiting although
\* it could dispatch, a token is there or a signal is still on its way.
NoLostWakeup ==
  (worker = "receive" /\ SlotAndWork) =>
     \/ notify = 1
     \/ closed
     \/ \E r \in Runs : submit[r] = "signal" \/ exec[r] = "signal"

\* Unless the scheduler is shut down, a run that was enqueued is executed.
EveryRunDispatched ==
  \A r \in Runs : exec[r] = "queued" ~> (exec[r] # "queued" \/ closed)

\* The scheduler implements the abstract queue: order, limit and progress.
Abstract == INSTANCE RunQueue WITH shut <- closed
ImplementsRunQueue == Abstract!RQSpec
=============================================================================
