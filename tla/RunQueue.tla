------------------------------ MODULE RunQueue ------------------------------
(***************************************************************************)
(* What the scheduler promises to its callers, without channels, locks or  *)
(* goroutines: test runs leave in the order in which they arrived, at most *)
(* MaxConcurrent of them hold an execution slot, and a waiting run is      *)
(* dispatched once a slot is free, until the queue is shut.                *)
(*                                                                         *)
(* Scheduler.tla implements this specification; Engine.tla is built on it. *)
(***************************************************************************)
EXTENDS Naturals, Sequences

CONSTANTS Runs,          \* the test runs (TestRun pointers)
          MaxConcurrent  \* cfg.VMDefaults.MaxConcurrentVMs after NewScheduler's clamp

ASSUME MaxConcurrentAssumption == MaxConcurrent \in Nat \ {0}

VARIABLES queue,        \* runs waiting for a slot, oldest first
          activeCount,  \* slots in use
          shut          \* the queue was closed

rqVars == <<queue, activeCount, shut>>

RQInit ==
  /\ queue = << >>
  /\ activeCount = 0
  /\ shut = FALSE

RQEnqueue(r) ==
  /\ queue' = Append(queue, r)
  /\ UNCHANGED <<activeCount, shut>>

\* A slot is free and somebody waits for it.
Dispatchable == activeCount < MaxConcurrent /\ queue # << >>

RQDispatch(r) ==
  /\ Dispatchable
  /\ r = Head(queue)
  /\ queue' = Tail(queue)
  /\ activeCount' = activeCount + 1
  /\ UNCHANGED shut

RQRelease ==
  /\ activeCount > 0
  /\ activeCount' = activeCount - 1
  /\ UNCHANGED <<queue, shut>>

RQClose ==
  /\ ~shut
  /\ shut' = TRUE
  /\ UNCHANGED <<queue, activeCount>>

RQNext ==
  \/ \E r \in Runs : RQEnqueue(r) \/ RQDispatch(r)
  \/ RQRelease
  \/ RQClose

RQSafety == RQInit /\ [][RQNext]_rqVars

RQSpec == RQSafety /\ WF_rqVars(~shut /\ \E r \in Runs : RQDispatch(r))
=============================================================================
