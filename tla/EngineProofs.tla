---------------------------- MODULE EngineProofs ----------------------------
(***************************************************************************)
(* Proofs about Engine.tla, for any finite set of runs, any limits and any *)
(* number of faults and restarts: slots and host resources are exact, a    *)
(* run has one owner at a time, verdicts are final, recovery queues every  *)
(* interrupted run again, and only a deadline or a fault leaves an         *)
(* unfinished run to nobody.                                               *)
(*                                                                         *)
(* The counter of slots is right only because a dispatched run is not      *)
(* executing already, which holds because a run is in one place only       *)
(* (Apart).  That survives a restart because a process that is down has    *)
(* nothing in memory (DownIsEmpty) and recovery lists only runs that were  *)
(* stored by a finished submission (NewIsUnknown).  A QEMU process belongs *)
(* to an execution that holds its share of the host (VMsAreExecuted).      *)
(*                                                                         *)
(* Who will finish a run is a second invariant over the first (OwnerInv):  *)
(* an unfinished row has an owner (UnfinishedIsOwned) because an execution *)
(* ends after a final write (FinishedIsFinal), whose context only Stop or  *)
(* a deadline ends before (ClosedByStop).                                  *)
(***************************************************************************)
EXTENDS Engine, FiniteSetTheorems, SequenceTheorems, TLAPS

\* The queue has no run twice.
QueueDistinct == \A i, j \in 1..Len(queue) : queue[i] = queue[j] => i = j

\* With its submitter, listed for recovery, queued, executing or deferred: only one.
Apart ==
  \A r \in Runs :
    /\ submit[r] # "submitted" =>
         ~InQueue(r) /\ pc[r] = "idle" /\ r \notin deferred /\ r \notin toRecover
    /\ r \in toRecover => ~InQueue(r) /\ pc[r] = "idle" /\ r \notin deferred
    /\ InQueue(r) => pc[r] = "idle" /\ r \notin deferred
    /\ pc[r] # "idle" => r \notin deferred

\* A run that was never submitted is not in the store, and nobody cancels it.
NewIsUnknown == \A r \in Runs : submit[r] = "new" => store[r] = "none" /\ cancel[r] = "none"

\* Nothing that is only in memory survives the end of the process.
DownIsEmpty ==
  phase = "down" =>
    /\ queue = << >> /\ deferred = {} /\ toRecover = {}
    /\ \A r \in Runs : pc[r] = "idle" /\ submit[r] # "created"

PlaceInv == TypeOK /\ QueueDistinct /\ Apart /\ NewIsUnknown /\ DownIsEmpty

HasVerdict(r) == store[r] \in {"PASSED", "FAILED"}

\* A run with a verdict is past the last write of its execution, and nobody will execute it.
VerdictIsLast ==
  \A r \in Runs : HasVerdict(r) =>
    /\ submit[r] = "submitted" /\ ~InQueue(r) /\ r \notin deferred /\ r \notin toRecover
    /\ pc[r] \in {"teardown", "free", "cancel", "idle"}

\* Nothing is in an empty queue.
LEMMA EmptyQueue == ASSUME queue = << >>, NEW r PROVE ~InQueue(r)
BY DEF InQueue

\* Appending a run that does not wait yet keeps the queue free of repetitions.
LEMMA EnqueueProperties ==
  ASSUME NEW r \in Runs, queue \in Seq(Runs), QueueDistinct, ~InQueue(r),
         queue' = Append(queue, r)
  PROVE  /\ queue' \in Seq(Runs)
         /\ QueueDistinct'
         /\ \A s \in Runs : InQueue(s)' <=> (InQueue(s) \/ s = r)
<1>1. /\ queue' \in Seq(Runs)
      /\ Len(queue) \in Nat
      /\ Len(queue') = Len(queue) + 1
      /\ \A i \in 1..Len(queue) : queue'[i] = queue[i]
      /\ queue'[Len(queue) + 1] = r
  BY AppendProperties, LenProperties
<1>2. QueueDistinct'
  <2> SUFFICES ASSUME NEW i \in 1..Len(queue'), NEW j \in 1..Len(queue'), queue'[i] = queue'[j]
               PROVE  i = j
    BY DEF QueueDistinct
  <2>1. i \in 1..Len(queue) \/ i = Len(queue) + 1
    BY <1>1
  <2>2. j \in 1..Len(queue) \/ j = Len(queue) + 1
    BY <1>1
  <2> QED
    BY <1>1, <2>1, <2>2 DEF QueueDistinct, InQueue
<1>3. ASSUME NEW s \in Runs PROVE InQueue(s)' <=> (InQueue(s) \/ s = r)
  <2>1. ASSUME InQueue(s)' PROVE InQueue(s) \/ s = r
    <3>1. PICK i \in 1..Len(queue') : queue'[i] = s
      BY <2>1 DEF InQueue
    <3>2. i \in 1..Len(queue) \/ i = Len(queue) + 1
      BY <1>1
    <3> QED
      BY <1>1, <3>1, <3>2 DEF InQueue
  <2>2. ASSUME InQueue(s) PROVE InQueue(s)'
    <3>1. PICK i \in 1..Len(queue) : queue[i] = s
      BY <2>2 DEF InQueue
    <3>2. i \in 1..Len(queue') /\ queue'[i] = s
      BY <1>1, <3>1
    <3> QED
      BY <3>2 DEF InQueue
  <2>3. ASSUME s = r PROVE InQueue(s)'
    <3>1. Len(queue) + 1 \in 1..Len(queue')
      BY <1>1
    <3> QED
      BY <1>1, <2>3, <3>1 DEF InQueue
  <2> QED
    BY <2>1, <2>2, <2>3
<1> QED
  BY <1>1, <1>2, <1>3

\* Taking the head out leaves exactly the others.
LEMMA DequeueProperties ==
  ASSUME queue \in Seq(Runs), QueueDistinct, queue # << >>, queue' = Tail(queue)
  PROVE  /\ Head(queue) \in Runs /\ InQueue(Head(queue))
         /\ queue' \in Seq(Runs)
         /\ QueueDistinct'
         /\ \A s \in Runs : InQueue(s)' <=> (InQueue(s) /\ s # Head(queue))
<1>1. /\ Head(queue) \in Runs
      /\ Head(queue) = queue[1]
      /\ Len(queue) \in Nat \ {0}
      /\ queue' \in Seq(Runs)
      /\ Len(queue') = Len(queue) - 1
      /\ \A i \in 1..Len(queue') : queue'[i] = queue[i + 1]
  BY HeadTailProperties, LenProperties, EmptySeq
<1>2. QueueDistinct'
  <2> SUFFICES ASSUME NEW i \in 1..Len(queue'), NEW j \in 1..Len(queue'), queue'[i] = queue'[j]
               PROVE  i = j
    BY DEF QueueDistinct
  <2>1. i + 1 \in 1..Len(queue) /\ j + 1 \in 1..Len(queue) /\ queue[i + 1] = queue[j + 1]
    BY <1>1
  <2> QED
    BY <2>1 DEF QueueDistinct
<1>3. 1 \in 1..Len(queue)
  BY <1>1
<1>4. ASSUME NEW s \in Runs PROVE InQueue(s)' <=> (InQueue(s) /\ s # Head(queue))
  <2>1. ASSUME InQueue(s)' PROVE InQueue(s) /\ s # Head(queue)
    <3>1. PICK i \in 1..Len(queue') : queue'[i] = s
      BY <2>1 DEF InQueue
    <3>2. i + 1 \in 1..Len(queue) /\ queue[i + 1] = s /\ i + 1 # 1
      BY <1>1, <3>1
    <3> QED
      BY <1>1, <1>3, <3>2 DEF InQueue, QueueDistinct
  <2>2. ASSUME InQueue(s), s # Head(queue) PROVE InQueue(s)'
    <3>1. PICK i \in 1..Len(queue) : queue[i] = s
      BY <2>2 DEF InQueue
    <3>2. i # 1
      BY <1>1, <2>2, <3>1
    <3>3. i - 1 \in 1..Len(queue') /\ queue'[i - 1] = queue[i - 1 + 1] /\ i - 1 + 1 = i
      BY <1>1, <3>2
    <3> QED
      BY <3>1, <3>3 DEF InQueue
  <2> QED
    BY <2>1, <2>2
<1> QED
  BY <1>1, <1>2, <1>3, <1>4 DEF InQueue

\* TryAcquire adds one VM to both counters.
LEMMA AcquireProperties ==
  ASSUME budget \in ResourceBudget, TryAcquire(alloc)
  PROVE  /\ budget' \in ResourceBudget
         /\ budget'.TotalCPUs = budget.TotalCPUs /\ budget'.TotalMemMB = budget.TotalMemMB
         /\ budget'.UsedCPUs = budget.UsedCPUs + VMCPUs
         /\ budget'.UsedMemMB = budget.UsedMemMB + VMMemMB
         /\ budget'.UsedCPUs <= budget.TotalCPUs /\ budget'.UsedMemMB <= budget.TotalMemMB
<1>1. alloc.CPUs = VMCPUs /\ alloc.MemMB = VMMemMB /\ VMCPUs \in Nat /\ VMMemMB \in Nat
  BY EngineAssumptions DEF alloc
<1>2. budget' = [budget EXCEPT !.UsedCPUs = @ + VMCPUs, !.UsedMemMB = @ + VMMemMB]
  BY <1>1 DEF TryAcquire
<1>3. /\ budget.UsedCPUs + VMCPUs <= budget.TotalCPUs
      /\ budget.UsedMemMB + VMMemMB <= budget.TotalMemMB
  BY <1>1 DEF TryAcquire, Acquirable, CanFit
<1>4. budget' = [TotalCPUs |-> budget.TotalCPUs, TotalMemMB |-> budget.TotalMemMB,
                 UsedCPUs |-> budget.UsedCPUs + VMCPUs, UsedMemMB |-> budget.UsedMemMB + VMMemMB]
  BY <1>2 DEF ResourceBudget
<1> QED
  BY <1>1, <1>3, <1>4 DEF ResourceBudget

\* Release takes what one VM needs out of both counters, which stop at zero.
LEMMA ReleaseProperties ==
  ASSUME budget \in ResourceBudget, Release(alloc)
  PROVE  /\ budget' \in ResourceBudget
         /\ budget'.TotalCPUs = budget.TotalCPUs /\ budget'.TotalMemMB = budget.TotalMemMB
         /\ budget'.UsedCPUs = Minus(budget.UsedCPUs, VMCPUs)
         /\ budget'.UsedMemMB = Minus(budget.UsedMemMB, VMMemMB)
<1>1. alloc.CPUs = VMCPUs /\ alloc.MemMB = VMMemMB /\ VMCPUs \in Nat /\ VMMemMB \in Nat
  BY EngineAssumptions DEF alloc
<1>2. budget' = [budget EXCEPT !.UsedCPUs = Minus(@, VMCPUs), !.UsedMemMB = Minus(@, VMMemMB)]
  BY <1>1 DEF Release
<1>3. budget' = [TotalCPUs |-> budget.TotalCPUs, TotalMemMB |-> budget.TotalMemMB,
                 UsedCPUs |-> Minus(budget.UsedCPUs, VMCPUs),
                 UsedMemMB |-> Minus(budget.UsedMemMB, VMMemMB)]
  BY <1>2 DEF ResourceBudget
<1>4. Minus(budget.UsedCPUs, VMCPUs) \in Nat /\ Minus(budget.UsedMemMB, VMMemMB) \in Nat
  BY <1>1 DEF ResourceBudget, Minus
<1> QED
  BY <1>3, <1>4 DEF ResourceBudget

\* What a step of an execution leaves alone, and what it may do to its own run.
LEMMA ExecuteShape ==
  ASSUME TypeOK, NEW r \in Runs, Execute(r)
  PROVE  /\ UNCHANGED <<queueVars, apiVars, processVars, interrupted, survivors>>
         /\ pc[r] # "idle" /\ vms' \subseteq vms \cup {r}
         /\ \E stage \in Stages \cup {"idle"} :
              /\ pc' = [pc EXCEPT ![r] = stage]
              /\ stage # "idle" => releasing' = releasing /\ expired' = expired /\ deferred' = deferred
              /\ stage = "idle" =>
                   /\ releasing' = releasing + 1
                   /\ expired' = expired \ {r}
                   /\ deferred' = deferred \/ (pc[r] = "gate" /\ deferred' = deferred \cup {r})
              /\ \/ store' = store
                 \/ /\ pc[r] \in {"start", "gate", "vm", "guest", "tests"}
                    /\ \E s \in Statuses :
                         /\ store' = [store EXCEPT ![r] = s]
                         /\ s \in {"PASSED", "FAILED"} => stage = "teardown"
              /\ \/ /\ budget' = budget
                    /\ pc[r] \in {"start", "gate"} => stage \in {"gate", "idle"}
                    /\ pc[r] \in {"vm", "guest", "tests", "teardown"} =>
                         stage \in {"guest", "tests", "teardown", "free"}
                    /\ pc[r] = "cancel" => stage = "idle"
                    /\ pc[r] # "free"
                    /\ stage \in {"start", "gate", "vm", "guest", "tests"} =>
                         pc[r] \in {"start", "gate", "vm", "guest", "tests"}
                 \/ pc[r] = "gate" /\ stage = "vm" /\ TryAcquire(alloc)
                 \/ pc[r] = "free" /\ stage \in {"cancel", "idle"} /\ Release(alloc)
              /\ r \in vms' => \/ pc[r] \in {"start", "gate"} /\ r \in vms
                              \/ stage \in {"guest", "tests", "teardown", "free", "cancel"}
         /\ faults' \in 0..MaxFaults
<1> USE DEF Stages, Goto, Return, queueVars, apiVars, processVars, vmVars, hostVars
<1>0. /\ pc[r] \in Stages \cup {"idle"} /\ faults \in 0..MaxFaults /\ MaxFaults \in Nat
  BY EngineAssumptions DEF TypeOK
<1>1. ASSUME NEW s, TryUpdate(r, s)
      PROVE  store' \in {store, [store EXCEPT ![r] = s]} /\ faults' \in 0..MaxFaults
  BY <1>0, <1>1 DEF TryUpdate, UpdateOK, UpdateFails, Updated, Fault
<1>2. CASE MarkRunning(r)
  <2>1. CASE UpdateOK(r, "RUNNING") /\ Goto(r, "gate")
    BY <1>0, <1>1, <1>2, <2>1 DEF MarkRunning, TryUpdate, Statuses
  <2>2. CASE UpdateFails(r) /\ Return(r)
    BY <1>0, <1>1, <1>2, <2>2 DEF MarkRunning, UpdateFails, Fault
  <2> QED
    BY <1>2, <2>1, <2>2 DEF MarkRunning
<1>3. CASE GateRejects(r)
  BY <1>0, <1>1, <1>3 DEF GateRejects, Statuses
<1>4. CASE GateAcquires(r)
  BY <1>0, <1>4 DEF GateAcquires
<1>5. CASE GateDefers(r)
  BY <1>0, <1>1, <1>5 DEF GateDefers, Statuses
<1>6. CASE VMStarts(r)
  BY <1>0, <1>6 DEF VMStarts
<1>7. CASE VMFails(r)
  BY <1>0, <1>1, <1>7 DEF VMFails, Statuses
<1>8. CASE GuestReady(r)
  BY <1>0, <1>8 DEF GuestReady
<1>9. CASE GuestOrWorkflowErrors(r)
  BY <1>0, <1>1, <1>9 DEF GuestOrWorkflowErrors, Statuses
<1>10. CASE Verdict(r)
  BY <1>0, <1>1, <1>10 DEF Verdict, Statuses
<1>11. CASE Teardown(r)
  BY <1>0, <1>11 DEF Teardown
<1>12. CASE FreeResources(r)
  BY <1>0, <1>12 DEF FreeResources
<1>13. CASE RunCancel(r)
  BY <1>0, <1>13 DEF RunCancel
<1> QED
  BY <1>2, <1>3, <1>4, <1>5, <1>6, <1>7, <1>8, <1>9, <1>10, <1>11, <1>12, <1>13 DEF Execute

\* Every step keeps each run in one place.
LEMMA PlaceStep == PlaceInv /\ [Next]_vars => PlaceInv'
<1> SUFFICES ASSUME PlaceInv, [Next]_vars PROVE PlaceInv'
  OBVIOUS
<1> USE DEF PlaceInv, queueVars, apiVars, processVars, vmVars, hostVars
<1>0. /\ TypeOK /\ QueueDistinct /\ Apart /\ NewIsUnknown /\ DownIsEmpty
      /\ MaxFaults \in Nat /\ MaxRestarts \in Nat
  BY EngineAssumptions
<1>1. ASSUME queue' = queue PROVE QueueDistinct' /\ \A r \in Runs : InQueue(r)' <=> InQueue(r)
  BY <1>0, <1>1 DEF QueueDistinct, InQueue
<1>2. ASSUME NEW r \in Runs, SubmitCreate(r) PROVE PlaceInv'
  <2>1. TypeOK'
    BY <1>0, <1>2 DEF SubmitCreate, TypeOK, Statuses
  <2>2. Apart'
    BY <1>0, <1>1, <1>2 DEF SubmitCreate, Apart, TypeOK
  <2> QED
    BY <1>0, <1>1, <1>2, <2>1, <2>2 DEF SubmitCreate, NewIsUnknown, DownIsEmpty, TypeOK
<1>3. ASSUME NEW r \in Runs, SubmitEnqueue(r) PROVE PlaceInv'
  <2>1. /\ queue' \in Seq(Runs) /\ QueueDistinct'
        /\ \A s \in Runs : InQueue(s)' <=> (InQueue(s) \/ s = r)
    BY <1>0, <1>3, EnqueueProperties DEF SubmitEnqueue, RQEnqueue, Apart, TypeOK
  <2>2. TypeOK'
    BY <1>0, <1>3, <2>1 DEF SubmitEnqueue, RQEnqueue, TypeOK
  <2>3. Apart'
    BY <1>0, <1>3, <2>1 DEF SubmitEnqueue, Apart, TypeOK
  <2>4. NewIsUnknown' /\ DownIsEmpty'
    BY <1>0, <1>3 DEF SubmitEnqueue, NewIsUnknown, DownIsEmpty, TypeOK
  <2> QED
    BY <2>1, <2>2, <2>3, <2>4
<1>4. ASSUME NEW r \in Runs, CancelCheck(r) \/ CancelWrite(r) PROVE PlaceInv'
  <2>1. TypeOK'
    BY <1>0, <1>4 DEF CancelCheck, CancelWrite, Updated, Fault, TypeOK, Statuses
  <2>2. Apart' /\ DownIsEmpty'
    BY <1>0, <1>1, <1>4 DEF CancelCheck, CancelWrite, Apart, DownIsEmpty
  <2>3. NewIsUnknown'
    BY <1>0, <1>4 DEF CancelCheck, CancelWrite, Updated, Fault, Unfinished, NewIsUnknown, TypeOK
  <2> QED
    BY <1>1, <1>4, <2>1, <2>2, <2>3 DEF CancelCheck, CancelWrite
<1>5. ASSUME NEW r \in Runs, Dispatch(r) PROVE PlaceInv'
  <2>1. /\ r = Head(queue) /\ InQueue(r) /\ queue' \in Seq(Runs) /\ QueueDistinct'
        /\ \A s \in Runs : InQueue(s)' <=> (InQueue(s) /\ s # r)
    BY <1>0, <1>5, DequeueProperties DEF Dispatch, RQDispatch, Dispatchable, TypeOK
  <2>2. TypeOK'
    BY <1>0, <1>5, <2>1 DEF Dispatch, RQDispatch, Goto, TypeOK, Stages
  <2>3. Apart'
    BY <1>0, <1>5, <2>1 DEF Dispatch, Goto, Apart, TypeOK
  <2>4. NewIsUnknown' /\ DownIsEmpty'
    BY <1>0, <1>5 DEF Dispatch, RQDispatch, Dispatchable, NewIsUnknown, DownIsEmpty
  <2> QED
    BY <2>1, <2>2, <2>3, <2>4
<1>6. ASSUME NEW r \in Runs, Execute(r) PROVE PlaceInv'
  <2>1. PICK stage \in Stages \cup {"idle"} :
          /\ pc' = [pc EXCEPT ![r] = stage]
          /\ stage # "idle" => releasing' = releasing /\ expired' = expired /\ deferred' = deferred
          /\ stage = "idle" =>
               /\ releasing' = releasing + 1
               /\ expired' = expired \ {r}
               /\ deferred' \in {deferred, deferred \cup {r}}
          /\ store' = store \/ \E s \in Statuses : store' = [store EXCEPT ![r] = s]
          /\ budget' = budget \/ TryAcquire(alloc) \/ Release(alloc)
    BY <1>0, <1>6, ExecuteShape
  <2>2. /\ UNCHANGED <<queueVars, apiVars, processVars, interrupted>>
        /\ pc[r] # "idle" /\ faults' \in 0..MaxFaults
        /\ survivors' = survivors /\ vms' \subseteq vms \cup {r}
    BY <1>0, <1>6, ExecuteShape
  <2>3. budget' \in ResourceBudget
    BY <1>0, <2>1, AcquireProperties, ReleaseProperties DEF TypeOK
  <2>4. TypeOK'
    BY <1>0, <2>1, <2>2, <2>3 DEF TypeOK
  <2>5. Apart'
    BY <1>0, <1>1, <2>1, <2>2 DEF Apart, TypeOK
  <2>6. NewIsUnknown' /\ DownIsEmpty'
    BY <1>0, <2>1, <2>2 DEF NewIsUnknown, DownIsEmpty, Apart, TypeOK
  <2> QED
    BY <1>1, <2>2, <2>4, <2>5, <2>6
<1>7. ASSUME NEW r \in Runs, Resubmit(r) PROVE PlaceInv'
  <2>1. CASE shut
    <3>1. TypeOK'
      BY <1>0, <1>7, <2>1 DEF Resubmit, TypeOK
    <3> QED
      BY <1>0, <1>1, <1>7, <2>1, <3>1 DEF Resubmit, Apart, NewIsUnknown, DownIsEmpty
  <2>2. CASE ~shut
    <3>1. /\ queue' \in Seq(Runs) /\ QueueDistinct'
          /\ \A s \in Runs : InQueue(s)' <=> (InQueue(s) \/ s = r)
      BY <1>0, <1>7, <2>2, EnqueueProperties DEF Resubmit, RQEnqueue, Apart, TypeOK
    <3>2. TypeOK'
      BY <1>0, <1>7, <2>2, <3>1 DEF Resubmit, RQEnqueue, TypeOK
    <3>3. Apart'
      BY <1>0, <1>7, <3>1 DEF Resubmit, Apart, TypeOK
    <3>4. NewIsUnknown' /\ DownIsEmpty'
      BY <1>0, <1>7, <2>2 DEF Resubmit, NewIsUnknown, DownIsEmpty
    <3> QED
      BY <3>1, <3>2, <3>3, <3>4
  <2> QED
    BY <2>1, <2>2
<1>8. ASSUME NEW r \in Runs, TimeOut(r) PROVE PlaceInv'
  <2>1. TypeOK'
    BY <1>0, <1>8 DEF TimeOut, TypeOK
  <2> QED
    BY <1>0, <1>1, <1>8, <2>1 DEF TimeOut, Apart, NewIsUnknown, DownIsEmpty
<1>9. ASSUME NEW r \in Runs, RecoverRun(r) PROVE PlaceInv'
  <2>1. submit[r] = "submitted" /\ phase # "down"
    BY <1>0, <1>9 DEF RecoverRun, Apart, DownIsEmpty, TypeOK
  <2>2. /\ queue' \in Seq(Runs) /\ QueueDistinct'
        /\ \/ \A s \in Runs : InQueue(s)' <=> (InQueue(s) \/ s = r)
           \/ \A s \in Runs : InQueue(s)' <=> InQueue(s)
    BY <1>0, <1>1, <1>9, EnqueueProperties DEF RecoverRun, RQEnqueue, Apart, TypeOK
  <2>3. TypeOK'
    BY <1>0, <1>9, <2>2 DEF RecoverRun, RQEnqueue, Updated, Fault, TypeOK, Statuses
  <2>4. Apart'
    BY <1>0, <1>9, <2>1, <2>2 DEF RecoverRun, Apart, TypeOK
  <2>5. NewIsUnknown' /\ DownIsEmpty'
    BY <1>0, <1>9, <2>1 DEF RecoverRun, Updated, Fault, NewIsUnknown, DownIsEmpty, TypeOK
  <2> QED
    BY <2>2, <2>3, <2>4, <2>5
<1>10. ASSUME FreeSlot \/ Drain \/ Stop \/ WorkerExit \/ Start PROVE PlaceInv'
  <2>1. TypeOK'
    <3>1. CASE FreeSlot
      BY <1>0, <3>1 DEF FreeSlot, RQRelease, TypeOK
    <3>2. CASE Drain \/ Stop \/ WorkerExit \/ Start
      BY <1>0, <3>2 DEF Drain, Stop, RQClose, WorkerExit, Start, TypeOK
    <3> QED
      BY <1>10, <3>1, <3>2
  <2>2. /\ UNCHANGED <<queue, store, pc, deferred, toRecover, submit, cancel>>
        /\ phase' = "down" => phase = "down"
    BY <1>10 DEF FreeSlot, RQRelease, Drain, Stop, RQClose, WorkerExit, Start
  <2> QED
    BY <1>0, <1>1, <2>1, <2>2 DEF Apart, NewIsUnknown, DownIsEmpty
<1>11. ASSUME ProcessEnds PROVE PlaceInv'
  <2>1. queue' = << >> /\ queue' \in Seq(Runs) /\ Len(queue') = 0
    BY <1>11, EmptySeq DEF ProcessEnds
  <2>2. QueueDistinct' /\ \A r \in Runs : ~InQueue(r)'
    BY <2>1 DEF QueueDistinct, InQueue
  <2>3. budget' \in ResourceBudget
    BY <1>11, EngineAssumptions DEF ProcessEnds, NewResourceAllocator, ResourceBudget
  <2>4. TypeOK'
    <3>1. Cardinality(vms) \in Nat
      BY <1>0, EngineAssumptions, FS_Subset, FS_CardinalityType DEF TypeOK
    <3>2. survivors' \in Nat /\ vms' \subseteq Runs
      BY <1>0, <1>11, <3>1 DEF ProcessEnds, TypeOK
    <3> QED
      BY <1>0, <1>11, <2>1, <2>3, <3>2 DEF ProcessEnds, TypeOK
  <2>5. Apart' /\ NewIsUnknown' /\ DownIsEmpty'
    BY <1>0, <1>11, <2>2 DEF ProcessEnds, Apart, NewIsUnknown, DownIsEmpty, TypeOK
  <2> QED
    BY <2>2, <2>4, <2>5
<1>12. ASSUME Restart PROVE PlaceInv'
  <2>1. TypeOK'
    BY <1>0, <1>12 DEF Restart, Fault, ListRunningTestRuns, TypeOK
  <2>2. /\ queue = << >> /\ deferred = {}
        /\ \A r \in Runs : pc[r] = "idle" /\ submit[r] # "created" /\ ~InQueue(r)
    <3>1. /\ queue = << >> /\ deferred = {}
          /\ \A r \in Runs : pc[r] = "idle" /\ submit[r] # "created"
      BY <1>0, <1>12 DEF Restart, DownIsEmpty
    <3> QED
      BY <3>1, EmptyQueue
  <2>3. \A r \in toRecover' : r \in Runs /\ submit[r] = "submitted"
    BY <1>0, <1>12, <2>2
    DEF Restart, ListRunningTestRuns, Unfinished, NewIsUnknown, TypeOK
  <2>4. Apart'
    BY <1>1, <1>12, <2>2, <2>3 DEF Restart, Apart
  <2>5. NewIsUnknown' /\ DownIsEmpty'
    BY <1>0, <1>12 DEF Restart, Fault, NewIsUnknown, DownIsEmpty
  <2> QED
    BY <1>1, <1>12, <2>1, <2>4, <2>5 DEF Restart
<1>13. CASE UNCHANGED vars
  BY <1>0, <1>1, <1>13 DEF vars, TypeOK, Apart, NewIsUnknown, DownIsEmpty
<1>14. CASE SurvivorEnds
  BY <1>0, <1>1, <1>14 DEF SurvivorEnds, TypeOK, Apart, NewIsUnknown, DownIsEmpty
<1> QED
  BY <1>2, <1>3, <1>4, <1>5, <1>6, <1>7, <1>8, <1>9, <1>10, <1>11, <1>12, <1>13, <1>14
  DEF Next, Exit, Crash

CountInv ==
  /\ SlotsMatchExecutions
  /\ BudgetIsExact
  /\ budget.TotalCPUs = HostCPUs /\ budget.TotalMemMB = HostMemMB

\* Sets of runs are finite, and grow and shrink by one.
LEMMA CountRuns ==
  ASSUME NEW S, S \subseteq Runs, NEW r \in Runs
  PROVE  /\ Cardinality(S) \in Nat
         /\ r \notin S => Cardinality(S \cup {r}) = Cardinality(S) + 1
         /\ r \in S => Cardinality(S) > 0 /\ Cardinality(S \ {r}) = Cardinality(S) - 1
<1>1. IsFiniteSet(S)
  BY EngineAssumptions, FS_Subset
<1>2. Cardinality(S) \in Nat
  BY <1>1, FS_CardinalityType
<1>3. r \notin S => Cardinality(S \cup {r}) = Cardinality(S) + 1
  BY <1>1, FS_AddElement
<1>4. ASSUME r \in S PROVE Cardinality(S) > 0 /\ Cardinality(S \ {r}) = Cardinality(S) - 1
  <2>1. Cardinality(S \ {r}) = Cardinality(S) - 1
    BY <1>1, <1>4, FS_RemoveElement
  <2>2. S # {}
    BY <1>4
  <2>3. Cardinality(S) # 0
    BY <1>1, <2>2, FS_EmptySet
  <2> QED
    BY <1>2, <2>1, <2>3
<1> QED
  BY <1>2, <1>3, <1>4

LEMMA TimesNext ==
  ASSUME NEW a \in Nat, NEW n \in Nat
  PROVE  a * n \in Nat /\ a * (n + 1) = a * n + a
OBVIOUS

\* Every step keeps the counters equal to what they count.
LEMMA CountStep == PlaceInv /\ CountInv /\ [Next]_vars => CountInv'
<1> SUFFICES ASSUME PlaceInv, CountInv, [Next]_vars PROVE CountInv'
  OBVIOUS
<1>0. /\ TypeOK /\ Apart /\ budget \in ResourceBudget
      /\ VMCPUs \in Nat /\ VMMemMB \in Nat /\ HostCPUs \in Nat /\ HostMemMB \in Nat
      /\ activeCount \in Nat /\ releasing \in Nat
      /\ pc \in [Runs -> Stages \cup {"idle"}]
      /\ Executing \subseteq Runs /\ Holders \subseteq Runs
  BY EngineAssumptions DEF PlaceInv, TypeOK, Executing, Holders
<1>1. ASSUME UNCHANGED <<pc, budget>>, activeCount' - releasing' = activeCount - releasing,
             activeCount' \in Nat, releasing' \in Nat
      PROVE  CountInv'
  <2>1. Executing' = Executing /\ Holders' = Holders
    BY <1>1 DEF Executing, Holders
  <2>2. SlotsMatchExecutions'
    <3>1. Cardinality(Executing) \in Nat
      BY <1>0, EngineAssumptions, FS_Subset, FS_CardinalityType
    <3> QED
      BY <1>0, <1>1, <2>1, <3>1 DEF CountInv, SlotsMatchExecutions
  <2> QED
    BY <1>1, <2>1, <2>2 DEF CountInv, BudgetIsExact
<1>2. ASSUME NEW r \in Runs, Dispatch(r) PROVE CountInv'
  <2>1. /\ pc[r] = "idle" /\ pc' = [pc EXCEPT ![r] = "start"]
        /\ UNCHANGED <<budget, releasing>> /\ activeCount' = activeCount + 1
    BY <1>0, <1>2, DequeueProperties
    DEF PlaceInv, Dispatch, RQDispatch, Dispatchable, Goto, Apart, TypeOK, hostVars
  <2>2. Executing' = Executing \cup {r} /\ r \notin Executing /\ Holders' = Holders
    BY <1>0, <2>1 DEF Executing, Holders
  <2>3. SlotsMatchExecutions'
    BY <1>0, <2>1, <2>2, CountRuns DEF CountInv, SlotsMatchExecutions
  <2> QED
    BY <2>1, <2>2, <2>3 DEF CountInv, BudgetIsExact
<1>3. ASSUME NEW r \in Runs, Execute(r) PROVE CountInv'
  <2>1. PICK stage \in Stages \cup {"idle"} :
          /\ pc' = [pc EXCEPT ![r] = stage]
          /\ releasing' = IF stage = "idle" THEN releasing + 1 ELSE releasing
          /\ \/ /\ budget' = budget
                /\ pc[r] \in {"start", "gate"} => stage \in {"gate", "idle"}
                /\ pc[r] \in {"vm", "guest", "tests", "teardown"} =>
                     stage \in {"guest", "tests", "teardown", "free"}
                /\ pc[r] = "cancel" => stage = "idle"
                /\ pc[r] # "free"
             \/ pc[r] = "gate" /\ stage = "vm" /\ TryAcquire(alloc)
             \/ pc[r] = "free" /\ stage \in {"cancel", "idle"} /\ Release(alloc)
    BY <1>0, <1>3, ExecuteShape
  <2>2. pc[r] # "idle" /\ activeCount' = activeCount
    BY <1>0, <1>3, ExecuteShape DEF queueVars
  <2>3. SlotsMatchExecutions'
    <3>1. r \in Executing
      BY <2>2 DEF Executing
    <3>2. CASE stage = "idle"
      <4>1. Executing' = Executing \ {r}
        BY <1>0, <2>1, <3>2 DEF Executing
      <4> QED
        BY <1>0, <2>1, <2>2, <3>1, <3>2, <4>1, CountRuns DEF CountInv, SlotsMatchExecutions
    <3>3. CASE stage # "idle"
      <4>1. Executing' = Executing
        BY <1>0, <2>1, <2>2, <3>3 DEF Executing
      <4> QED
        BY <2>1, <2>2, <3>3, <4>1 DEF CountInv, SlotsMatchExecutions
    <3> QED
      BY <3>2, <3>3
  <2>4. CASE budget' = budget /\ (r \in Holders <=> stage \in {"vm", "guest", "tests", "teardown", "free"})
    <3>1. Holders' = Holders
      BY <1>0, <2>1, <2>4 DEF Holders
    <3> QED
      BY <2>3, <2>4, <3>1 DEF CountInv, BudgetIsExact
  <2>5. CASE pc[r] = "gate" /\ stage = "vm" /\ TryAcquire(alloc)
    <3>1. Holders' = Holders \cup {r} /\ r \notin Holders
      BY <1>0, <2>1, <2>5 DEF Holders
    <3>2. Cardinality(Holders) \in Nat /\ Cardinality(Holders') = Cardinality(Holders) + 1
      BY <1>0, <3>1, CountRuns
    <3>3. /\ VMCPUs * Cardinality(Holders') = VMCPUs * Cardinality(Holders) + VMCPUs
          /\ VMMemMB * Cardinality(Holders') = VMMemMB * Cardinality(Holders) + VMMemMB
      BY <1>0, <3>2, TimesNext
    <3> QED
      BY <1>0, <2>3, <2>5, <3>3, AcquireProperties DEF CountInv, BudgetIsExact
  <2>6. CASE pc[r] = "free" /\ stage \in {"cancel", "idle"} /\ Release(alloc)
    <3>1. Holders' = Holders \ {r} /\ r \in Holders
      BY <1>0, <2>1, <2>6 DEF Holders
    <3>2. Cardinality(Holders') \in Nat /\ Cardinality(Holders) = Cardinality(Holders') + 1
      <4>1. Cardinality(Holders) \in Nat /\ Cardinality(Holders) > 0
        BY <1>0, <3>1, CountRuns
      <4>2. Cardinality(Holders') = Cardinality(Holders) - 1
        BY <1>0, <3>1, CountRuns
      <4> QED
        BY <4>1, <4>2
    <3>3. /\ VMCPUs * Cardinality(Holders) = VMCPUs * Cardinality(Holders') + VMCPUs
          /\ VMMemMB * Cardinality(Holders) = VMMemMB * Cardinality(Holders') + VMMemMB
          /\ VMCPUs * Cardinality(Holders') \in Nat /\ VMMemMB * Cardinality(Holders') \in Nat
      BY <1>0, <3>2, TimesNext
    <3>4. /\ budget'.TotalCPUs = HostCPUs /\ budget'.TotalMemMB = HostMemMB
          /\ budget'.UsedCPUs = Minus(VMCPUs * Cardinality(Holders), VMCPUs)
          /\ budget'.UsedMemMB = Minus(VMMemMB * Cardinality(Holders), VMMemMB)
          /\ VMCPUs * Cardinality(Holders) <= HostCPUs
          /\ VMMemMB * Cardinality(Holders) <= HostMemMB
      BY <1>0, <2>6, ReleaseProperties DEF CountInv, BudgetIsExact
    <3>5. /\ budget'.UsedCPUs = VMCPUs * Cardinality(Holders')
          /\ budget'.UsedMemMB = VMMemMB * Cardinality(Holders')
      BY <1>0, <3>3, <3>4 DEF Minus
    <3>6. /\ VMCPUs * Cardinality(Holders') <= HostCPUs
          /\ VMMemMB * Cardinality(Holders') <= HostMemMB
      BY <1>0, <3>3, <3>4
    <3> QED
      BY <2>3, <3>4, <3>5, <3>6 DEF CountInv, BudgetIsExact
  <2> QED
    BY <1>0, <2>1, <2>2, <2>4, <2>5, <2>6 DEF Holders, Stages
<1>4. ASSUME ProcessEnds PROVE CountInv'
  <2>1. Executing' = {} /\ Holders' = {}
    BY <1>4 DEF ProcessEnds, Executing, Holders
  <2>2. Cardinality(Executing') = 0 /\ Cardinality(Holders') = 0
    BY <2>1, FS_EmptySet
  <2>3. activeCount' = 0 /\ releasing' = 0 /\ budget' = NewResourceAllocator(HostCPUs, HostMemMB)
    BY <1>4 DEF ProcessEnds
  <2> QED
    BY <1>0, <2>2, <2>3
    DEF ProcessEnds, NewResourceAllocator, CountInv, SlotsMatchExecutions, BudgetIsExact
<1>5. ASSUME FreeSlot PROVE CountInv'
  BY <1>0, <1>1, <1>5 DEF FreeSlot, RQRelease, hostVars
<1>6. ASSUME NEW r \in Runs,
             \/ SubmitCreate(r) \/ SubmitEnqueue(r) \/ CancelCheck(r) \/ CancelWrite(r)
             \/ Resubmit(r) \/ TimeOut(r) \/ RecoverRun(r)
      PROVE  CountInv'
  <2>1. UNCHANGED <<pc, budget, activeCount, releasing>>
    BY <1>6 DEF SubmitCreate, SubmitEnqueue, CancelCheck, CancelWrite, Resubmit, TimeOut,
                RecoverRun, RQEnqueue, queueVars, hostVars
  <2> QED
    BY <1>0, <1>1, <2>1
<1>7. ASSUME Drain \/ Stop \/ WorkerExit \/ Restart \/ Start \/ SurvivorEnds \/ UNCHANGED vars PROVE CountInv'
  <2>1. UNCHANGED <<pc, budget, activeCount, releasing>>
    BY <1>7 DEF Drain, Stop, RQClose, WorkerExit, Restart, Start, SurvivorEnds, queueVars, hostVars, vars
  <2> QED
    BY <1>0, <1>1, <2>1
<1> QED
  BY <1>2, <1>3, <1>4, <1>5, <1>6, <1>7 DEF Next, Exit, Crash

\* QEMU runs for an execution that is past StartVM and not past runCancel.
VMsAreExecuted == \A r \in vms : pc[r] \in {"guest", "tests", "teardown", "free", "cancel"}

LEMMA VMStep == PlaceInv /\ VMsAreExecuted /\ [Next]_vars => VMsAreExecuted'
<1> SUFFICES ASSUME PlaceInv, VMsAreExecuted, [Next]_vars, NEW r \in vms'
             PROVE  pc'[r] \in {"guest", "tests", "teardown", "free", "cancel"}
  BY DEF VMsAreExecuted
<1> USE DEF vmVars, hostVars
<1>0. TypeOK /\ QueueDistinct /\ Apart
  BY DEF PlaceInv
<1>1. ASSUME NEW s \in Runs, Execute(s)
      PROVE  pc'[r] \in {"guest", "tests", "teardown", "free", "cancel"}
  <2>1. PICK stage \in Stages \cup {"idle"} :
          /\ pc' = [pc EXCEPT ![s] = stage]
          /\ s \in vms' => \/ pc[s] \in {"start", "gate"} /\ s \in vms
                          \/ stage \in {"guest", "tests", "teardown", "free", "cancel"}
    BY <1>0, <1>1, ExecuteShape
  <2>2. vms' \subseteq vms \cup {s}
    BY <1>0, <1>1, ExecuteShape
  <2> QED
    BY <1>0, <2>1, <2>2 DEF VMsAreExecuted, TypeOK
<1>2. ASSUME NEW s \in Runs, Dispatch(s)
      PROVE  pc'[r] \in {"guest", "tests", "teardown", "free", "cancel"}
  <2>1. pc[s] = "idle" /\ vms' = vms /\ pc' = [pc EXCEPT ![s] = "start"]
    BY <1>0, <1>2, DequeueProperties DEF Dispatch, RQDispatch, Dispatchable, Goto, Apart, TypeOK
  <2> QED
    BY <1>0, <2>1 DEF VMsAreExecuted, TypeOK
<1>3. ASSUME NEW s \in Runs,
             \/ SubmitCreate(s) \/ SubmitEnqueue(s) \/ CancelCheck(s) \/ CancelWrite(s)
             \/ Resubmit(s) \/ TimeOut(s) \/ RecoverRun(s)
      PROVE  UNCHANGED <<pc, vms>>
  BY <1>3 DEF SubmitCreate, SubmitEnqueue, CancelCheck, CancelWrite, Resubmit, TimeOut, RecoverRun
<1>4. ASSUME \/ FreeSlot \/ Drain \/ Stop \/ WorkerExit \/ Restart \/ Start \/ SurvivorEnds
             \/ UNCHANGED vars
      PROVE  UNCHANGED <<pc, vms>>
  BY <1>4 DEF FreeSlot, Drain, Stop, WorkerExit, Restart, Start, SurvivorEnds, vars
<1>5. ~ProcessEnds
  BY DEF ProcessEnds
<1> QED
  BY <1>1, <1>2, <1>3, <1>4, <1>5 DEF Next, Exit, Crash, VMsAreExecuted

\* Every step keeps runs with a verdict out of the places from which they would get another.
LEMMA VerdictStep == PlaceInv /\ VerdictIsLast /\ [Next]_vars => VerdictIsLast'
<1> SUFFICES ASSUME PlaceInv, VerdictIsLast, [Next]_vars,
                    NEW r \in Runs, HasVerdict(r)'
             PROVE  /\ submit'[r] = "submitted" /\ ~InQueue(r)'
                    /\ r \notin deferred' /\ r \notin toRecover'
                    /\ pc'[r] \in {"teardown", "free", "cancel", "idle"}
  BY DEF VerdictIsLast
<1> USE DEF queueVars, apiVars, processVars, hostVars
<1>0. TypeOK /\ QueueDistinct /\ Apart /\ NewIsUnknown
  BY DEF PlaceInv
<1>1. HasVerdict(r) =>
        /\ submit[r] = "submitted" /\ ~InQueue(r) /\ r \notin deferred /\ r \notin toRecover
        /\ pc[r] \in {"teardown", "free", "cancel", "idle"}
  BY DEF VerdictIsLast
<1>2. queue' = queue => (InQueue(r)' <=> InQueue(r))
  BY DEF InQueue
<1>3. ASSUME NEW s \in Runs, SubmitCreate(s) \/ SubmitEnqueue(s) PROVE HasVerdict(r) /\ s # r
  BY <1>0, <1>1, <1>3 DEF SubmitCreate, SubmitEnqueue, HasVerdict, NewIsUnknown, TypeOK
<1>4. ASSUME NEW s \in Runs, ~InQueue(s), queue' = Append(queue, s), s # r
      PROVE  InQueue(r)' <=> InQueue(r)
  BY <1>0, <1>4, EnqueueProperties DEF TypeOK
<1>5. CASE \E s \in Runs : SubmitCreate(s) \/ SubmitEnqueue(s)
  <2>1. PICK s \in Runs : SubmitCreate(s) \/ SubmitEnqueue(s)
    BY <1>5
  <2>2. HasVerdict(r) /\ s # r
    BY <1>3, <2>1
  <2>3. InQueue(r)' <=> InQueue(r)
    BY <1>0, <1>2, <1>4, <2>1, <2>2 DEF SubmitCreate, SubmitEnqueue, RQEnqueue, Apart
  <2> QED
    BY <1>0, <1>1, <2>1, <2>2, <2>3 DEF SubmitCreate, SubmitEnqueue, TypeOK
<1>6. CASE \E s \in Runs : CancelCheck(s) \/ CancelWrite(s) \/ TimeOut(s)
  <2>1. /\ UNCHANGED <<queue, submit, pc, deferred, toRecover>>
        /\ HasVerdict(r)
    BY <1>0, <1>6 DEF CancelCheck, CancelWrite, TimeOut, Updated, Fault, HasVerdict, TypeOK
  <2> QED
    BY <1>1, <1>2, <2>1
<1>7. CASE \E s \in Runs : Dispatch(s)
  <2>1. PICK s \in Runs : Dispatch(s)
    BY <1>7
  <2>2. InQueue(s) /\ (InQueue(r)' <=> (InQueue(r) /\ r # s))
    BY <1>0, <2>1, DequeueProperties DEF Dispatch, RQDispatch, Dispatchable, TypeOK
  <2>3. HasVerdict(r) /\ s # r
    BY <1>1, <2>1, <2>2 DEF Dispatch, HasVerdict
  <2> QED
    BY <1>0, <1>1, <2>1, <2>2, <2>3 DEF Dispatch, Goto, TypeOK
<1>8. CASE \E s \in Runs : Execute(s)
  <2>1. PICK s \in Runs : Execute(s)
    BY <1>8
  <2>2. PICK stage \in Stages \cup {"idle"} :
          /\ pc' = [pc EXCEPT ![s] = stage]
          /\ deferred' = deferred \/ (pc[s] = "gate" /\ stage = "idle" /\ deferred' = deferred \cup {s})
          /\ \/ store' = store
             \/ /\ pc[s] \in {"start", "gate", "vm", "guest", "tests"}
                /\ \E v \in Statuses :
                     /\ store' = [store EXCEPT ![s] = v]
                     /\ v \in {"PASSED", "FAILED"} => stage = "teardown"
          /\ pc[s] \in {"teardown", "free", "cancel"} => stage \in {"teardown", "free", "cancel", "idle"}
    BY <1>0, <2>1, ExecuteShape DEF Stages
  <2>3. UNCHANGED <<queue, submit, toRecover>> /\ pc[s] # "idle"
    BY <1>0, <2>1, ExecuteShape
  <2>4. CASE s # r
    <3>1. HasVerdict(r)
      BY <1>0, <2>2, <2>4 DEF HasVerdict, TypeOK
    <3> QED
      BY <1>0, <1>1, <1>2, <2>2, <2>3, <2>4, <3>1 DEF TypeOK
  <2>5. CASE s = r /\ HasVerdict(r)
    BY <1>0, <1>1, <1>2, <2>2, <2>3, <2>5 DEF TypeOK
  <2>6. CASE s = r /\ ~HasVerdict(r)
    <3>1. stage = "teardown"
      BY <1>0, <2>2, <2>6 DEF HasVerdict, TypeOK
    <3> QED
      BY <1>0, <1>2, <2>2, <2>3, <2>6, <3>1 DEF Apart, TypeOK
  <2> QED
    BY <2>4, <2>5, <2>6
<1>9. CASE \E s \in Runs : Resubmit(s)
  <2>1. PICK s \in Runs : Resubmit(s)
    BY <1>9
  <2>2. HasVerdict(r) /\ s # r
    BY <1>1, <2>1 DEF Resubmit, HasVerdict
  <2>3. InQueue(r)' <=> InQueue(r)
    BY <1>0, <1>2, <1>4, <2>1, <2>2 DEF Resubmit, RQEnqueue, Apart
  <2> QED
    BY <1>1, <2>1, <2>2, <2>3 DEF Resubmit
<1>10. CASE \E s \in Runs : RecoverRun(s)
  <2>1. PICK s \in Runs : RecoverRun(s)
    BY <1>10
  <2>2. HasVerdict(r) /\ s # r
    BY <1>0, <1>1, <2>1 DEF RecoverRun, Updated, Fault, HasVerdict, TypeOK
  <2>3. InQueue(r)' <=> InQueue(r)
    BY <1>0, <1>2, <1>4, <2>1, <2>2 DEF RecoverRun, RQEnqueue, Apart
  <2> QED
    BY <1>1, <2>1, <2>2, <2>3 DEF RecoverRun
<1>11. CASE ProcessEnds
  <2>1. HasVerdict(r)
    BY <1>11 DEF ProcessEnds, HasVerdict
  <2>2. ~InQueue(r)'
    BY <1>11 DEF ProcessEnds, InQueue
  <2> QED
    BY <1>0, <1>1, <1>11, <2>1, <2>2 DEF ProcessEnds, TypeOK
<1>12. CASE Restart
  BY <1>0, <1>1, <1>2, <1>12
  DEF Restart, Fault, ListRunningTestRuns, Unfinished, HasVerdict
<1>13. CASE FreeSlot \/ Drain \/ Stop \/ WorkerExit \/ Start \/ SurvivorEnds \/ UNCHANGED vars
  <2>1. UNCHANGED <<queue, store, submit, pc, deferred, toRecover>>
    BY <1>13 DEF FreeSlot, RQRelease, Drain, Stop, RQClose, WorkerExit, Start, SurvivorEnds, vars
  <2> QED
    BY <1>1, <1>2, <2>1 DEF HasVerdict
<1> QED
  BY <1>5, <1>6, <1>7, <1>8, <1>9, <1>10, <1>11, <1>12, <1>13 DEF Next, Exit, Crash

EngineInv == PlaceInv /\ CountInv /\ VMsAreExecuted /\ VerdictIsLast

LEMMA EngineInit == Init => EngineInv
<1> SUFFICES ASSUME Init PROVE EngineInv
  OBVIOUS
<1>1. queue \in Seq(Runs) /\ QueueDistinct /\ \A r \in Runs : ~InQueue(r)
  BY EmptySeq DEF Init, RQInit, QueueDistinct, InQueue
<1>2. budget \in ResourceBudget
  BY EngineAssumptions DEF Init, NewResourceAllocator, ResourceBudget
<1>3. TypeOK
  <2>1. /\ store \in [Runs -> Statuses \cup {"none"}]
        /\ pc \in [Runs -> Stages \cup {"idle"}]
        /\ submit \in [Runs -> {"new", "created", "submitted"}]
        /\ cancel \in [Runs -> {"none", "checked", "acknowledged"}]
    BY DEF Init
  <2>2. activeCount \in Nat /\ releasing \in Nat /\ restarts \in 0..MaxRestarts /\ faults \in 0..MaxFaults
    BY EngineAssumptions DEF Init, RQInit
  <2>3. /\ shut \in BOOLEAN /\ workerUp \in BOOLEAN
        /\ phase \in {"up", "draining", "stopping", "down", "recovering", "panicked"}
        /\ deferred \subseteq Runs /\ expired \subseteq Runs
        /\ toRecover \subseteq Runs /\ interrupted \subseteq Runs
        /\ vms \subseteq Runs /\ survivors \in Nat
    BY DEF Init, RQInit
  <2> QED
    BY <1>1, <1>2, <2>1, <2>2, <2>3 DEF TypeOK
<1>4. Apart /\ NewIsUnknown /\ DownIsEmpty /\ VerdictIsLast
  <2>1. /\ phase = "up" /\ deferred = {} /\ toRecover = {}
        /\ \A r \in Runs : pc[r] = "idle" /\ store[r] = "none" /\ cancel[r] = "none"
    BY DEF Init
  <2> QED
    BY <1>1, <2>1 DEF Apart, NewIsUnknown, DownIsEmpty, VerdictIsLast, HasVerdict
<1>5. Executing = {} /\ Holders = {}
  BY DEF Init, Executing, Holders
<1>6. CountInv
  BY <1>5, FS_EmptySet, EngineAssumptions
  DEF Init, RQInit, NewResourceAllocator, CountInv, SlotsMatchExecutions, BudgetIsExact
<1>7. VMsAreExecuted
  BY DEF Init, VMsAreExecuted
<1> QED
  BY <1>1, <1>3, <1>4, <1>6, <1>7 DEF EngineInv, PlaceInv

\* The inductive invariant: places, counters, VMs and verdicts together.
THEOREM EngineInvariant == Spec => []EngineInv
<1>1. EngineInv /\ [Next]_vars => EngineInv'
  BY PlaceStep, CountStep, VMStep, VerdictStep DEF EngineInv
<1> QED
  BY EngineInit, <1>1, PTL DEF Spec

\* Type correctness of the engine.
THEOREM EngineTypeOK == Spec => []TypeOK
<1>1. EngineInv => TypeOK
  BY DEF EngineInv, PlaceInv
<1> QED
  BY EngineInvariant, <1>1, PTL

\* executeTestRun and its deferred Release free each slot exactly once, on every path.
THEOREM EngineSlots == Spec => []SlotsMatchExecutions
<1>1. EngineInv => SlotsMatchExecutions
  BY DEF EngineInv, CountInv
<1> QED
  BY EngineInvariant, <1>1, PTL

LEMMA TimesMonotonic ==
  ASSUME NEW a \in Nat, NEW m \in Nat, NEW n \in Nat, m <= n
  PROVE  a * m <= a * n
OBVIOUS

\* TryAcquire and Release account exactly for the executions between them, and the QEMU
\* processes fit the host, unless some outlived a crash or one waits for its runCancel.
THEOREM EngineHostNotOversubscribed == Spec => []HostNotOversubscribed
<1>1. EngineInv => HostNotOversubscribed
  <2> SUFFICES ASSUME EngineInv, \A r \in vms : pc[r] # "cancel"
               PROVE  /\ BudgetIsExact
                      /\ VMCPUs * Cardinality(vms) <= HostCPUs
                      /\ VMMemMB * Cardinality(vms) <= HostMemMB
    BY DEF HostNotOversubscribed, EngineInv, CountInv
  <2>1. BudgetIsExact
    BY DEF EngineInv, CountInv
  <2>2. vms \subseteq Holders /\ Holders \subseteq Runs
    BY DEF EngineInv, PlaceInv, TypeOK, VMsAreExecuted, Holders
  <2>3. IsFiniteSet(Holders)
    BY <2>2, EngineAssumptions, FS_Subset
  <2>4. /\ Cardinality(vms) \in Nat /\ Cardinality(Holders) \in Nat
        /\ Cardinality(vms) <= Cardinality(Holders)
    BY <2>2, <2>3, FS_Subset, FS_CardinalityType
  <2>5. /\ VMCPUs \in Nat /\ VMMemMB \in Nat /\ HostCPUs \in Nat /\ HostMemMB \in Nat
    BY EngineAssumptions
  <2>6. /\ VMCPUs * Cardinality(vms) <= VMCPUs * Cardinality(Holders)
        /\ VMMemMB * Cardinality(vms) <= VMMemMB * Cardinality(Holders)
    BY <2>4, <2>5, TimesMonotonic
  <2>7. /\ VMCPUs * Cardinality(Holders) <= HostCPUs /\ VMMemMB * Cardinality(Holders) <= HostMemMB
    BY <2>1 DEF BudgetIsExact
  <2>8. /\ VMCPUs * Cardinality(vms) \in Nat /\ VMMemMB * Cardinality(vms) \in Nat
        /\ VMCPUs * Cardinality(Holders) \in Nat /\ VMMemMB * Cardinality(Holders) \in Nat
    BY <2>4, <2>5, TimesNext
  <2> QED
    BY <2>1, <2>5, <2>6, <2>7, <2>8
<1> QED
  BY EngineInvariant, <1>1, PTL

\* A run is never submitted, queued, executed, deferred or recovered twice at once.
THEOREM EngineSingleOwner == Spec => []SingleOwner
<1>1. ASSUME PlaceInv PROVE SingleOwner
  <2> DEFINE Owns(r, p) == \/ p = "submit" /\ submit[r] # "submitted"
                           \/ p = "recover" /\ r \in toRecover
                           \/ p = "queue" /\ InQueue(r)
                           \/ p = "execute" /\ pc[r] # "idle"
                           \/ p = "defer" /\ r \in deferred
             Owners(r) == {p \in {"submit", "recover", "queue", "execute", "defer"} : Owns(r, p)}
  <2>1. ASSUME NEW r \in Runs PROVE Cardinality(Owners(r)) <= 1
    <3>1. \A p, q \in Owners(r) : p = q
      BY <1>1 DEF PlaceInv, Apart
    <3> HIDE DEF Owners
    <3>2. CASE Owners(r) = {}
      BY <3>2, FS_EmptySet
    <3>3. CASE Owners(r) # {}
      <4>1. PICK p : p \in Owners(r)
        BY <3>3
      <4>2. Owners(r) = {p}
        BY <3>1, <4>1
      <4> QED
        BY <4>2, FS_Singleton
    <3> QED
      BY <3>2, <3>3
  <2> QED
    BY <1>1, <2>1 DEF PlaceInv, QueueDistinct, SingleOwner
<1>2. EngineInv => SingleOwner
  BY <1>1 DEF EngineInv
<1> QED
  BY EngineInvariant, <1>2, PTL

\* Which step changes a status, and from where.
LEMMA StatusChange ==
  ASSUME EngineInv, [Next]_vars, NEW r \in Runs, store'[r] # store[r]
  PROVE  \/ submit[r] = "new"
         \/ cancel[r] = "checked" /\ store'[r] = "CANCELLED"
         \/ pc[r] \in {"start", "gate", "vm", "guest", "tests"}
         \/ store[r] = "RUNNING"
<1>0. TypeOK
  BY DEF EngineInv, PlaceInv
<1>1. ASSUME NEW s \in Runs, SubmitCreate(s) PROVE submit[r] = "new"
  BY <1>0, <1>1 DEF SubmitCreate, TypeOK
<1>2. ASSUME NEW s \in Runs, CancelWrite(s) PROVE cancel[r] = "checked" /\ store'[r] = "CANCELLED"
  BY <1>0, <1>2 DEF CancelWrite, Updated, Fault, TypeOK
<1>3. ASSUME NEW s \in Runs, Execute(s) PROVE pc[r] \in {"start", "gate", "vm", "guest", "tests"}
  <2>1. \/ store' = store
        \/ /\ pc[s] \in {"start", "gate", "vm", "guest", "tests"}
           /\ \E v \in Statuses : store' = [store EXCEPT ![s] = v]
    BY <1>0, <1>3, ExecuteShape
  <2> QED
    BY <1>0, <2>1 DEF TypeOK
<1>4. ASSUME NEW s \in Runs, RecoverRun(s) PROVE store[r] = "RUNNING"
  BY <1>0, <1>4 DEF RecoverRun, Updated, Fault, TypeOK
<1>5. ASSUME NEW s \in Runs,
             SubmitEnqueue(s) \/ CancelCheck(s) \/ Dispatch(s) \/ Resubmit(s) \/ TimeOut(s)
      PROVE  FALSE
  BY <1>5 DEF SubmitEnqueue, CancelCheck, Dispatch, Resubmit, TimeOut
<1>6. ~(FreeSlot \/ Drain \/ Stop \/ WorkerExit \/ ProcessEnds \/ Restart \/ Start \/ SurvivorEnds \/ UNCHANGED vars)
  BY DEF FreeSlot, Drain, Stop, WorkerExit, ProcessEnds, Restart, Fault, Start, SurvivorEnds, vars
<1> QED
  BY <1>1, <1>2, <1>3, <1>4, <1>5, <1>6 DEF Next, Exit, Crash

\* A verdict is replaced only by a cancellation that read the status before it was written.
THEOREM EngineVerdictFinal == Spec => VerdictFinal
<1>1. ASSUME EngineInv, [Next]_vars
      PROVE  \A r \in Runs :
               (store[r] \in {"PASSED", "FAILED"} /\ store'[r] # store[r]) =>
                 (store'[r] = "CANCELLED" /\ cancel[r] = "checked")
  BY <1>1, StatusChange DEF EngineInv, VerdictIsLast, HasVerdict
<1>2. EngineInv /\ [Next]_vars =>
        [ \A r \in Runs :
            (store[r] \in {"PASSED", "FAILED"} /\ store'[r] # store[r]) =>
              (store'[r] = "CANCELLED" /\ cancel[r] = "checked") ]_vars
  BY <1>1
<1> QED
  BY EngineInvariant, <1>2, PTL DEF Spec, VerdictFinal

\* An acknowledged cancellation is overwritten by the execution of its run and nothing else.
THEOREM EngineCancelHolds == Spec => CancelHolds
<1>1. ASSUME EngineInv, [Next]_vars
      PROVE  \A r \in Runs :
               (cancel[r] = "acknowledged" /\ store[r] = "CANCELLED" /\ store'[r] # "CANCELLED") =>
                 pc[r] # "idle"
  BY <1>1, StatusChange DEF EngineInv, PlaceInv, NewIsUnknown
<1>2. EngineInv /\ [Next]_vars =>
        [ \A r \in Runs :
            (cancel[r] = "acknowledged" /\ store[r] = "CANCELLED" /\ store'[r] # "CANCELLED") =>
              pc[r] # "idle" ]_vars
  BY <1>1
<1> QED
  BY EngineInvariant, <1>2, PTL DEF Spec, CancelHolds

----------------------------------------------------------------------------
(* Who finishes a run                                                      *)

\* Only Stop closes the scheduler, and only deadlines end a context before that.
ClosedByStop ==
  /\ shut => phase \in {"stopping", "panicked"}
  /\ expired \subseteq MayTimeOut

\* Past its last write, a run that no deadline cut off has a final status.
FinishedIsFinal ==
  faults = 0 /\ ~shut =>
    \A r \in Runs \ MayTimeOut : pc[r] \in {"teardown", "free", "cancel"} => store[r] \in Terminal

\* While nothing has gone wrong, an unfinished run has an owner from the start of recovery on.
UnfinishedIsOwned ==
  faults = 0 /\ phase \in {"up", "draining", "recovering"} =>
    \A r \in Runs \ MayTimeOut : store[r] \in Unfinished => Owned(r)

\* What the store says of a run that was interrupted and not started again since, and who
\* has it: recovery or the queue, or nobody if it was interrupted with ERRORED in its row.
InterruptedInv ==
  faults = 0 =>
    \A r \in interrupted :
      /\ store[r] \in Unfinished \cup {"ERRORED"}
      /\ pc[r] = "idle" /\ r \notin deferred
      /\ phase # "down" =>
           restarts > 0 /\ (r \in toRecover \/ InQueue(r) \/ (restarts > 1 /\ store[r] = "ERRORED"))
      /\ phase = "down" /\ restarts = 0 => store[r] \in Unfinished

OwnerInv == ClosedByStop /\ FinishedIsFinal /\ UnfinishedIsOwned /\ InterruptedInv

\* Without a deadline, a shutdown or a fault, the writes of an execution take effect: it is
\* past its last one with a final status only, and returns with one unless it is deferred.
LEMMA ExecuteFinishes ==
  ASSUME TypeOK, FinishedIsFinal, NEW r \in Runs \ MayTimeOut, Execute(r),
         expired \subseteq MayTimeOut, ~shut, faults' = 0
  PROVE  /\ pc'[r] \in {"teardown", "free", "cancel"} => store'[r] \in Terminal
         /\ pc'[r] = "idle" => store'[r] \in Terminal \/ r \in deferred'
<1> USE DEF Goto, Return, Terminal, Statuses, Unfinished
<1>0. /\ pc \in [Runs -> Stages \cup {"idle"}] /\ store \in [Runs -> Statuses \cup {"none"}]
      /\ faults \in Nat /\ r \in Runs
  BY EngineAssumptions DEF TypeOK
<1>1. ~CtxDone(r)
  BY DEF CtxDone
<1>2. ~Fault
  BY <1>0 DEF Fault
<1>3. ~UpdateFails(r)
  BY <1>1, <1>2 DEF UpdateFails
<1>4. ASSUME NEW s, TryUpdate(r, s) PROVE store'[r] = s
  BY <1>0, <1>3, <1>4 DEF TryUpdate, UpdateOK, Updated
<1>5. CASE MarkRunning(r)
  BY <1>0, <1>3, <1>5 DEF MarkRunning
<1>6. CASE GateRejects(r)
  BY <1>0, <1>4, <1>6 DEF GateRejects
<1>7. CASE GateDefers(r)
  BY <1>0, <1>7 DEF GateDefers
<1>8. CASE VMFails(r) \/ GuestOrWorkflowErrors(r) \/ Verdict(r)
  BY <1>0, <1>4, <1>8 DEF VMFails, GuestOrWorkflowErrors, Verdict
<1>9. CASE GateAcquires(r) \/ VMStarts(r) \/ GuestReady(r)
  BY <1>0, <1>9 DEF GateAcquires, VMStarts, GuestReady
<1>10. CASE Teardown(r) \/ FreeResources(r) \/ RunCancel(r)
  <2>1. faults = 0 /\ store' = store /\ pc[r] \in {"teardown", "free", "cancel"}
    BY <1>10 DEF Teardown, FreeResources, RunCancel
  <2> QED
    BY <2>1 DEF FinishedIsFinal
<1> QED
  BY <1>5, <1>6, <1>7, <1>8, <1>9, <1>10 DEF Execute

\* Stop alone closes the scheduler, TimeOut alone ends a context.
LEMMA ClosedStep == TypeOK /\ ClosedByStop /\ [Next]_vars => ClosedByStop'
<1> SUFFICES ASSUME TypeOK, ClosedByStop, [Next]_vars PROVE ClosedByStop'
  OBVIOUS
<1> USE DEF ClosedByStop, queueVars, apiVars, processVars
<1>1. ASSUME NEW r \in Runs,
             \/ SubmitCreate(r) \/ SubmitEnqueue(r) \/ CancelCheck(r) \/ CancelWrite(r) \/ RecoverRun(r)
      PROVE  ClosedByStop'
  <2>1. UNCHANGED <<shut, phase, expired>>
    <3>1. CASE SubmitCreate(r) \/ CancelCheck(r) \/ CancelWrite(r)
      BY <3>1 DEF SubmitCreate, CancelCheck, CancelWrite
    <3>2. CASE SubmitEnqueue(r)
      BY <3>2 DEF SubmitEnqueue, RQEnqueue
    <3>3. CASE RecoverRun(r)
      BY <3>3 DEF RecoverRun, RQEnqueue
    <3> QED
      BY <1>1, <3>1, <3>2, <3>3
  <2> QED
    BY <2>1
<1>2. ASSUME NEW r \in Runs, Dispatch(r) \/ Resubmit(r) \/ TimeOut(r) PROVE ClosedByStop'
  BY <1>2 DEF Dispatch, RQDispatch, Goto, Resubmit, RQEnqueue, TimeOut
<1>3. ASSUME NEW r \in Runs, Execute(r) PROVE ClosedByStop'
  <2>1. /\ UNCHANGED <<shut, phase>>
        /\ expired' = expired \/ expired' = expired \ {r}
    BY <1>3, ExecuteShape
  <2> QED
    BY <2>1
<1>4. ASSUME FreeSlot \/ Drain \/ Stop \/ WorkerExit \/ ProcessEnds \/ Restart \/ Start \/ SurvivorEnds
      PROVE  ClosedByStop'
  <2>1. CASE FreeSlot \/ WorkerExit \/ SurvivorEnds
    BY <2>1 DEF FreeSlot, RQRelease, WorkerExit, SurvivorEnds
  <2>2. CASE Stop
    BY <2>2 DEF Stop, RQClose
  <2>3. CASE ProcessEnds
    BY <2>3 DEF ProcessEnds
  <2>4. CASE Drain \/ Restart \/ Start
    BY <2>4 DEF Drain, Restart, Start
  <2> QED
    BY <1>4, <2>1, <2>2, <2>3, <2>4
<1>5. CASE UNCHANGED vars
  BY <1>5 DEF vars
<1> QED
  BY <1>1, <1>2, <1>3, <1>4, <1>5 DEF Next, Exit, Crash

\* An owner hands a run on; only the end of its execution, or of the process, lets it go.
LEMMA OwnerKept ==
  ASSUME PlaceInv, [Next]_vars, NEW r \in Runs, Owned(r), faults' = 0, phase' \notin {"down", "panicked"}
  PROVE  Owned(r)' \/ (Execute(r) /\ pc'[r] = "idle" /\ r \notin deferred')
<1> USE DEF queueVars, apiVars, processVars
<1>0. TypeOK /\ QueueDistinct /\ Apart /\ NewIsUnknown /\ DownIsEmpty /\ faults \in Nat
  BY EngineAssumptions DEF PlaceInv, TypeOK
<1>1. queue' = queue => (InQueue(r)' <=> InQueue(r))
  BY DEF InQueue
<1>2. ASSUME NEW s \in Runs, ~InQueue(s), queue' = Append(queue, s)
      PROVE  InQueue(r)' <=> (InQueue(r) \/ r = s)
  BY <1>0, <1>2, EnqueueProperties DEF TypeOK
<1>3. ASSUME NEW s \in Runs, SubmitCreate(s) \/ CancelCheck(s) \/ CancelWrite(s) \/ TimeOut(s)
      PROVE  Owned(r)'
  BY <1>0, <1>1, <1>3 DEF SubmitCreate, CancelCheck, CancelWrite, TimeOut, Owned, TypeOK
<1>4. ASSUME NEW s \in Runs, SubmitEnqueue(s) PROVE Owned(r)'
  BY <1>0, <1>2, <1>4 DEF SubmitEnqueue, RQEnqueue, Apart, Owned, TypeOK
<1>5. ASSUME NEW s \in Runs, Dispatch(s) PROVE Owned(r)'
  <2>1. InQueue(r)' <=> (InQueue(r) /\ r # s)
    BY <1>0, <1>5, DequeueProperties DEF Dispatch, RQDispatch, Dispatchable, TypeOK
  <2> QED
    BY <1>0, <1>5, <2>1 DEF Dispatch, Goto, Owned, TypeOK
<1>6. ASSUME NEW s \in Runs, Execute(s)
      PROVE  Owned(r)' \/ (Execute(r) /\ pc'[r] = "idle" /\ r \notin deferred')
  <2>1. /\ UNCHANGED <<queue, submit, toRecover>> /\ pc[s] # "idle"
        /\ deferred' = deferred \/ deferred' = deferred \cup {s}
        /\ \E stage \in Stages \cup {"idle"} : pc' = [pc EXCEPT ![s] = stage]
    BY <1>0, <1>6, ExecuteShape
  <2> QED
    BY <1>0, <1>1, <1>6, <2>1 DEF Owned, TypeOK
<1>7. ASSUME NEW s \in Runs, Resubmit(s) PROVE Owned(r)'
  BY <1>0, <1>2, <1>7 DEF Resubmit, RQEnqueue, Apart, Owned
<1>8. ASSUME NEW s \in Runs, RecoverRun(s) PROVE Owned(r)'
  <2>1. ~Fault
    BY <1>0 DEF Fault
  <2> QED
    BY <1>0, <1>2, <1>8, <2>1 DEF RecoverRun, RQEnqueue, Apart, Owned
<1>9. ASSUME FreeSlot \/ Drain \/ Stop \/ WorkerExit \/ Start \/ SurvivorEnds \/ UNCHANGED vars PROVE Owned(r)'
  <2>1. UNCHANGED <<queue, submit, pc, deferred, toRecover>>
    BY <1>9 DEF FreeSlot, RQRelease, Drain, Stop, RQClose, WorkerExit, Start, SurvivorEnds, vars
  <2> QED
    BY <1>1, <2>1 DEF Owned
<1>10. ~Restart
  <2>1. phase # "down"
    <3> SUFFICES ASSUME phase = "down" PROVE FALSE
      OBVIOUS
    <3>1. queue = << >> /\ deferred = {} /\ toRecover = {} /\ pc[r] = "idle" /\ submit[r] # "created"
      BY <1>0 DEF DownIsEmpty
    <3>2. ~InQueue(r)
      BY <3>1, EmptyQueue
    <3> QED
      BY <3>1, <3>2 DEF Owned
  <2> QED
    BY <2>1 DEF Restart
<1> QED
  BY <1>3, <1>4, <1>5, <1>6, <1>7, <1>8, <1>9, <1>10 DEF Next, Exit, Crash, ProcessEnds

\* A run becomes unfinished by its submission or in its execution.
LEMMA BecomesUnfinished ==
  ASSUME TypeOK, [Next]_vars, NEW r \in Runs, store'[r] # store[r], store'[r] \in Unfinished
  PROVE  SubmitCreate(r) \/ Execute(r)
<1>1. ASSUME NEW s \in Runs, SubmitCreate(s) PROVE s = r
  BY <1>1 DEF SubmitCreate, TypeOK
<1>2. ASSUME NEW s \in Runs, Execute(s) PROVE s = r
  <2>1. store' = store \/ \E v \in Statuses : store' = [store EXCEPT ![s] = v]
    BY <1>2, ExecuteShape
  <2> QED
    BY <2>1 DEF TypeOK
<1>3. ASSUME NEW s \in Runs, CancelWrite(s) \/ RecoverRun(s) PROVE FALSE
  BY <1>3 DEF CancelWrite, RecoverRun, Updated, Fault, Unfinished, TypeOK
<1>4. ASSUME NEW s \in Runs,
             SubmitEnqueue(s) \/ CancelCheck(s) \/ Dispatch(s) \/ Resubmit(s) \/ TimeOut(s)
      PROVE  FALSE
  BY <1>4 DEF SubmitEnqueue, CancelCheck, Dispatch, Resubmit, TimeOut
<1>5. ~(FreeSlot \/ Drain \/ Stop \/ WorkerExit \/ ProcessEnds \/ Restart \/ Start \/ SurvivorEnds \/ UNCHANGED vars)
  BY DEF FreeSlot, Drain, Stop, WorkerExit, ProcessEnds, Restart, Fault, Start, SurvivorEnds, vars
<1> QED
  BY <1>1, <1>2, <1>3, <1>4, <1>5 DEF Next, Exit, Crash

\* Faults are counted and never forgotten.
LEMMA FaultsGrow ==
  ASSUME TypeOK, [Next]_vars, faults' = 0
  PROVE  faults = 0 /\ ~Fault
<1>1. faults \in Nat
  BY EngineAssumptions DEF TypeOK
<1>2. faults' = faults \/ faults' = faults + 1
  <2>1. ASSUME NEW r \in Runs, Execute(r) PROVE faults' = faults \/ faults' = faults + 1
    BY <2>1 DEF Execute, MarkRunning, GateRejects, GateAcquires, GateDefers, VMStarts, VMFails,
                GuestReady, GuestOrWorkflowErrors, Verdict, Teardown, FreeResources, RunCancel, TryUpdate,
                UpdateOK, UpdateFails, Updated, Fault
  <2>2. ASSUME NEW r \in Runs,
               \/ SubmitCreate(r) \/ SubmitEnqueue(r) \/ CancelCheck(r) \/ CancelWrite(r)
               \/ Dispatch(r) \/ Resubmit(r) \/ TimeOut(r) \/ RecoverRun(r)
        PROVE  faults' = faults \/ faults' = faults + 1
    BY <2>2 DEF SubmitCreate, SubmitEnqueue, CancelCheck, CancelWrite, Dispatch, Resubmit, TimeOut,
                RecoverRun, Updated, Fault
  <2>3. ASSUME FreeSlot \/ Drain \/ Stop \/ WorkerExit \/ ProcessEnds \/ Restart \/ Start \/ SurvivorEnds \/ UNCHANGED vars
        PROVE  faults' = faults \/ faults' = faults + 1
    BY <2>3 DEF FreeSlot, Drain, Stop, WorkerExit, ProcessEnds, Restart, Fault, Start, SurvivorEnds, vars
  <2> QED
    BY <2>1, <2>2, <2>3 DEF Next, Exit, Crash
<1> QED
  BY <1>1, <1>2 DEF Fault

\* Without faults, a run past its last write keeps a final status.
LEMMA FinishedStep ==
  PlaceInv /\ ClosedByStop /\ FinishedIsFinal /\ [Next]_vars => FinishedIsFinal'
<1> SUFFICES ASSUME PlaceInv, ClosedByStop, FinishedIsFinal, [Next]_vars, faults' = 0, ~shut',
                    NEW r \in Runs \ MayTimeOut, pc'[r] \in {"teardown", "free", "cancel"}
             PROVE  store'[r] \in Terminal
  BY DEF FinishedIsFinal
<1>0. /\ TypeOK /\ Apart /\ faults = 0 /\ r \in Runs /\ expired \subseteq MayTimeOut
  BY FaultsGrow DEF PlaceInv, ClosedByStop
<1>1. ASSUME ~shut, pc'[r] = pc[r], store'[r] \in {store[r]} \cup Terminal PROVE store'[r] \in Terminal
  BY <1>0, <1>1 DEF FinishedIsFinal
<1>2. CASE store'[r] # store[r] /\ store'[r] \in Unfinished
  <2>1. Execute(r) \/ SubmitCreate(r)
    BY <1>0, <1>2, BecomesUnfinished
  <2>2. ~SubmitCreate(r)
    BY <1>0 DEF SubmitCreate, Apart
  <2>3. Execute(r) /\ shut' = shut
    BY <1>0, <2>1, <2>2, ExecuteShape DEF queueVars
  <2> QED
    BY <1>0, <2>3, ExecuteFinishes
<1>3. ASSUME NEW s \in Runs, Execute(s) PROVE store'[r] \in Terminal
  <2>1. shut' = shut
    BY <1>0, <1>3, ExecuteShape DEF queueVars
  <2>2. CASE s = r
    BY <1>0, <1>3, <2>1, <2>2, ExecuteFinishes
  <2>3. CASE s # r
    <3>1. /\ \E stage \in Stages \cup {"idle"} : pc' = [pc EXCEPT ![s] = stage]
          /\ store' = store \/ \E v \in Statuses : store' = [store EXCEPT ![s] = v]
      BY <1>0, <1>3, ExecuteShape, SMTT(20)
    <3> QED
      BY <1>0, <1>1, <2>1, <2>3, <3>1 DEF TypeOK
  <2> QED
    BY <2>2, <2>3
<1>4. ASSUME NEW s \in Runs, Dispatch(s) PROVE store'[r] \in Terminal
  <2>1. store' = store /\ shut' = shut /\ (pc'[r] = pc[r] \/ pc'[r] = "start")
    BY <1>0, <1>4 DEF Dispatch, RQDispatch, Goto, TypeOK
  <2> QED
    BY <1>1, <2>1
<1>5. ASSUME NEW s \in Runs,
             \/ SubmitCreate(s) \/ SubmitEnqueue(s) \/ CancelCheck(s) \/ CancelWrite(s)
             \/ Resubmit(s) \/ TimeOut(s) \/ RecoverRun(s)
      PROVE  pc' = pc /\ shut' = shut /\ store' \in [Runs -> Statuses \cup {"none"}]
  <2>1. pc' = pc /\ shut' = shut
    BY <1>5 DEF SubmitCreate, SubmitEnqueue, RQEnqueue, CancelCheck, CancelWrite, Resubmit, TimeOut,
                RecoverRun, queueVars
  <2>2. TypeOK'
    BY PlaceStep DEF PlaceInv
  <2> QED
    BY <2>1, <2>2 DEF TypeOK
<1>6. ASSUME FreeSlot \/ Drain \/ Stop \/ WorkerExit \/ Restart \/ Start \/ SurvivorEnds \/ UNCHANGED vars
      PROVE  pc' = pc /\ store' = store /\ shut' = shut
  BY <1>6 DEF FreeSlot, RQRelease, Drain, Stop, RQClose, WorkerExit, Restart, Fault, Start, SurvivorEnds, vars, queueVars
<1>7. ~ProcessEnds
  BY <1>0 DEF ProcessEnds
<1> QED
  <2>1. CASE \E s \in Runs : \/ SubmitCreate(s) \/ SubmitEnqueue(s) \/ CancelCheck(s) \/ CancelWrite(s)
                             \/ Resubmit(s) \/ TimeOut(s) \/ RecoverRun(s)
    <3>1. store[r] # "none" => store'[r] # "none"
      <4>1. PICK s \in Runs : \/ SubmitCreate(s) \/ SubmitEnqueue(s) \/ CancelCheck(s) \/ CancelWrite(s)
                              \/ Resubmit(s) \/ TimeOut(s) \/ RecoverRun(s)
        BY <2>1
      <4>2. store' = store \/ \E v \in {"PENDING", "CANCELLED", "ERRORED"} : store' = [store EXCEPT ![s] = v]
        <5>1. CASE SubmitCreate(s)
          BY <5>1 DEF SubmitCreate
        <5>2. CASE SubmitEnqueue(s) \/ CancelCheck(s) \/ Resubmit(s) \/ TimeOut(s)
          BY <5>2 DEF SubmitEnqueue, CancelCheck, Resubmit, TimeOut
        <5>3. CASE CancelWrite(s)
          BY <5>3 DEF CancelWrite, Updated, Fault
        <5>4. CASE RecoverRun(s)
          BY <5>4 DEF RecoverRun, Updated, Fault
        <5> QED
          BY <4>1, <5>1, <5>2, <5>3, <5>4
      <4> QED
        BY <1>0, <4>2 DEF TypeOK
    <3>2. store[r] \in Terminal
      BY <1>0, <1>5, <2>1 DEF FinishedIsFinal
    <3> QED
      BY <1>1, <1>2, <1>5, <2>1, <3>1, <3>2 DEF Terminal
  <2> QED
    BY <1>1, <1>3, <1>4, <1>6, <1>7, <2>1 DEF Next, Exit, Crash

\* Without faults, every unfinished run keeps an owner.
LEMMA OwnedStep ==
  PlaceInv /\ ClosedByStop /\ FinishedIsFinal /\ UnfinishedIsOwned /\ [Next]_vars => UnfinishedIsOwned'
<1> SUFFICES ASSUME PlaceInv, ClosedByStop, FinishedIsFinal, UnfinishedIsOwned, [Next]_vars,
                    faults' = 0, phase' \in {"up", "draining", "recovering"},
                    NEW r \in Runs \ MayTimeOut, store'[r] \in Unfinished
             PROVE  Owned(r)'
  BY DEF UnfinishedIsOwned
<1>0. TypeOK /\ faults = 0 /\ ~Fault /\ r \in Runs /\ expired \subseteq MayTimeOut
  BY FaultsGrow DEF PlaceInv, ClosedByStop
<1>1. ASSUME Owned(r), phase \in {"up", "draining", "recovering"} PROVE Owned(r)'
  <2>1. Owned(r)' \/ (Execute(r) /\ pc'[r] = "idle" /\ r \notin deferred')
    BY <1>1, OwnerKept
  <2>2. ASSUME Execute(r), pc'[r] = "idle", r \notin deferred' PROVE FALSE
    <3>1. ~shut
      BY <1>1 DEF ClosedByStop
    <3>2. store'[r] \in Terminal
      BY <1>0, <2>2, <3>1, ExecuteFinishes
    <3> QED
      BY <3>2 DEF Terminal
  <2> QED
    BY <2>1, <2>2
<1>2. CASE store'[r] # store[r]
  <2>1. SubmitCreate(r) => Owned(r)'
    BY <1>0 DEF SubmitCreate, Owned, TypeOK
  <2>2. Execute(r) => Owned(r) /\ phase' = phase
    BY <1>0, ExecuteShape DEF Owned, processVars
  <2> QED
    BY <1>0, <1>1, <1>2, <2>1, <2>2, BecomesUnfinished
<1>3. CASE store'[r] = store[r] /\ phase \in {"up", "draining", "recovering"}
  BY <1>0, <1>1, <1>3 DEF UnfinishedIsOwned
<1>4. CASE store'[r] = store[r] /\ phase \notin {"up", "draining", "recovering"}
  <2>1. Restart
    <3>1. ASSUME NEW s \in Runs, Execute(s) PROVE phase' = phase
      BY <1>0, <3>1, ExecuteShape DEF processVars
    <3>2. ASSUME NEW s \in Runs,
                 \/ SubmitCreate(s) \/ SubmitEnqueue(s) \/ CancelCheck(s) \/ CancelWrite(s)
                 \/ Dispatch(s) \/ Resubmit(s) \/ TimeOut(s) \/ RecoverRun(s)
          PROVE  phase' \in {phase, "panicked"}
      BY <3>2 DEF SubmitCreate, SubmitEnqueue, CancelCheck, CancelWrite, Dispatch, Resubmit, TimeOut,
                  RecoverRun, processVars
    <3>3. ~(FreeSlot \/ Drain \/ Stop \/ WorkerExit \/ ProcessEnds \/ Start \/ SurvivorEnds \/ UNCHANGED vars)
      BY <1>4 DEF FreeSlot, Drain, Stop, WorkerExit, ProcessEnds, Start, SurvivorEnds, processVars, vars
    <3> QED
      BY <1>4, <3>1, <3>2, <3>3 DEF Next, Exit, Crash
  <2> QED
    BY <1>0, <1>4, <2>1 DEF Restart, ListRunningTestRuns, Owned
<1> QED
  BY <1>2, <1>3, <1>4

\* Without faults, recovery and the queue keep every interrupted run that recovery finds.
LEMMA InterruptedStep == PlaceInv /\ InterruptedInv /\ [Next]_vars => InterruptedInv'
<1> DEFINE Held(r) == r \in toRecover \/ InQueue(r) \/ (restarts > 1 /\ store[r] = "ERRORED")
           Fact(r) == /\ store[r] \in Unfinished \cup {"ERRORED"}
                      /\ pc[r] = "idle" /\ r \notin deferred
                      /\ phase # "down" => restarts > 0 /\ Held(r)
                      /\ phase = "down" /\ restarts = 0 => store[r] \in Unfinished
<1> SUFFICES ASSUME PlaceInv, InterruptedInv, [Next]_vars, faults' = 0, NEW r \in interrupted'
             PROVE  Fact(r)'
  BY DEF InterruptedInv
<1> USE DEF queueVars, apiVars, processVars
<1>0. /\ TypeOK /\ QueueDistinct /\ Apart /\ NewIsUnknown /\ DownIsEmpty /\ faults = 0 /\ ~Fault
      /\ restarts \in Nat
  BY FaultsGrow, EngineAssumptions, SMTT(20) DEF PlaceInv, TypeOK
<1>1. r \in Runs
  BY PlaceStep DEF PlaceInv, TypeOK
<1>2. r \in interrupted => Fact(r)
  BY <1>0 DEF InterruptedInv
<1>3. queue' = queue => (InQueue(r)' <=> InQueue(r))
  BY DEF InQueue
<1>4. ASSUME NEW s \in Runs, ~InQueue(s), queue' = Append(queue, s)
      PROVE  InQueue(r)' <=> (InQueue(r) \/ r = s)
  BY <1>0, <1>1, <1>4, EnqueueProperties DEF TypeOK
<1>5. ASSUME NEW s \in Runs, SubmitCreate(s) PROVE Fact(r)'
  <2>1. r \in interrupted /\ s # r
    BY <1>0, <1>2, <1>5 DEF SubmitCreate, NewIsUnknown, Unfinished
  <2> QED
    BY <1>0, <1>2, <1>3, <1>5, <2>1 DEF SubmitCreate, TypeOK
<1>6. ASSUME NEW s \in Runs, SubmitEnqueue(s) PROVE Fact(r)'
  <2>1. r \in interrupted /\ (InQueue(r) => InQueue(r)')
    BY <1>0, <1>4, <1>6 DEF SubmitEnqueue, RQEnqueue, Apart
  <2> QED
    BY <1>2, <1>6, <2>1 DEF SubmitEnqueue
<1>7. ASSUME NEW s \in Runs, CancelCheck(s) \/ CancelWrite(s) \/ TimeOut(s) PROVE Fact(r)'
  <2>1. r \in interrupted /\ store'[r] = store[r]
    BY <1>0, <1>1, <1>7, SMTT(20) DEF CancelCheck, CancelWrite, TimeOut, Updated, TypeOK
  <2> QED
    BY <1>2, <1>3, <1>7, <2>1 DEF CancelCheck, CancelWrite, TimeOut
<1>8. ASSUME NEW s \in Runs, Dispatch(s) PROVE Fact(r)'
  <2>1. r \in interrupted /\ r # s /\ (InQueue(r)' <=> InQueue(r))
    BY <1>0, <1>1, <1>8, DequeueProperties DEF Dispatch, RQDispatch, Dispatchable, TypeOK
  <2> QED
    BY <1>0, <1>2, <1>8, <2>1 DEF Dispatch, Goto, TypeOK
<1>9. ASSUME NEW s \in Runs, Execute(s) PROVE Fact(r)'
  <2>1. /\ UNCHANGED <<queue, phase, toRecover, restarts, interrupted>> /\ pc[s] # "idle"
        /\ \E stage \in Stages \cup {"idle"} : pc' = [pc EXCEPT ![s] = stage]
        /\ deferred' = deferred \/ deferred' = deferred \cup {s}
        /\ store' = store \/ \E v \in Statuses : store' = [store EXCEPT ![s] = v]
    BY <1>0, <1>9, ExecuteShape, SMTT(20)
  <2>2. r # s /\ r \in interrupted
    BY <1>2, <2>1
  <2> QED
    BY <1>0, <1>2, <1>3, <2>1, <2>2 DEF TypeOK
<1>10. ASSUME NEW s \in Runs, Resubmit(s) PROVE Fact(r)'
  <2>1. r \in interrupted /\ phase # "down" /\ (InQueue(r) => InQueue(r)')
    BY <1>0, <1>3, <1>4, <1>10 DEF Resubmit, RQEnqueue, Apart, DownIsEmpty
  <2> QED
    BY <1>2, <1>10, <2>1 DEF Resubmit
<1>11. ASSUME NEW s \in Runs, RecoverRun(s) PROVE Fact(r)'
  <2>1. /\ r \in interrupted /\ phase # "down" /\ phase' = phase /\ restarts' = restarts
        /\ UNCHANGED <<pc, deferred>> /\ toRecover' = toRecover \ {s}
    BY <1>0, <1>11 DEF RecoverRun, DownIsEmpty
  <2>2. InQueue(r)' <=> (InQueue(r) \/ r = s)
    BY <1>0, <1>4, <1>11 DEF RecoverRun, RQEnqueue, Apart
  <2>3. store'[r] = store[r] \/ (r = s /\ store'[r] = "ERRORED")
    BY <1>0, <1>1, <1>11 DEF RecoverRun, Updated, TypeOK
  <2> QED
    BY <1>2, <2>1, <2>2, <2>3
<1>12. ASSUME Exit \/ Crash PROVE Fact(r)'
  <2>1. /\ phase # "down" /\ phase' = "down" /\ store' = store /\ restarts' = restarts
        /\ pc'[r] = "idle" /\ r \notin deferred'
        /\ r \in interrupted \/ store[r] \in Unfinished
    BY <1>1, <1>12 DEF Exit, Crash, ProcessEnds
  <2>2. store[r] \in Unfinished \cup {"ERRORED"} /\ (restarts = 0 => store[r] \in Unfinished)
    <3>1. CASE r \in interrupted
      <4>1. store[r] \in Unfinished \cup {"ERRORED"} /\ restarts > 0
        BY <1>2, <2>1, <3>1
      <4> QED
        BY <4>1
    <3>2. CASE store[r] \in Unfinished
      BY <3>2
    <3> QED
      BY <2>1, <3>1, <3>2
  <2> QED
    BY <2>1, <2>2
<1>13. ASSUME Restart PROVE Fact(r)'
  <2>1. /\ phase = "down" /\ phase' = "recovering" /\ restarts' = restarts + 1 /\ store' = store
        /\ UNCHANGED <<pc, deferred>> /\ r \in interrupted
        /\ store[r] \in Unfinished => r \in toRecover'
    BY <1>0, <1>1, <1>13 DEF Restart, ListRunningTestRuns
  <2>2. /\ store[r] \in Unfinished \cup {"ERRORED"} /\ pc[r] = "idle" /\ r \notin deferred
        /\ restarts = 0 => store[r] \in Unfinished
    BY <1>2, <2>1
  <2>3. restarts' > 0 /\ (restarts # 0 => restarts' > 1)
    <3>1. restarts \in Nat
      BY <1>0
    <3> QED
      BY <2>1, <3>1
  <2>4. Held(r)'
    BY <2>1, <2>2, <2>3
  <2> QED
    BY <2>1, <2>2, <2>3, <2>4
<1>14. ASSUME FreeSlot \/ Drain \/ Stop \/ WorkerExit \/ Start \/ SurvivorEnds \/ UNCHANGED vars PROVE Fact(r)'
  <2>1. /\ UNCHANGED <<queue, store, pc, deferred, toRecover, restarts, interrupted>>
        /\ phase' # "down" => phase # "down" \/ phase' = phase
        /\ phase' = "down" => phase = "down"
    BY <1>14 DEF FreeSlot, RQRelease, Drain, Stop, RQClose, WorkerExit, Start, SurvivorEnds, vars
  <2> QED
    BY <1>2, <1>3, <2>1
<1> QED
  BY <1>5, <1>6, <1>7, <1>8, <1>9, <1>10, <1>11, <1>12, <1>13, <1>14 DEF Next

\* Who has an unfinished run: the second inductive invariant, relative to the first.
THEOREM EngineOwners == Spec => []OwnerInv
<1>1. Init => OwnerInv
  <2> SUFFICES ASSUME Init PROVE OwnerInv
    OBVIOUS
  <2>1. /\ ~shut /\ expired = {} /\ interrupted = {}
        /\ \A r \in Runs : pc[r] = "idle" /\ store[r] = "none"
    BY DEF Init, RQInit
  <2> QED
    BY <2>1 DEF OwnerInv, ClosedByStop, FinishedIsFinal, UnfinishedIsOwned, InterruptedInv, Unfinished
<1>2. EngineInv /\ OwnerInv /\ [Next]_vars => OwnerInv'
  BY ClosedStep, FinishedStep, OwnedStep, InterruptedStep DEF EngineInv, PlaceInv, OwnerInv
<1> QED
  BY EngineInvariant, <1>1, <1>2, PTL DEF Spec

\* RecoverState and the queue lose no interrupted run, except one that a second crash finds
\* with the ERRORED of the first recovery.
THEOREM EngineInterruptedRunsRequeued == Spec => []InterruptedRunsRequeued
<1>1. OwnerInv => InterruptedRunsRequeued
  BY DEF OwnerInv, InterruptedInv, InterruptedRunsRequeued, Owned
<1> QED
  BY EngineOwners, <1>1, PTL

\* While the orchestrator serves, only a run that may reach its deadline is left unfinished
\* without an owner, as long as the database does not fail.
THEOREM EngineOrphanedOnlyByDeadline == Spec => []OrphanedOnlyByDeadline
<1>1. OwnerInv => OrphanedOnlyByDeadline
  BY DEF OwnerInv, UnfinishedIsOwned, OrphanedOnlyByDeadline
<1> QED
  BY EngineOwners, <1>1, PTL

=============================================================================
