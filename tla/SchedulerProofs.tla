-------------------------- MODULE SchedulerProofs --------------------------
(***************************************************************************)
(* Proofs about Scheduler.tla, for any finite set of runs and any limit:   *)
(* its safety invariants, and that it implements the safety part of the    *)
(* abstract queue.                                                         *)
(*                                                                         *)
(* The counter is correct only because a run is handed out once, which is  *)
(* so only because the queue is exact, which needs that a run is appended  *)
(* once; IInv puts the four together and is inductive.                     *)
(***************************************************************************)
EXTENDS Scheduler, FiniteSetTheorems, SequenceTheorems, TLAPS

\* A run that has not been enqueued is nowhere else.
NewIsNowhere == \A r \in Runs : submit[r] = "new" <=> exec[r] = "none"

IInv == TypeOK /\ NewIsNowhere /\ QueueExact /\ SlotsAccounted /\ ConcurrencyLimit

\* The initial state, with an empty queue and no slot in use, satisfies the invariant.
LEMMA InitIInv == Init => IInv
<1> SUFFICES ASSUME Init PROVE IInv
  OBVIOUS
<1>1. TypeOK /\ NewIsNowhere /\ QueueExact
  <2>1. queue \in Seq(Runs) /\ Len(queue) = 0
    BY EmptySeq DEF Init
  <2>2. TypeOK
    BY <2>1 DEF Init, TypeOK
  <2>3. NewIsNowhere
    BY DEF Init, NewIsNowhere
  <2>4. QueueExact
    BY <2>1 DEF Init, QueueExact
  <2> QED
    BY <2>2, <2>3, <2>4
<1>2. Active = {}
  BY DEF Init, Active
<1>3. SlotsAccounted /\ ConcurrencyLimit
  BY <1>2, FS_EmptySet, MaxConcurrentPositive DEF Init, SlotsAccounted, ConcurrencyLimit
<1> QED
  BY <1>1, <1>3 DEF IInv

\* The runs that hold a slot form a finite set, so they can be counted.
LEMMA ActiveFinite == IsFiniteSet(Active) /\ Cardinality(Active) \in Nat
BY RunsFinite, FS_Subset, FS_CardinalityType DEF Active

\* Taking the head out of the queue, in Next as in TryNext, hands out a queued run that
\* then holds the slot that the counter counts.
LEMMA PopHeadKeepsIInv ==
  ASSUME IInv, SlotAndWork, PopHead,
         UNCHANGED <<notify, closed, worker, submit, crashed>>
  PROVE  IInv'
<1> DEFINE h == Head(queue)
<1> USE DEF IInv
<1>1. queue \in Seq(Runs) /\ queue # << >>
  BY DEF TypeOK, SlotAndWork
<1>2. /\ h \in Runs
      /\ h = queue[1]
      /\ Len(queue) \in Nat \ {0}
      /\ queue' \in Seq(Runs)
      /\ Len(queue') = Len(queue) - 1
      /\ \A i \in 1..Len(queue') : queue'[i] = queue[i + 1]
  BY <1>1, HeadTailProperties, LenProperties, EmptySeq DEF PopHead
<1>3. exec[h] = "queued"
  BY <1>2 DEF QueueExact
<1>4. exec' = [exec EXCEPT ![h] = "active"]
  BY DEF PopHead
<1>5. TypeOK'
  BY <1>2, <1>4 DEF TypeOK, PopHead
<1>6. NewIsNowhere'
  BY <1>2, <1>3, <1>4 DEF NewIsNowhere, TypeOK
<1>7. QueueExact'
  <2>1. \A i, j \in 1..Len(queue') : queue'[i] = queue'[j] => i = j
    <3> SUFFICES ASSUME NEW i \in 1..Len(queue'), NEW j \in 1..Len(queue'), queue'[i] = queue'[j]
                 PROVE  i = j
      OBVIOUS
    <3>1. i + 1 \in 1..Len(queue) /\ j + 1 \in 1..Len(queue)
      BY <1>2
    <3>2. queue[i + 1] = queue[j + 1]
      BY <1>2
    <3> QED
      BY <3>1, <3>2 DEF QueueExact
  <2>2. ASSUME NEW r \in Runs
        PROVE  exec'[r] = "queued" <=> \E i \in 1..Len(queue') : queue'[i] = r
    <3>1. CASE r = h
      <4>1. exec'[r] = "active"
        BY <3>1, <1>2, <1>4 DEF TypeOK
      <4>2. ASSUME NEW i \in 1..Len(queue'), queue'[i] = r PROVE FALSE
        <5>1. i + 1 \in 1..Len(queue) /\ 1 \in 1..Len(queue) /\ queue[i + 1] = queue[1]
          BY <4>2, <3>1, <1>2
        <5>2. i + 1 = 1
          BY <5>1 DEF QueueExact
        <5> QED
          BY <5>2
      <4> QED
        BY <4>1, <4>2
    <3>2. CASE r # h
      <4>1. exec'[r] = exec[r]
        BY <3>2, <1>4 DEF TypeOK
      <4>2. (\E i \in 1..Len(queue) : queue[i] = r) => \E i \in 1..Len(queue') : queue'[i] = r
        <5> SUFFICES ASSUME NEW i \in 1..Len(queue), queue[i] = r
                     PROVE  \E k \in 1..Len(queue') : queue'[k] = r
          OBVIOUS
        <5>1. i # 1
          BY <1>2, <3>2
        <5>2. i - 1 \in 1..Len(queue') /\ queue'[i - 1] = queue[i - 1 + 1]
          BY <5>1, <1>2
        <5> QED
          BY <5>2
      <4>3. (\E i \in 1..Len(queue') : queue'[i] = r) => \E i \in 1..Len(queue) : queue[i] = r
        <5> SUFFICES ASSUME NEW i \in 1..Len(queue'), queue'[i] = r
                     PROVE  \E k \in 1..Len(queue) : queue[k] = r
          OBVIOUS
        <5>1. i + 1 \in 1..Len(queue) /\ queue[i + 1] = r
          BY <1>2
        <5> QED
          BY <5>1
      <4> QED
        BY <4>1, <4>2, <4>3 DEF QueueExact
    <3> QED
      BY <3>1, <3>2
  <2> QED
    BY <2>1, <2>2 DEF QueueExact
<1>8. SlotsAccounted' /\ ConcurrencyLimit'
  <2>1. h \notin Active /\ Active' = Active \cup {h}
    BY <1>2, <1>3, <1>4 DEF Active, TypeOK
  <2>2. Cardinality(Active') = Cardinality(Active) + 1
    BY <2>1, ActiveFinite, FS_AddElement
  <2>3. activeCount' = activeCount + 1 /\ activeCount < MaxConcurrent
    BY DEF PopHead, SlotAndWork
  <2> QED
    BY <2>2, <2>3, ActiveFinite, MaxConcurrentPositive
    DEF SlotsAccounted, ConcurrencyLimit, TypeOK
<1> QED
  BY <1>5, <1>6, <1>7, <1>8

\* Every step of the scheduler preserves the invariant.
LEMMA NextIInv == IInv /\ [Next]_vars => IInv'
<1> SUFFICES ASSUME IInv, [Next]_vars PROVE IInv'
  OBVIOUS
<1> USE DEF IInv
<1>1. ASSUME NEW r \in Runs, EnqueueAppend(r) PROVE IInv'
  <2>1. exec[r] = "none" /\ ~\E i \in 1..Len(queue) : queue[i] = r
    BY <1>1 DEF EnqueueAppend, NewIsNowhere, QueueExact
  <2>2. /\ Len(queue) \in Nat
        /\ queue' \in Seq(Runs)
        /\ Len(queue') = Len(queue) + 1
        /\ \A i \in 1..Len(queue) : queue'[i] = queue[i]
        /\ queue'[Len(queue) + 1] = r
    BY <1>1, AppendProperties, LenProperties DEF EnqueueAppend, TypeOK
  <2>3. TypeOK' /\ NewIsNowhere'
    BY <1>1, <2>1, <2>2 DEF EnqueueAppend, TypeOK, NewIsNowhere
  <2>4. QueueExact'
    <3>1. \A i, j \in 1..Len(queue') : queue'[i] = queue'[j] => i = j
      BY <2>1, <2>2 DEF QueueExact
    <3>2. ASSUME NEW s \in Runs
          PROVE  exec'[s] = "queued" <=> \E i \in 1..Len(queue') : queue'[i] = s
      <4>1. exec'[s] = IF s = r THEN "queued" ELSE exec[s]
        BY <1>1 DEF EnqueueAppend, TypeOK
      <4>2. (\E i \in 1..Len(queue') : queue'[i] = s) <=>
              (s = r \/ \E i \in 1..Len(queue) : queue[i] = s)
        BY <2>2
      <4> QED
        BY <4>1, <4>2 DEF QueueExact
    <3> QED
      BY <3>1, <3>2 DEF QueueExact
  <2>5. Active' = Active
    BY <1>1, <2>1 DEF EnqueueAppend, Active, TypeOK
  <2>6. SlotsAccounted' /\ ConcurrencyLimit'
    BY <1>1, <2>5 DEF EnqueueAppend, SlotsAccounted, ConcurrencyLimit
  <2> QED
    BY <2>3, <2>4, <2>6
<1>2. ASSUME NEW r \in Runs, EnqueueSignal(r) PROVE IInv'
  <2>1. UNCHANGED <<queue, activeCount, exec>> /\ Active' = Active
    BY <1>2 DEF EnqueueSignal, Active
  <2>2. TypeOK' /\ NewIsNowhere'
    BY <1>2 DEF EnqueueSignal, TypeOK, NewIsNowhere
  <2> QED
    BY <2>1, <2>2 DEF QueueExact, SlotsAccounted, ConcurrencyLimit
<1>3. CASE NextDispatch \/ TryNext
  BY <1>3, PopHeadKeepsIInv DEF NextDispatch, TryNext
<1>4. CASE NextBlock \/ NextReceive \/ Close
  <2>1. UNCHANGED <<queue, activeCount, exec, submit>> /\ Active' = Active
    BY <1>4 DEF NextBlock, NextReceive, Close, Active
  <2>2. TypeOK'
    BY <1>4 DEF NextBlock, NextReceive, Close, TypeOK
  <2> QED
    BY <2>1, <2>2 DEF NewIsNowhere, QueueExact, SlotsAccounted, ConcurrencyLimit
<1>5. ASSUME NEW r \in Runs, ReleaseSlot(r) PROVE IInv'
  <2>1. r \in Active /\ Active' = Active \ {r}
    BY <1>5 DEF ReleaseSlot, Active, TypeOK
  <2>2. Cardinality(Active') = Cardinality(Active) - 1
    BY <2>1, ActiveFinite, FS_RemoveElement
  <2>3. Cardinality(Active) # 0
    BY <2>1, ActiveFinite, FS_EmptySet
  <2>4. activeCount' = activeCount - 1
    BY <1>5, <2>3, ActiveFinite DEF ReleaseSlot, SlotsAccounted
  <2>5. SlotsAccounted' /\ ConcurrencyLimit'
    BY <2>2, <2>4, ActiveFinite, MaxConcurrentPositive DEF SlotsAccounted, ConcurrencyLimit
  <2>6. TypeOK' /\ NewIsNowhere' /\ QueueExact'
    BY <1>5, <2>3, <2>4, ActiveFinite
    DEF ReleaseSlot, TypeOK, NewIsNowhere, QueueExact, SlotsAccounted
  <2> QED
    BY <2>5, <2>6
<1>6. ASSUME NEW r \in Runs, ReleaseSignal(r) PROVE IInv'
  <2>1. UNCHANGED <<queue, activeCount, submit>> /\ Active' = Active
    BY <1>6 DEF ReleaseSignal, Active, TypeOK
  <2>2. TypeOK' /\ NewIsNowhere' /\ QueueExact'
    BY <1>6 DEF ReleaseSignal, TypeOK, NewIsNowhere, QueueExact
  <2> QED
    BY <2>1, <2>2 DEF SlotsAccounted, ConcurrencyLimit
<1>7. CASE UNCHANGED vars
  BY <1>7 DEF vars, TypeOK, NewIsNowhere, QueueExact, SlotsAccounted, ConcurrencyLimit, Active
<1> QED
  BY <1>1, <1>2, <1>3, <1>4, <1>5, <1>6, <1>7 DEF Next, Worker

\* The inductive invariant holds in every reachable state.
THEOREM SchedulerInvariant == Spec => []IInv
BY InitIInv, NextIInv, PTL DEF Spec

\* The scheduler's state keeps its shape.
THEOREM SchedulerTypeOK == Spec => []TypeOK
<1>1. IInv => TypeOK
  BY DEF IInv
<1> QED
  BY <1>1, SchedulerInvariant, PTL

\* The counter that Next and TryNext compare with the limit is the number of executions
\* that hold a slot, so Release's test for a positive counter never hides a mistake.
THEOREM SchedulerSlotsAccounted == Spec => []SlotsAccounted
<1>1. IInv => SlotsAccounted
  BY DEF IInv
<1> QED
  BY <1>1, SchedulerInvariant, PTL

\* At most MaxConcurrent executions hold a slot, whoever took them out of the queue.
THEOREM SchedulerConcurrencyLimit == Spec => []ConcurrencyLimit
<1>1. IInv => ConcurrencyLimit
  BY DEF IInv
<1> QED
  BY <1>1, SchedulerInvariant, PTL

\* Enqueue, Next, TryNext and Release lose no run and hand none out twice.
THEOREM SchedulerQueueExact == Spec => []QueueExact
<1>1. IInv => QueueExact
  BY DEF IInv
<1> QED
  BY <1>1, SchedulerInvariant, PTL

----------------------------------------------------------------------------
(* The wake-up channel                                                     *)

\* A signal that Enqueue or Release still has to send.
SignalPending == \E r \in Runs : submit[r] = "signal" \/ exec[r] = "signal"

\* A step cannot leave the worker asleep beside work and a free slot with nobody to wake
\* it: whoever creates the work or frees the slot has its signal still to send, and a
\* signal is only sent by putting the token into the channel.
LEMMA NextNoLostWakeup == IInv /\ NoLostWakeup /\ [Next]_vars => NoLostWakeup'
<1> SUFFICES ASSUME IInv, NoLostWakeup, [Next]_vars,
                    worker' = "receive", SlotAndWork'
             PROVE  notify' = 1 \/ closed' \/ SignalPending'
  BY DEF NoLostWakeup, SignalPending
<1> USE DEF IInv, TypeOK
<1>1. ASSUME NEW r \in Runs, EnqueueAppend(r) PROVE SignalPending'
  BY <1>1 DEF EnqueueAppend, SignalPending
<1>2. ASSUME NEW r \in Runs, EnqueueSignal(r) PROVE notify' = 1 \/ closed'
  BY <1>2 DEF EnqueueSignal
<1>3. CASE NextDispatch
  BY <1>3 DEF NextDispatch
<1>4. CASE NextBlock
  BY <1>4 DEF NextBlock, SlotAndWork
<1>5. CASE NextReceive
  BY <1>5 DEF NextReceive
<1>6. CASE TryNext
  <2>1. SlotAndWork /\ UNCHANGED <<worker, notify, closed, submit>>
    BY <1>6 DEF TryNext
  <2>2. notify = 1 \/ closed \/ SignalPending
    BY <2>1 DEF NoLostWakeup, SignalPending
  <2>3. Head(queue) \in Runs /\ exec[Head(queue)] = "queued"
    <3>1. queue # << >> /\ Len(queue) \in Nat \ {0}
      BY <2>1, EmptySeq DEF SlotAndWork
    <3>2. Head(queue) = queue[1] /\ Head(queue) \in Runs /\ 1 \in 1..Len(queue)
      BY <3>1, HeadTailProperties
    <3> QED
      BY <3>2 DEF QueueExact
  <2>4. SignalPending => SignalPending'
    BY <1>6, <2>1, <2>3 DEF TryNext, PopHead, SignalPending
  <2> QED
    BY <2>1, <2>2, <2>4
<1>7. ASSUME NEW r \in Runs, ReleaseSlot(r) PROVE SignalPending'
  BY <1>7 DEF ReleaseSlot, SignalPending
<1>8. ASSUME NEW r \in Runs, ReleaseSignal(r) PROVE notify' = 1 \/ closed'
  BY <1>8 DEF ReleaseSignal
<1>9. CASE Close
  BY <1>9 DEF Close
<1>10. CASE UNCHANGED vars
  BY <1>10 DEF vars, NoLostWakeup, SlotAndWork, SignalPending
<1> QED
  BY <1>1, <1>2, <1>3, <1>4, <1>5, <1>6, <1>7, <1>8, <1>9, <1>10 DEF Next, Worker

\* The capacity-one channel of Enqueue, Next and Release loses no wake-up.
THEOREM SchedulerNoLostWakeup == Spec => []NoLostWakeup
<1>1. Init => NoLostWakeup
  BY DEF Init, NoLostWakeup
<1> QED
  BY <1>1, NextNoLostWakeup, SchedulerInvariant, PTL DEF Spec

----------------------------------------------------------------------------
(* Refinement                                                              *)

\* The initial state of the scheduler is one of the abstract queue.
LEMMA InitImplements == Init => Abstract!RQInit
BY DEF Init, Abstract!RQInit

\* Every step of the scheduler is a step of the abstract queue or leaves it alone.
LEMMA NextImplements == IInv /\ [Next]_vars => [Abstract!RQNext]_(Abstract!rqVars)
<1> SUFFICES ASSUME IInv, [Next]_vars
             PROVE  Abstract!RQNext \/ UNCHANGED <<queue, activeCount, closed>>
  BY DEF Abstract!rqVars
<1> USE DEF IInv, TypeOK
<1>1. ASSUME NEW r \in Runs, EnqueueAppend(r) PROVE Abstract!RQNext
  BY <1>1 DEF EnqueueAppend, Abstract!RQNext, Abstract!RQEnqueue
<1>2. CASE NextDispatch \/ TryNext
  <2>1. SlotAndWork /\ PopHead /\ UNCHANGED closed
    BY <1>2 DEF NextDispatch, TryNext
  <2>2. Head(queue) \in Runs
    BY <2>1, HeadTailProperties DEF SlotAndWork
  <2>3. Abstract!RQDispatch(Head(queue))
    BY <2>1 DEF SlotAndWork, PopHead, Abstract!RQDispatch, Abstract!Dispatchable
  <2> QED
    BY <2>2, <2>3 DEF Abstract!RQNext
<1>3. ASSUME NEW r \in Runs, ReleaseSlot(r) PROVE Abstract!RQNext
  <2>1. r \in Active
    BY <1>3 DEF ReleaseSlot, Active
  <2>2. activeCount > 0
    BY <2>1, ActiveFinite, FS_EmptySet DEF SlotsAccounted
  <2> QED
    BY <1>3, <2>2 DEF ReleaseSlot, Abstract!RQNext, Abstract!RQRelease
<1>4. CASE Close
  BY <1>4 DEF Close, Abstract!RQNext, Abstract!RQClose
<1>5. ASSUME NEW r \in Runs, EnqueueSignal(r) \/ ReleaseSignal(r)
      PROVE  UNCHANGED <<queue, activeCount, closed>>
  BY <1>5 DEF EnqueueSignal, ReleaseSignal
<1>6. CASE NextBlock \/ NextReceive
  BY <1>6 DEF NextBlock, NextReceive
<1>7. CASE UNCHANGED vars
  BY <1>7 DEF vars
<1> QED
  BY <1>1, <1>2, <1>3, <1>4, <1>5, <1>6, <1>7 DEF Next, Worker

\* The scheduler of locks and channels hands out runs as the abstract queue does: in
\* order of arrival, one slot each, never above the limit.
THEOREM SchedulerImplementsRunQueue == Spec => Abstract!RQSafety
BY InitImplements, NextImplements, SchedulerInvariant, PTL DEF Spec, Abstract!RQSafety
=============================================================================
