---------------------------- MODULE StoresProofs ----------------------------
(***************************************************************************)
(* Proofs about Stores.tla, for every registry of devices and any number   *)
(* of runs, VMs, results and writes: the two stores cannot be told apart   *)
(* by what the API, the engine and the VM manager read, but for the        *)
(* messages, the fractions of a duration and the order of the results that *)
(* BackendsAgree names.                                                    *)
(*                                                                         *)
(* The invariant StoresInv relates the two tables row by row (RowsAgree),  *)
(* with the bounds on the times that make the durations come out as close: *)
(* a row's times lie before the clock, and a run that was created later    *)
(* has a later creation time.  The last of these gives ORDER BY created_at *)
(* a unique result, on which the pages rest.  ResultsMatch does the same   *)
(* for the results of a run, saved or about to be: their times of          *)
(* completion differ, so that ORDER BY completed_at lists each once.       *)
(***************************************************************************)
EXTENDS Stores, FiniteSetTheorems, SequenceTheorems, WellFoundedInduction, TLAPS

----------------------------------------------------------------------------
(* The invariant                                                           *)

\* The statuses that the engine gives to a run, and those of a result.
RunStatuses == {"PENDING", "RUNNING", "PASSED", "FAILED", "ERRORED", "CANCELLED"}
ResultStatuses == {"PASSED", "FAILED", "ERRORED"}

Texts == {"", "waiting for resources", "what failed", "cancelled"}
PgTexts == Texts \cup {NULL}
Owners == {"queued", "executing", "done"}

Row(T) == [device : Devices, status : RunStatuses, created : Nat, started : Nat,
           completed : Nat, duration : Nat, msg : T]
MemRow == Row(Texts)
PgRow == Row(PgTexts)
VMRow == [device : Devices, status : VMStatuses, created : Nat]
Result == [status : ResultStatuses, at : Nat \ {0}]
ResultList == Seq(Result)
ResultSet == SUBSET Result

StoresTypeOK ==
  /\ clock \in Nat \ {0}
  /\ mem \in [runs : Seq(MemRow), results : Seq(ResultList), vms : Seq(VMRow)]
  /\ pg \in [runs : Seq(PgRow), results : Seq(ResultSet), vms : Seq(VMRow)]
  /\ owner \in Seq(Owners)
  /\ saving \in Seq(ResultSet)

\* A time d in whole milliseconds and to the nearest one.
Measured(d, whole, nearest) ==
  /\ UnitsPerMs * whole <= d /\ d < UnitsPerMs * (whole + 1)
  /\ nearest = IF 2 * (d - UnitsPerMs * whole) < UnitsPerMs THEN whole ELSE whole + 1

\* A row m of the memory store and the row p of the same run in Postgres, before time now.
RowsAgree(m, p, now) ==
  /\ p.device = m.device /\ p.status = m.status /\ p.created = m.created
  /\ p.started = m.started /\ p.completed = m.completed
  /\ 0 < m.created /\ m.created < now /\ m.started < now /\ m.completed < now
  /\ \/ p.msg = m.msg
     \/ p.msg = NULL /\ (m.msg = "" \/ Messages[m.status] = "")
  /\ m.started # nil /\ m.started < m.completed =>
       Measured(m.completed - m.started, m.duration, p.duration)
  /\ p.duration \notin {m.duration, m.duration + 1} => m.started = nil \/ m.completed < m.started

\* The results of a run, as the list of the memory store, the table of Postgres and the
\* results that wait to be saved, before time now.
ResultsMatch(list, table, ahead, now) ==
  /\ table = {list[k] : k \in 1..Len(list)}
  /\ \A k \in 1..Len(list) : list[k].at < now
  /\ \A j, k \in 1..Len(list) : list[j].at = list[k].at => j = k
  /\ \A x \in ahead : x.at < now /\ \A k \in 1..Len(list) : list[k].at # x.at
  /\ \A x, y \in ahead : x.at = y.at => x = y

Tables ==
  /\ Len(pg.runs) = Len(mem.runs)
  /\ Len(mem.results) = Len(mem.runs) /\ Len(pg.results) = Len(mem.runs)
  /\ Len(owner) = Len(mem.runs) /\ Len(saving) = Len(mem.runs)
  /\ pg.vms = mem.vms
  /\ \A i \in 1..Len(mem.runs) : RowsAgree(mem.runs[i], pg.runs[i], clock)
  /\ \A i \in 1..Len(mem.runs) : ResultsMatch(mem.results[i], pg.results[i], saving[i], clock)
  /\ \A i, j \in 1..Len(mem.runs) : i < j => mem.runs[i].created < mem.runs[j].created

StoresInv == StoresTypeOK /\ Tables

----------------------------------------------------------------------------
(* One row                                                                 *)

\* The message that goes with a status.
LEMMA MessageType == \A s \in RunStatuses : Messages[s] \in Texts
<1> TAKE s \in RunStatuses
<1>1. CASE s = "RUNNING"
  BY <1>1 DEF Texts, Messages
<1>2. CASE s = "PENDING"
  BY <1>2 DEF Texts, Messages
<1>3. CASE s = "ERRORED"
  BY <1>3 DEF Texts, Messages
<1>4. CASE s = "CANCELLED"
  BY <1>4 DEF Texts, Messages
<1>5. CASE s = "PASSED"
  BY <1>5 DEF Texts, Messages
<1>6. CASE s = "FAILED"
  BY <1>6 DEF Texts, Messages
<1> QED
  BY <1>1, <1>2, <1>3, <1>4, <1>5, <1>6 DEF RunStatuses

\* Milliseconds and NearestMilliseconds.
LEMMA Durations ==
  ASSUME NEW d \in Nat
  PROVE  /\ Milliseconds(d) \in Nat /\ NearestMilliseconds(d) \in Nat
         /\ Measured(d, Milliseconds(d), NearestMilliseconds(d))
BY DEF Milliseconds, NearestMilliseconds, UnitsPerMs, Measured

\* The assignment of the five columns that UpdateTestRunStatus writes.
Written(row, s, text, start, end, dur) ==
  [row EXCEPT !.status = s, !.msg = text, !.started = start, !.completed = end, !.duration = dur]

\* What such an assignment yields.
LEMMA WrittenRow ==
  ASSUME NEW T, NEW row \in Row(T), NEW s \in RunStatuses, NEW text \in T,
         NEW start \in Nat, NEW end \in Nat, NEW dur \in Nat
  PROVE  LET new == Written(row, s, text, start, end, dur)
         IN  /\ new \in Row(T)
             /\ new.device = row.device /\ new.status = s /\ new.created = row.created
             /\ new.started = start /\ new.completed = end /\ new.duration = dur /\ new.msg = text
BY DEF Written, Row

\* The two forms of UpdateTestRunStatus as such an assignment.
LEMMA UpdateIsWrite ==
  ASSUME NEW T, NEW row \in Row(T), NEW s, NEW text
  PROVE  /\ MemUpdate(row, s, text) =
              Written(row, s,
                      IF text # "" THEN text ELSE row.msg,
                      IF s = "RUNNING" THEN clock ELSE row.started,
                      IF s \in Final THEN clock ELSE row.completed,
                      IF s \in Final /\ row.started # nil THEN Milliseconds(clock - row.started)
                                                            ELSE row.duration)
         /\ PgUpdate(row, s, text) =
              Written(row, s,
                      nullableStr(text),
                      IF s = "RUNNING" THEN clock ELSE row.started,
                      IF s \in Final THEN clock ELSE row.completed,
                      IF s \in Final THEN NearestMilliseconds(clock - coalesceTime(row.started, row.created))
                                     ELSE row.duration)
BY DEF MemUpdate, PgUpdate, Written, Row

\* UpdateTestRunStatus keeps the two rows of a run in agreement, and the creation time.
LEMMA UpdateRows ==
  ASSUME clock \in Nat \ {0}, NEW m \in MemRow, NEW p \in PgRow, RowsAgree(m, p, clock),
         NEW s \in RunStatuses
  PROVE  /\ MemUpdate(m, s, Messages[s]) \in MemRow
         /\ PgUpdate(p, s, Messages[s]) \in PgRow
         /\ MemUpdate(m, s, Messages[s]).created = m.created
         /\ RowsAgree(MemUpdate(m, s, Messages[s]), PgUpdate(p, s, Messages[s]), clock + 1)
<1> DEFINE g == Messages[s]
           a == MemUpdate(m, s, g)
           b == PgUpdate(p, s, g)
           text == IF g # "" THEN g ELSE m.msg
           column == nullableStr(g)
           start == IF s = "RUNNING" THEN clock ELSE m.started
           end == IF s \in Final THEN clock ELSE m.completed
           memDur == IF s \in Final /\ m.started # nil THEN Milliseconds(clock - m.started) ELSE m.duration
           pgDur == IF s \in Final THEN NearestMilliseconds(clock - coalesceTime(m.started, m.created))
                                   ELSE p.duration
<1>1. g \in Texts /\ column \in PgTexts
  BY MessageType DEF nullableStr, PgTexts
<1> HIDE DEF g
<1>2. /\ m.created \in Nat /\ m.started \in Nat /\ m.completed \in Nat
      /\ m.duration \in Nat /\ m.msg \in Texts
      /\ p.device = m.device /\ p.created = m.created /\ p.started = m.started
      /\ p.completed = m.completed /\ p.duration \in Nat
      /\ 0 < m.created /\ m.created < clock /\ m.started < clock /\ m.completed < clock
  BY DEF MemRow, PgRow, Row, RowsAgree
<1>3. text \in Texts
  BY <1>1, <1>2
<1>4. /\ start \in Nat /\ end \in Nat /\ start < clock + 1 /\ end < clock + 1
      /\ memDur \in Nat /\ pgDur \in Nat
  <2>1. clock - m.started \in Nat /\ clock - coalesceTime(m.started, m.created) \in Nat
    BY <1>2 DEF coalesceTime
  <2> QED
    BY <1>2, <2>1, Durations
<1>5. a = Written(m, s, text, start, end, memDur)
  BY UpdateIsWrite DEF MemRow
<1>6. b = Written(p, s, column, start, end, pgDur)
  <2>1. b = Written(p, s, column,
                    IF s = "RUNNING" THEN clock ELSE p.started,
                    IF s \in Final THEN clock ELSE p.completed,
                    IF s \in Final THEN NearestMilliseconds(clock - coalesceTime(p.started, p.created))
                                   ELSE p.duration)
    BY UpdateIsWrite DEF PgRow
  <2> QED
    BY <1>2, <2>1
<1> HIDE DEF a, b, text, column, start, end, memDur, pgDur
<1>7. /\ a \in MemRow
      /\ a.device = m.device /\ a.status = s /\ a.created = m.created
      /\ a.started = start /\ a.completed = end /\ a.duration = memDur /\ a.msg = text
  BY <1>3, <1>4, <1>5, WrittenRow DEF MemRow
<1>8. /\ b \in PgRow
      /\ b.device = p.device /\ b.status = s /\ b.created = p.created
      /\ b.started = start /\ b.completed = end /\ b.duration = pgDur /\ b.msg = column
  <2>1. p \in Row(PgTexts) /\ column \in PgTexts
    BY <1>1 DEF PgRow
  <2> QED
    BY <1>4, <1>6, <2>1, WrittenRow DEF PgRow
<1>9. \/ b.msg = a.msg
      \/ b.msg = NULL /\ (a.msg = "" \/ Messages[a.status] = "")
  BY <1>7, <1>8 DEF nullableStr, text, column, g
<1>10. /\ start # nil /\ start < end => Measured(end - start, memDur, pgDur)
       /\ pgDur \notin {memDur, memDur + 1} => start = nil \/ end < start
  <2>1. CASE s = "RUNNING"
    BY <1>2, <2>1 DEF start, end, memDur, pgDur, Final
  <2>2. CASE s \in Final
    <3>1. start = m.started /\ end = clock
      BY <2>2 DEF start, end, Final
    <3>2. ASSUME m.started # nil PROVE Measured(clock - m.started, memDur, pgDur)
      <4>1. clock - m.started \in Nat
        BY <1>2
      <4>2. memDur = Milliseconds(clock - m.started) /\ pgDur = NearestMilliseconds(clock - m.started)
        BY <2>2, <3>2 DEF memDur, pgDur, coalesceTime
      <4> QED
        BY <4>1, <4>2, Durations
    <3>3. m.started # nil => pgDur \in {memDur, memDur + 1}
      BY <3>2 DEF Measured
    <3> QED
      BY <3>1, <3>2, <3>3
  <2>3. CASE s # "RUNNING" /\ s \notin Final
    BY <2>3 DEF start, end, memDur, pgDur, RowsAgree
  <2> QED
    BY <2>1, <2>2, <2>3
<1>11. RowsAgree(a, b, clock + 1)
  <2>1. /\ b.device = a.device /\ b.status = a.status /\ b.created = a.created
        /\ b.started = a.started /\ b.completed = a.completed
        /\ 0 < a.created /\ a.created < clock + 1 /\ a.started < clock + 1 /\ a.completed < clock + 1
    BY <1>2, <1>4, <1>7, <1>8
  <2>2. /\ a.started # nil /\ a.started < a.completed =>
             Measured(a.completed - a.started, a.duration, b.duration)
        /\ b.duration \notin {a.duration, a.duration + 1} => a.started = nil \/ a.completed < a.started
    BY <1>7, <1>8, <1>10
  <2> QED
    BY <1>9, <2>1, <2>2 DEF RowsAgree
<1> QED
  BY <1>7, <1>8, <1>11 DEF a, b, g

\* Rows that are not written stay in agreement as the clock moves on.
LEMMA RowsAgreeLater ==
  ASSUME clock \in Nat, NEW m \in MemRow, NEW p, RowsAgree(m, p, clock)
  PROVE  RowsAgree(m, p, clock + 1)
<1>1. /\ m.created \in Nat /\ m.started \in Nat /\ m.completed \in Nat
      /\ m.created < clock /\ m.started < clock /\ m.completed < clock
  BY DEF RowsAgree, MemRow, Row
<1>2. m.created < clock + 1 /\ m.started < clock + 1 /\ m.completed < clock + 1
  BY <1>1
<1> QED
  BY <1>2 DEF RowsAgree

----------------------------------------------------------------------------
(* The results of one run                                                  *)

\* An element of a list of results.
LEMMA ResultOfList ==
  ASSUME NEW list \in ResultList, NEW k \in 1..Len(list)
  PROVE  list[k] \in Result /\ list[k].status \in ResultStatuses /\ list[k].at \in Nat /\ 0 < list[k].at
<1>1. list[k] \in Result
  BY ElementOfSeq DEF ResultList
<1> QED
  BY <1>1 DEF Result

\* The results of a run still match as the clock moves on.
LEMMA ResultsMatchLater ==
  ASSUME NEW now \in Nat, NEW list \in ResultList, NEW ahead \in ResultSet, NEW table,
         ResultsMatch(list, table, ahead, now)
  PROVE  ResultsMatch(list, table, ahead, now + 1)
<1>1. \A k \in 1..Len(list) : list[k].at \in Nat /\ list[k].at < now
  BY ResultOfList DEF ResultsMatch
<1>2. \A x \in ahead : x.at \in Nat /\ x.at < now
  BY DEF ResultSet, Result, ResultsMatch
<1>3. /\ \A k \in 1..Len(list) : list[k].at < now + 1
      /\ \A x \in ahead : x.at < now + 1
  BY <1>1, <1>2
<1> QED
  BY <1>3 DEF ResultsMatch

\* A result that completes now is new.
LEMMA CompleteMatches ==
  ASSUME NEW now \in Nat \ {0}, NEW list \in ResultList, NEW ahead \in ResultSet, NEW table,
         ResultsMatch(list, table, ahead, now), NEW x \in Result, x.at = now
  PROVE  ResultsMatch(list, table, ahead \cup {x}, now + 1)
<1>1. \A k \in 1..Len(list) : list[k].at \in Nat /\ list[k].at < now
  BY ResultOfList DEF ResultsMatch
<1>2. \A y \in ahead : y.at \in Nat /\ y.at < now
  BY DEF ResultSet, Result, ResultsMatch
<1>3. /\ \A k \in 1..Len(list) : list[k].at < now + 1 /\ list[k].at # now
      /\ \A y \in ahead : y.at < now + 1 /\ y.at # now
      /\ now < now + 1
  BY <1>1, <1>2
<1> QED
  BY <1>3 DEF ResultsMatch

\* A result is saved in both stores, and does not wait any more.
LEMMA SaveMatches ==
  ASSUME NEW now \in Nat, NEW list \in ResultList, NEW ahead \in ResultSet, NEW table,
         ResultsMatch(list, table, ahead, now), NEW x \in ahead
  PROVE  ResultsMatch(Append(list, x), table \cup {x}, ahead \ {x}, now)
<1> DEFINE n == Len(list)
           new == Append(list, x)
<1>1. /\ n \in Nat /\ Len(new) = n + 1 /\ new[n + 1] = x
      /\ \A k \in 1..n : new[k] = list[k]
  BY AppendProperties, LenProperties DEF ResultList, ResultSet
<1>2. \A k \in 1..(n + 1) : k \in 1..n \/ k = n + 1
  BY <1>1
<1>3. \A k \in 1..n : k \in 1..(n + 1) /\ n + 1 \in 1..(n + 1)
  BY <1>1
<1>4. n + 1 \in 1..(n + 1)
  BY <1>1
<1> HIDE DEF n, new
<1>5. /\ table = {list[k] : k \in 1..n}
      /\ \A k \in 1..n : list[k].at < now /\ list[k].at # x.at
      /\ \A j, k \in 1..n : list[j].at = list[k].at => j = k
      /\ x.at < now
      /\ \A y \in ahead : y.at < now /\ \A k \in 1..n : list[k].at # y.at
      /\ \A y, z \in ahead : y.at = z.at => y = z
  BY DEF ResultsMatch, n
<1>6. table \cup {x} = {new[k] : k \in 1..(n + 1)}
  BY <1>1, <1>2, <1>3, <1>4, <1>5
<1>7. \A k \in 1..(n + 1) : new[k].at < now
  BY <1>1, <1>2, <1>5
<1>8. \A j, k \in 1..(n + 1) : new[j].at = new[k].at => j = k
  BY <1>1, <1>2, <1>5
<1>9. \A y \in ahead \ {x} : \A k \in 1..(n + 1) : new[k].at # y.at
  BY <1>1, <1>2, <1>5
<1> QED
  BY <1>1, <1>5, <1>6, <1>7, <1>8, <1>9 DEF ResultsMatch, new

----------------------------------------------------------------------------
(* The tables                                                              *)

\* Replacing one element of a sequence.
LEMMA ReplaceElement ==
  ASSUME NEW S, NEW seq \in Seq(S), NEW i \in 1..Len(seq), NEW e \in S
  PROVE  LET new == [seq EXCEPT ![i] = e]
         IN  /\ new \in Seq(S)
             /\ Len(new) = Len(seq)
             /\ new[i] = e
             /\ \A j \in 1..Len(seq) : j # i => new[j] = seq[j]
<1> DEFINE new == [seq EXCEPT ![i] = e]
<1>1. Len(seq) \in Nat /\ seq \in [1..Len(seq) -> S]
  BY LenProperties
<1>2. new \in [1..Len(seq) -> S]
  BY <1>1
<1>3. new \in Seq(S) /\ Len(new) = Len(seq)
  BY <1>1, <1>2
<1> QED
  BY <1>1, <1>3

\* The parts of the two stores.
LEMMA Parts ==
  ASSUME StoresTypeOK
  PROVE  /\ mem = [runs |-> mem.runs, results |-> mem.results, vms |-> mem.vms]
         /\ pg = [runs |-> pg.runs, results |-> pg.results, vms |-> pg.vms]
         /\ mem.runs \in Seq(MemRow) /\ mem.results \in Seq(ResultList) /\ mem.vms \in Seq(VMRow)
         /\ pg.runs \in Seq(PgRow) /\ pg.results \in Seq(ResultSet) /\ pg.vms \in Seq(VMRow)
         /\ Len(mem.runs) \in Nat /\ Len(mem.results) \in Nat /\ Len(mem.vms) \in Nat
         /\ clock \in Nat \ {0} /\ owner \in Seq(Owners) /\ saving \in Seq(ResultSet)
BY DEF StoresTypeOK

\* The shape of the next state, part by part.
LEMMA NextTypes ==
  ASSUME StoresTypeOK, clock' \in {clock, clock + 1}, owner' \in Seq(Owners), saving' \in Seq(ResultSet),
         NEW r \in Seq(MemRow), NEW q \in Seq(PgRow), NEW rs \in Seq(ResultList), NEW qs \in Seq(ResultSet),
         NEW v \in Seq(VMRow), NEW w \in Seq(VMRow),
         mem' = [runs |-> r, results |-> rs, vms |-> v], pg' = [runs |-> q, results |-> qs, vms |-> w]
  PROVE  StoresTypeOK'
BY DEF StoresTypeOK

\* The stores are empty in the beginning.
LEMMA InitStores == Init => StoresInv
<1> SUFFICES ASSUME Init PROVE StoresInv
  OBVIOUS
<1>1. /\ << >> \in Seq(MemRow) /\ << >> \in Seq(PgRow) /\ << >> \in Seq(VMRow)
      /\ << >> \in Seq(ResultList) /\ << >> \in Seq(ResultSet) /\ << >> \in Seq(Owners)
  BY EmptySeq
<1>2. StoresTypeOK
  BY <1>1 DEF Init, StoresTypeOK, NewMemoryStore, ensureSchema
<1>3. Tables
  BY DEF Init, Tables, NewMemoryStore, ensureSchema
<1> QED
  BY <1>2, <1>3 DEF StoresInv

\* A step that writes no run leaves the rows in agreement.
LEMMA UnwrittenRuns ==
  ASSUME StoresInv, clock' \in {clock, clock + 1}
  PROVE  \A j \in 1..Len(mem.runs) : RowsAgree(mem.runs[j], pg.runs[j], clock')
<1> TAKE j \in 1..Len(mem.runs)
<1>1. mem.runs[j] \in MemRow /\ RowsAgree(mem.runs[j], pg.runs[j], clock) /\ clock \in Nat
  BY Parts, ElementOfSeq DEF StoresInv, Tables
<1>2. CASE clock' = clock
  BY <1>1, <1>2
<1>3. CASE clock' = clock + 1
  BY <1>1, <1>3, RowsAgreeLater
<1> QED
  BY <1>2, <1>3

\* The results of a run and what the invariant says of them.
LEMMA ResultsOf ==
  ASSUME StoresInv, NEW j \in 1..Len(mem.runs)
  PROVE  /\ mem.results[j] \in ResultList /\ saving[j] \in ResultSet /\ pg.results[j] \in ResultSet
         /\ ResultsMatch(mem.results[j], pg.results[j], saving[j], clock)
BY Parts, ElementOfSeq DEF StoresInv, Tables

\* A step that saves no result leaves the results in agreement.
LEMMA UnwrittenResults ==
  ASSUME StoresInv, clock' \in {clock, clock + 1}
  PROVE  \A j \in 1..Len(mem.runs) : ResultsMatch(mem.results[j], pg.results[j], saving[j], clock')
<1> TAKE j \in 1..Len(mem.runs)
<1>1. clock \in Nat
  BY Parts DEF StoresInv
<1>2. CASE clock' = clock
  BY <1>2, ResultsOf
<1>3. CASE clock' = clock + 1
  BY <1>1, <1>3, ResultsOf, ResultsMatchLater
<1> QED
  BY <1>2, <1>3

\* A status written to both stores.
LEMMA UpdateStores ==
  ASSUME StoresInv, NEW i \in 1..Len(mem.runs), NEW s \in RunStatuses, UpdateTestRunStatus(i, s),
         clock' = clock + 1, owner' \in Seq(Owners), Len(owner') = Len(owner), saving' = saving
  PROVE  StoresInv'
<1> DEFINE a == MemUpdate(mem.runs[i], s, Messages[s])
           b == PgUpdate(pg.runs[i], s, Messages[s])
           r == [mem.runs EXCEPT ![i] = a]
           q == [pg.runs EXCEPT ![i] = b]
<1>1. /\ mem.runs \in Seq(MemRow) /\ pg.runs \in Seq(PgRow) /\ Len(mem.runs) \in Nat
      /\ clock \in Nat \ {0} /\ Len(pg.runs) = Len(mem.runs)
      /\ mem.results \in Seq(ResultList) /\ mem.vms \in Seq(VMRow)
      /\ pg.results \in Seq(ResultSet) /\ pg.vms \in Seq(VMRow) /\ saving \in Seq(ResultSet)
  BY Parts DEF StoresInv, Tables
<1>2. /\ mem.runs[i] \in MemRow /\ pg.runs[i] \in PgRow
      /\ RowsAgree(mem.runs[i], pg.runs[i], clock)
  BY <1>1, ElementOfSeq DEF StoresInv, Tables
<1>3. a \in MemRow /\ b \in PgRow /\ a.created = mem.runs[i].created /\ RowsAgree(a, b, clock + 1)
  BY <1>1, <1>2, UpdateRows
<1>4. /\ mem' = [runs |-> r, results |-> mem.results, vms |-> mem.vms]
      /\ pg' = [runs |-> q, results |-> pg.results, vms |-> pg.vms]
  <2>1. /\ mem' = [mem EXCEPT !.runs = [mem.runs EXCEPT ![i] = a]]
        /\ pg' = [pg EXCEPT !.runs = [pg.runs EXCEPT ![i] = b]]
    BY DEF UpdateTestRunStatus
  <2> QED
    BY <2>1, Parts DEF StoresInv
<1> HIDE DEF a, b
<1>5. /\ r \in Seq(MemRow) /\ Len(r) = Len(mem.runs) /\ r[i] = a
      /\ \A j \in 1..Len(mem.runs) : j # i => r[j] = mem.runs[j]
  BY <1>1, <1>3, ReplaceElement
<1>6. /\ q \in Seq(PgRow) /\ Len(q) = Len(mem.runs) /\ q[i] = b
      /\ \A j \in 1..Len(mem.runs) : j # i => q[j] = pg.runs[j]
  BY <1>1, <1>3, ReplaceElement
<1> HIDE DEF r, q
<1>7. StoresTypeOK'
  BY <1>1, <1>4, <1>5, <1>6, NextTypes DEF StoresInv
<1>8. ASSUME NEW j \in 1..Len(mem.runs)
      PROVE  RowsAgree(r[j], q[j], clock + 1) /\ r[j].created = mem.runs[j].created
  <2>1. CASE j = i
    BY <1>3, <1>5, <1>6, <2>1
  <2>2. CASE j # i
    <3>1. r[j] = mem.runs[j] /\ q[j] = pg.runs[j]
      BY <1>5, <1>6, <2>2
    <3>2. mem.runs[j] \in MemRow /\ RowsAgree(mem.runs[j], pg.runs[j], clock)
      BY <1>1, ElementOfSeq DEF StoresInv, Tables
    <3> QED
      BY <1>1, <3>1, <3>2, RowsAgreeLater
  <2> QED
    BY <2>1, <2>2
<1>9. /\ mem.runs' = r /\ pg.runs' = q /\ mem.results' = mem.results /\ pg.results' = pg.results
      /\ mem.vms' = mem.vms /\ pg.vms' = pg.vms
  BY <1>4
<1>10. Tables'
  BY <1>5, <1>6, <1>8, <1>9, UnwrittenResults DEF StoresInv, Tables
<1> QED
  BY <1>7, <1>10 DEF StoresInv

\* CreateTestRun.
LEMMA SubmitStores == StoresInv /\ Submit => StoresInv'
<1> SUFFICES ASSUME StoresInv, Submit PROVE StoresInv'
  OBVIOUS
<1>1. PICK d \in Devices : mem' = MemCreateTestRun(d) /\ pg' = PgCreateTestRun(d)
  BY DEF Submit
<1>2. clock' = clock + 1 /\ owner' = Append(owner, "queued") /\ saving' = Append(saving, {})
  BY DEF Submit, Tick
<1> DEFINE n == Len(mem.runs)
           a == [device |-> d, status |-> "PENDING", created |-> clock, started |-> nil,
                 completed |-> nil, duration |-> 0, msg |-> ""]
           b == [device |-> d, status |-> "PENDING", created |-> clock, started |-> nil,
                 completed |-> nil, duration |-> 0, msg |-> NULL]
           r == Append(mem.runs, a)
           q == Append(pg.runs, b)
           rs == Append(mem.results, << >>)
           qs == Append(pg.results, {})
           o == Append(owner, "queued")
           w == Append(saving, {})
<1>3. /\ mem.runs \in Seq(MemRow) /\ pg.runs \in Seq(PgRow) /\ n \in Nat
      /\ clock \in Nat \ {0} /\ Len(pg.runs) = n /\ Len(mem.results) = n /\ Len(owner) = n
      /\ mem.results \in Seq(ResultList) /\ pg.results \in Seq(ResultSet) /\ Len(pg.results) = n
      /\ saving \in Seq(ResultSet) /\ Len(saving) = n
      /\ mem.vms \in Seq(VMRow) /\ pg.vms = mem.vms /\ owner \in Seq(Owners)
  BY Parts DEF StoresInv, Tables
<1>4. /\ mem' = [runs |-> r, results |-> rs, vms |-> mem.vms]
      /\ pg' = [runs |-> q, results |-> qs, vms |-> mem.vms]
  <2>1. /\ mem' = [mem EXCEPT !.runs = r, !.results = rs]
        /\ pg' = [pg EXCEPT !.runs = q, !.results = qs]
    BY <1>1, Parts DEF MemCreateTestRun, PgCreateTestRun, nullableStr, StoresInv
  <2> QED
    BY <1>3, <2>1, Parts DEF StoresInv
<1>5. a \in MemRow /\ b \in PgRow
  <2>1. "PENDING" \in RunStatuses /\ "" \in Texts /\ NULL \in PgTexts /\ nil \in Nat
    BY DEF RunStatuses, Texts, PgTexts, nil
  <2> QED
    BY <1>3, <2>1 DEF MemRow, PgRow, Row
<1>6. << >> \in ResultList /\ {} \in ResultSet /\ "queued" \in Owners
  BY EmptySeq DEF ResultList, ResultSet, Owners
<1>7. RowsAgree(a, b, clock + 1) /\ a.created = clock
  BY <1>3 DEF RowsAgree, nil
<1> HIDE DEF a, b
<1>8. r \in Seq(MemRow) /\ Len(r) = n + 1 /\ r[n + 1] = a /\ \A j \in 1..n : r[j] = mem.runs[j]
  BY <1>3, <1>5, AppendProperties
<1>9. q \in Seq(PgRow) /\ Len(q) = n + 1 /\ q[n + 1] = b /\ \A j \in 1..n : q[j] = pg.runs[j]
  BY <1>3, <1>5, AppendProperties
<1>10. /\ rs \in Seq(ResultList) /\ Len(rs) = n + 1 /\ rs[n + 1] = << >>
       /\ \A j \in 1..n : rs[j] = mem.results[j]
  BY <1>3, <1>6, AppendProperties
<1>11. /\ qs \in Seq(ResultSet) /\ Len(qs) = n + 1 /\ qs[n + 1] = {}
        /\ \A j \in 1..n : qs[j] = pg.results[j]
  BY <1>3, <1>6, AppendProperties
<1>12. /\ w \in Seq(ResultSet) /\ Len(w) = n + 1 /\ w[n + 1] = {}
        /\ \A j \in 1..n : w[j] = saving[j]
  BY <1>3, <1>6, AppendProperties
<1>13. o \in Seq(Owners) /\ Len(o) = n + 1
  BY <1>3, <1>6, AppendProperties
<1> HIDE DEF r, q, rs, qs, o, w
<1>14. StoresTypeOK'
  BY <1>2, <1>3, <1>4, <1>8, <1>9, <1>10, <1>11, <1>12, <1>13, NextTypes DEF StoresInv, o, w
<1>15. ASSUME NEW j \in 1..(n + 1) PROVE RowsAgree(r[j], q[j], clock + 1)
  <2>1. CASE j \in 1..n
    BY <1>2, <1>8, <1>9, <2>1, UnwrittenRuns
  <2>2. CASE j = n + 1
    BY <1>7, <1>8, <1>9, <2>2
  <2>3. j \in 1..n \/ j = n + 1
    BY <1>3
  <2> QED
    BY <2>1, <2>2, <2>3
<1>16. ASSUME NEW j \in 1..(n + 1), NEW k \in 1..(n + 1), j < k PROVE r[j].created < r[k].created
  <2>1. CASE k \in 1..n
    <3>1. j \in 1..n
      BY <1>3, <1>16, <2>1
    <3> QED
      BY <1>8, <1>16, <2>1, <3>1 DEF StoresInv, Tables
  <2>2. CASE k = n + 1
    <3>1. j \in 1..n
      BY <1>3, <1>16, <2>2
    <3>2. mem.runs[j].created < clock
      BY <3>1 DEF StoresInv, Tables, RowsAgree
    <3> QED
      BY <1>7, <1>8, <2>2, <3>1, <3>2
  <2>3. k \in 1..n \/ k = n + 1
    BY <1>3
  <2> QED
    BY <2>1, <2>2, <2>3
<1>17. /\ mem.runs' = r /\ pg.runs' = q /\ mem.results' = rs /\ pg.results' = qs
       /\ mem.vms' = mem.vms /\ pg.vms' = mem.vms /\ owner' = o /\ saving' = w
  BY <1>2, <1>4 DEF o, w
<1>18. ASSUME NEW j \in 1..(n + 1) PROVE ResultsMatch(rs[j], qs[j], w[j], clock + 1)
  <2>1. CASE j \in 1..n
    BY <1>2, <1>10, <1>11, <1>12, <2>1, UnwrittenResults
  <2>2. CASE j = n + 1
    BY <1>10, <1>11, <1>12, <2>2 DEF ResultsMatch
  <2>3. j \in 1..n \/ j = n + 1
    BY <1>3
  <2> QED
    BY <2>1, <2>2, <2>3
<1>19. Tables'
  BY <1>2, <1>8, <1>9, <1>10, <1>11, <1>12, <1>13, <1>15, <1>16, <1>17, <1>18 DEF Tables
<1> QED
  BY <1>14, <1>19 DEF StoresInv

\* A step that changes the results of one run only.
LEMMA ResultStores ==
  ASSUME StoresInv, NEW i \in 1..Len(mem.runs), clock' \in {clock, clock + 1}, owner' = owner,
         NEW list \in ResultList, NEW table \in ResultSet, NEW ahead \in ResultSet,
         NEW rs, rs = [mem.results EXCEPT ![i] = list], mem' = [runs |-> mem.runs, results |-> rs, vms |-> mem.vms],
         NEW qs, qs = [pg.results EXCEPT ![i] = table], pg' = [runs |-> pg.runs, results |-> qs, vms |-> pg.vms],
         NEW w, w = [saving EXCEPT ![i] = ahead], saving' = w,
         ResultsMatch(list, table, ahead, clock')
  PROVE  StoresInv'
<1> DEFINE n == Len(mem.runs)
<1>1. /\ n \in Nat /\ Len(mem.results) = n /\ Len(pg.results) = n /\ Len(saving) = n
      /\ mem.results \in Seq(ResultList) /\ pg.results \in Seq(ResultSet) /\ saving \in Seq(ResultSet)
      /\ mem.runs \in Seq(MemRow) /\ pg.runs \in Seq(PgRow) /\ owner \in Seq(Owners)
      /\ mem.vms \in Seq(VMRow) /\ pg.vms \in Seq(VMRow)
  BY Parts DEF StoresInv, Tables
<1>2. StoresTypeOK /\ owner' \in Seq(Owners)
  BY <1>1 DEF StoresInv
<1>3. /\ rs \in Seq(ResultList) /\ Len(rs) = n /\ rs[i] = list
      /\ \A j \in 1..n : j # i => rs[j] = mem.results[j]
  BY <1>1, ReplaceElement
<1>4. /\ qs \in Seq(ResultSet) /\ Len(qs) = n /\ qs[i] = table
      /\ \A j \in 1..n : j # i => qs[j] = pg.results[j]
  BY <1>1, ReplaceElement
<1>5. /\ w \in Seq(ResultSet) /\ Len(w) = n /\ w[i] = ahead
      /\ \A j \in 1..n : j # i => w[j] = saving[j]
  BY <1>1, ReplaceElement
<1>6. saving' \in Seq(ResultSet)
  BY <1>5
<1>7. StoresTypeOK'
  BY <1>1, <1>2, <1>3, <1>4, <1>6, NextTypes, Zenon
<1>8. \A j \in 1..n : ResultsMatch(rs[j], qs[j], w[j], clock')
  BY <1>3, <1>4, <1>5, UnwrittenResults
<1>9. /\ mem.runs' = mem.runs /\ pg.runs' = pg.runs /\ mem.results' = rs /\ pg.results' = qs
      /\ mem.vms' = mem.vms /\ pg.vms' = pg.vms
  OBVIOUS
<1>10. Tables'
  BY <1>3, <1>4, <1>5, <1>6, <1>8, <1>9, UnwrittenRuns DEF StoresInv, Tables
<1> QED
  BY <1>7, <1>10 DEF StoresInv

\* processResultsForStep takes the time of a result.
LEMMA CompleteResultStores ==
  ASSUME StoresInv, NEW i \in 1..Len(mem.runs), CompleteResult(i)
  PROVE  StoresInv'
<1>1. PICK s \in ResultStatuses : saving' = [saving EXCEPT ![i] = @ \cup {[status |-> s, at |-> clock]}]
  BY DEF CompleteResult, ResultStatuses
<1> DEFINE x == [status |-> s, at |-> clock]
           ahead == saving[i] \cup {x}
<1>2. mem' = mem /\ pg' = pg /\ clock' = clock + 1 /\ owner' = owner
  BY DEF CompleteResult, Tick
<1>3. clock \in Nat \ {0}
  BY Parts DEF StoresInv
<1>4. x \in Result /\ x.at = clock
  BY <1>3 DEF Result
<1>5. saving' = [saving EXCEPT ![i] = ahead]
  BY <1>1
<1>6. /\ mem.results[i] \in ResultList /\ saving[i] \in ResultSet /\ pg.results[i] \in ResultSet
      /\ ResultsMatch(mem.results[i], pg.results[i], saving[i], clock)
  BY ResultsOf
<1> DEFINE rs == [mem.results EXCEPT ![i] = mem.results[i]]
           qs == [pg.results EXCEPT ![i] = pg.results[i]]
<1>7. /\ mem' = [runs |-> mem.runs, results |-> rs, vms |-> mem.vms]
      /\ pg' = [runs |-> pg.runs, results |-> qs, vms |-> pg.vms]
  <2>1. /\ mem.results \in [1..Len(mem.results) -> ResultList]
        /\ pg.results \in [1..Len(pg.results) -> ResultSet]
    BY Parts, LenProperties DEF StoresInv
  <2>2. rs = mem.results /\ qs = pg.results
    BY <2>1
  <2> HIDE DEF rs, qs
  <2> QED
    BY <1>2, <2>2, Parts DEF StoresInv
<1> HIDE DEF x
<1>8. ahead \in ResultSet
  BY <1>4, <1>6 DEF ResultSet
<1>9. ResultsMatch(mem.results[i], pg.results[i], ahead, clock + 1)
  BY <1>3, <1>4, <1>6, CompleteMatches
<1> HIDE DEF ahead
<1> QED
  BY <1>2, <1>5, <1>6, <1>7, <1>8, <1>9, ResultStores

\* SaveTestResult, of a run that exists in both stores.
LEMMA SaveResultStores ==
  ASSUME StoresInv, NEW i \in 1..Len(mem.runs), SaveResult(i)
  PROVE  StoresInv'
<1>1. PICK x \in saving[i] : /\ mem' = MemSaveTestResult(i, x) /\ pg' = PgSaveTestResult(i, x)
                             /\ saving' = [saving EXCEPT ![i] = @ \ {x}]
  BY DEF SaveResult
<1> DEFINE list == Append(mem.results[i], x)
           table == pg.results[i] \cup {x}
           ahead == saving[i] \ {x}
<1>2. clock' = clock /\ owner' = owner /\ clock \in Nat
  BY Parts DEF SaveResult, StoresInv
<1>3. /\ mem.results[i] \in ResultList /\ saving[i] \in ResultSet /\ pg.results[i] \in ResultSet
      /\ ResultsMatch(mem.results[i], pg.results[i], saving[i], clock)
  BY ResultsOf
<1>4. list \in ResultList /\ table \in ResultSet /\ ahead \in ResultSet
  BY <1>3, AppendProperties DEF ResultList, ResultSet
<1> DEFINE rs == [mem.results EXCEPT ![i] = list]
           qs == [pg.results EXCEPT ![i] = table]
<1>5. /\ mem' = [runs |-> mem.runs, results |-> rs, vms |-> mem.vms]
      /\ saving' = [saving EXCEPT ![i] = ahead]
  BY <1>1, Parts DEF MemSaveTestResult, StoresInv
<1>6. pg' = [runs |-> pg.runs, results |-> qs, vms |-> pg.vms]
  <2>1. i \in 1..Len(pg.runs)
    BY DEF StoresInv, Tables
  <2> QED
    BY <1>1, <2>1, Parts DEF PgSaveTestResult, StoresInv
<1>7. ResultsMatch(list, table, ahead, clock)
  BY <1>2, <1>3, SaveMatches
<1> HIDE DEF list, table, ahead
<1> QED
  BY <1>2, <1>4, <1>5, <1>6, <1>7, ResultStores

\* Both stores get the same list of VMs.
LEMMA VMStores ==
  ASSUME StoresInv, clock' \in {clock, clock + 1}, owner' = owner, saving' = saving, NEW v \in Seq(VMRow),
         mem' = [mem EXCEPT !.vms = v], pg' = [pg EXCEPT !.vms = v]
  PROVE  StoresInv'
<1>1. /\ mem' = [runs |-> mem.runs, results |-> mem.results, vms |-> v]
      /\ pg' = [runs |-> pg.runs, results |-> pg.results, vms |-> v]
  BY Parts DEF StoresInv
<1>2. StoresTypeOK'
  BY <1>1, Parts, NextTypes DEF StoresInv
<1>3. /\ mem.runs' = mem.runs /\ pg.runs' = pg.runs /\ mem.results' = mem.results
      /\ pg.results' = pg.results /\ mem.vms' = v /\ pg.vms' = v
  BY <1>1
<1>4. Tables'
  BY <1>3, UnwrittenRuns, UnwrittenResults DEF StoresInv, Tables
<1> QED
  BY <1>2, <1>4 DEF StoresInv

\* SaveVM.
LEMMA CreateVMStores == StoresInv /\ CreateVM => StoresInv'
<1> SUFFICES ASSUME StoresInv, CreateVM PROVE StoresInv'
  OBVIOUS
<1>1. PICK d \in Devices : mem' = MemSaveVM(d) /\ pg' = PgSaveVM(d)
  BY DEF CreateVM
<1> DEFINE e == [device |-> d, status |-> "CREATING", created |-> clock]
           v == Append(mem.vms, e)
<1>2. clock' = clock + 1 /\ owner' = owner /\ saving' = saving
  BY DEF CreateVM, Tick
<1>3. mem.vms \in Seq(VMRow) /\ pg.vms = mem.vms /\ clock \in Nat
  BY Parts DEF StoresInv, Tables
<1>4. "CREATING" \in VMStatuses
  BY DEF VMStatuses, VMStatusNames
<1>5. e \in VMRow
  BY <1>3, <1>4 DEF VMRow
<1>6. mem' = [mem EXCEPT !.vms = v] /\ pg' = [pg EXCEPT !.vms = v]
  BY <1>1, <1>3 DEF MemSaveVM, PgSaveVM
<1> HIDE DEF e
<1>7. v \in Seq(VMRow)
  BY <1>3, <1>5, AppendProperties
<1> QED
  BY <1>2, <1>6, <1>7, VMStores

\* UpdateVMStatus.
LEMMA MoveVMStores ==
  ASSUME StoresInv, NEW k \in 1..Len(mem.vms), MoveVM(k)
  PROVE  StoresInv'
<1>1. PICK s \in VMStatuses : mem' = MemUpdateVMStatus(k, s) /\ pg' = PgUpdateVMStatus(k, s)
  BY DEF MoveVM
<1> DEFINE e == [mem.vms[k] EXCEPT !.status = s]
           v == [mem.vms EXCEPT ![k] = e]
<1>2. clock' = clock /\ owner' = owner /\ saving' = saving
  BY DEF MoveVM
<1>3. mem.vms \in Seq(VMRow) /\ pg.vms = mem.vms
  BY Parts DEF StoresInv, Tables
<1>4. mem.vms[k] \in VMRow
  BY <1>3, ElementOfSeq
<1>5. e \in VMRow
  BY <1>4 DEF VMRow
<1>6. mem' = [mem EXCEPT !.vms = v] /\ pg' = [pg EXCEPT !.vms = v]
  BY <1>1, <1>3 DEF MemUpdateVMStatus, PgUpdateVMStatus
<1> HIDE DEF e
<1>7. v \in Seq(VMRow)
  BY <1>3, <1>5, ReplaceElement
<1> QED
  BY <1>2, <1>6, <1>7, VMStores

\* Start, Defer, Finish and Cancel write one status to both stores.
LEMMA RunStores ==
  ASSUME StoresInv, NEW i \in 1..Len(mem.runs), Start(i) \/ Defer(i) \/ Finish(i) \/ Cancel(i)
  PROVE  StoresInv'
<1>1. clock' = clock + 1 /\ saving' = saving
  BY DEF Start, Defer, Finish, Cancel, Tick
<1>2. \E s \in RunStatuses : UpdateTestRunStatus(i, s)
  <2>1. {"RUNNING", "PENDING", "ERRORED", "CANCELLED", "FAILED", "PASSED"} \subseteq RunStatuses
    BY DEF RunStatuses
  <2>2. Verdict(MemGetTestResults(i)) \in {"FAILED", "PASSED"}
    BY DEF Verdict
  <2> QED
    BY <2>1, <2>2 DEF Start, Defer, Finish, Cancel
<1>3. owner' \in Seq(Owners) /\ Len(owner') = Len(owner)
  <2>1. owner \in Seq(Owners) /\ i \in 1..Len(owner)
    BY Parts DEF StoresInv, Tables
  <2>2. owner' = owner \/ \E o \in Owners : owner' = [owner EXCEPT ![i] = o]
    BY DEF Start, Defer, Finish, Cancel, Owners
  <2>3. ASSUME NEW o \in Owners
        PROVE  [owner EXCEPT ![i] = o] \in Seq(Owners) /\ Len([owner EXCEPT ![i] = o]) = Len(owner)
    BY <2>1, ReplaceElement
  <2> QED
    BY <2>1, <2>2, <2>3
<1> QED
  BY <1>1, <1>2, <1>3, UpdateStores

\* StoresInv holds in every reachable state.
THEOREM StoresInvariant == Spec => []StoresInv
<1>1. StoresInv /\ UNCHANGED vars => StoresInv'
  <2> SUFFICES ASSUME StoresInv, UNCHANGED vars PROVE StoresInv'
    OBVIOUS
  <2>1. mem' = mem /\ pg' = pg /\ clock' = clock /\ owner' = owner /\ saving' = saving
    BY DEF vars
  <2>2. StoresTypeOK'
    BY <2>1 DEF StoresInv, StoresTypeOK
  <2>3. Tables'
    BY <2>1 DEF StoresInv, Tables
  <2> QED
    BY <2>2, <2>3 DEF StoresInv
<1>2. StoresInv /\ [Next]_vars => StoresInv'
  BY <1>1, SubmitStores, CreateVMStores, RunStores, CompleteResultStores, SaveResultStores, MoveVMStores
  DEF Next
<1> QED
  BY InitStores, <1>2, PTL DEF Spec

----------------------------------------------------------------------------
(* What the reads return                                                   *)

\* What GetTestRun makes of a row of Postgres.
LEMMA ScannedRow ==
  ASSUME NEW i, pg.runs[i] \in PgRow
  PROVE  LET row == pg.runs[i]
             got == PgGetTestRun(i)
         IN  /\ got.device = row.device /\ got.status = row.status /\ got.created = row.created
             /\ got.started = row.started /\ got.completed = row.completed
             /\ got.duration = row.duration /\ got.msg = coalesceText(row.msg, "")
BY DEF PgGetTestRun, PgRow, Row

\* The rows of a run as the reads see them.
LEMMA RowsOf ==
  ASSUME StoresInv, NEW i \in 1..Len(mem.runs)
  PROVE  /\ mem.runs[i] \in MemRow /\ pg.runs[i] \in PgRow
         /\ RowsAgree(mem.runs[i], pg.runs[i], clock)
BY Parts, ElementOfSeq DEF StoresInv, Tables

\* A non-empty set of natural numbers has a least member.
LEMMA LeastNatural ==
  ASSUME NEW T, T \subseteq Nat, T # {}
  PROVE  \E i \in T : \A j \in T : i <= j
<1>1. PICK i \in T : \A j \in T : ~(<<j, i>> \in OpToRel(<, Nat))
  BY NatLessThanWellFounded, WFMin, Zenon
<1>2. \A j \in T : ~(j < i)
  BY <1>1, Zenon DEF OpToRel
<1>3. \A j \in T : i <= j
  BY <1>2
<1> QED
  BY <1>3

\* p lists a set of numbers in decreasing order.
Descending(p, S) ==
  /\ p \in [1..Cardinality(S) -> S]
  /\ \A i, j \in 1..Cardinality(S) : i < j => p[i] > p[j]

\* Every set of numbers up to n can be listed in decreasing order: by induction on n,
\* putting the largest in front of a list of the others.
LEMMA DescendingExists ==
  ASSUME NEW n \in Nat, NEW S \in SUBSET (1..n)
  PROVE  \E p : Descending(p, S)
<1> DEFINE Bad == {k \in Nat : \E R \in SUBSET (1..k) : ~\E p : Descending(p, R)}
<1> SUFFICES ASSUME Bad # {} PROVE FALSE
  BY Zenon
<1>1. PICK k \in Bad : \A j \in Bad : k <= j
  <2>1. Bad \subseteq Nat
    OBVIOUS
  <2> HIDE DEF Bad
  <2> QED
    BY <2>1, LeastNatural
<1>2. PICK R \in SUBSET (1..k) : ~\E p : Descending(p, R)
  BY <1>1
<1>3. k \in Nat
  BY <1>1
<1>4. CASE R = {}
  <2>1. Cardinality(R) = 0
    BY <1>4, FS_EmptySet
  <2>2. Descending([i \in 1..0 |-> 0], R)
    BY <1>4, <2>1 DEF Descending
  <2> QED
    BY <1>2, <2>2
<1>5. CASE R # {}
  <2>1. k # 0 /\ k - 1 \in Nat /\ ~(k <= k - 1)
    <3>1. PICK x \in R : x \in 1..k
      BY <1>2, <1>5
    <3> QED
      BY <1>3, <3>1
  <2>2. \A Q \in SUBSET (1..(k - 1)) : \E p : Descending(p, Q)
    BY <1>1, <2>1
  <2>3. k \in R
    <3> SUFFICES ASSUME k \notin R PROVE FALSE
      OBVIOUS
    <3>1. R \in SUBSET (1..(k - 1))
      BY <1>2, <1>3
    <3> QED
      BY <1>2, <2>2, <3>1
  <2> DEFINE Q == R \ {k}
             m == Cardinality(Q)
  <2>4. Q \in SUBSET (1..(k - 1))
    BY <1>2, <1>3
  <2>5. PICK q : Descending(q, Q)
    BY <2>2, <2>4
  <2>6. IsFiniteSet(R) /\ Cardinality(R) = m + 1 /\ m \in Nat
    <3>1. IsFiniteSet(1..k)
      BY <1>3, FS_Interval
    <3>2. IsFiniteSet(R) /\ IsFiniteSet(Q)
      BY <1>2, <3>1, FS_Subset
    <3> QED
      BY <2>3, <3>2, FS_RemoveElement, FS_CardinalityType
  <2> HIDE DEF m
  <2>7. /\ q \in [1..m -> Q]
        /\ \A i, j \in 1..m : i < j => q[i] > q[j]
    BY <2>5 DEF Descending, m
  <2> DEFINE p == [i \in 1..(m + 1) |-> IF i = 1 THEN k ELSE q[i - 1]]
  <2>8. \A i \in 1..(m + 1) : i = 1 \/ i - 1 \in 1..m
    BY <2>6
  <2>9. \A i \in 1..m : q[i] \in 1..(k - 1)
    BY <2>4, <2>7
  <2>10. p \in [1..(m + 1) -> R]
    BY <2>3, <2>7, <2>8
  <2>11. ASSUME NEW i \in 1..(m + 1), NEW j \in 1..(m + 1), i < j PROVE p[i] > p[j]
    <3>1. j - 1 \in 1..m /\ p[j] = q[j - 1] /\ p[j] \in 1..(k - 1)
      BY <2>6, <2>8, <2>9, <2>11
    <3>2. CASE i = 1
      BY <1>3, <3>1, <3>2
    <3>3. CASE i # 1
      <4>1. i - 1 \in 1..m /\ p[i] = q[i - 1] /\ i - 1 < j - 1
        BY <2>6, <2>8, <2>11, <3>3
      <4> QED
        BY <2>7, <3>1, <4>1
    <3> QED
      BY <3>2, <3>3
  <2>12. Descending(p, R)
    BY <2>6, <2>10, <2>11 DEF Descending
  <2> QED
    BY <1>2, <2>12
<1> QED
  BY <1>4, <1>5

\* Postgres lists every result once, in the order in which they completed.
LEMMA CompletionOrder ==
  ASSUME NEW now \in Nat, NEW list \in ResultList, NEW S, S = {list[k] : k \in 1..Len(list)},
         \A k \in 1..Len(list) : list[k].at < now,
         \A j, k \in 1..Len(list) : list[j].at = list[k].at => j = k
  PROVE  /\ IsFiniteSet(S) /\ Cardinality(S) = Len(list)
         /\ \E q \in [1..Len(list) -> S] : InOrderOfCompletion(q)
<1> DEFINE n == Len(list)
           T == {list[k].at : k \in 1..n}
           f == [k \in 1..n |-> list[k]]
           g == [k \in 1..n |-> list[k].at]
<1>1. n \in Nat /\ \A k \in 1..n : list[k].at \in Nat /\ 0 < list[k].at
  BY ResultOfList, LenProperties DEF ResultList
<1>2. f \in Bijection(1..n, S)
  BY DEF Bijection, Injection, IsInjective, Surjection
<1>3. g \in Bijection(1..n, T)
  BY DEF Bijection, Injection, IsInjective, Surjection
<1> HIDE DEF n, f, g, T
<1>4. IsFiniteSet(1..n) /\ Cardinality(1..n) = n
  BY <1>1, FS_Interval
<1>5. ExistsBijection(1..n, S) /\ ExistsBijection(1..n, T)
  BY <1>2, <1>3, Zenon DEF ExistsBijection
<1>6. Cardinality(S) = Cardinality(1..n) /\ IsFiniteSet(S) /\ Cardinality(T) = Cardinality(1..n)
  BY <1>4, <1>5, FS_Bijection, Zenon
<1>7. IsFiniteSet(S) /\ Cardinality(S) = n
  BY <1>4, <1>6
<1>8. Cardinality(T) = n
  BY <1>4, <1>6
<1> USE DEF n, T
<1>9. T \in SUBSET (1..now)
  BY <1>1
<1>10. PICK d : Descending(d, T)
  BY <1>9, DescendingExists
<1>11. d \in [1..n -> T] /\ \A j, k \in 1..n : j < k => d[j] > d[k]
  BY <1>8, <1>10 DEF Descending
<1> DEFINE q == [k \in 1..n |-> CHOOSE x \in S : x.at = d[n + 1 - k]]
<1>12. \A k \in 1..n : \E x \in S : x.at = d[n + 1 - k]
  <2> TAKE k \in 1..n
  <2>1. n + 1 - k \in 1..n
    BY <1>1
  <2>2. d[n + 1 - k] \in T
    BY <1>11, <2>1
  <2> QED
    BY <2>2
<1> HIDE DEF n
<1>13. \A k \in 1..n : q[k] \in S /\ q[k].at = d[n + 1 - k]
  BY <1>12, Zenon
<1>14. q \in [1..n -> S]
  BY <1>13
<1>15. ASSUME NEW j \in 1..n, NEW k \in 1..n, j < k PROVE q[j].at < q[k].at
  <2>1. n + 1 - j \in 1..n /\ n + 1 - k \in 1..n /\ n + 1 - k < n + 1 - j
    BY <1>1, <1>15
  <2>2. d[n + 1 - k] > d[n + 1 - j] /\ d[n + 1 - k] \in 1..now /\ d[n + 1 - j] \in 1..now
    BY <1>9, <1>11, <2>1
  <2>3. q[j].at = d[n + 1 - j] /\ q[k].at = d[n + 1 - k]
    BY <1>13
  <2> HIDE DEF q
  <2> QED
    BY <2>2, <2>3
<1>16. InOrderOfCompletion(q)
  <2>1. DOMAIN q = 1..n
    OBVIOUS
  <2> HIDE DEF q
  <2> QED
    BY <1>15, <2>1 DEF InOrderOfCompletion
<1> QED
  BY <1>7, <1>14, <1>16 DEF n

\* Functions that agree everywhere are equal, and < is asymmetric.
LEMMA SameFunction ==
  ASSUME NEW D, NEW S, NEW p \in [D -> S], NEW m \in [D -> S], \A k \in D : p[k] = m[k]
  PROVE  p = m
OBVIOUS

LEMMA Asymmetric == \A x, y \in Nat : ~(x < y /\ y < x)
OBVIOUS

\* Two lists of the same results in the order of completion are the same list.
LEMMA OneOrder ==
  ASSUME NEW n \in Nat, NEW S \in ResultSet,
         NEW p \in Surjection(1..n, S), NEW m \in Surjection(1..n, S),
         InOrderOfCompletion(p), InOrderOfCompletion(m)
  PROVE  p = m
<1>1. /\ p \in [1..n -> S] /\ \A x \in S : \E k \in 1..n : p[k] = x
      /\ m \in [1..n -> S] /\ \A x \in S : \E k \in 1..n : m[k] = x
  BY DEF Surjection
<1>2. \A x \in S : x.at \in Nat
  BY DEF ResultSet, Result
<1> DEFINE Differ == {k \in 1..n : p[k] # m[k]}
<1>3. Differ = {} => p = m
  <2> SUFFICES ASSUME Differ = {} PROVE p = m
    OBVIOUS
  <2>1. \A k \in 1..n : p[k] = m[k]
    OBVIOUS
  <2> HIDE DEF Differ
  <2> QED
    BY <1>1, <2>1, SameFunction
<1> SUFFICES ASSUME Differ # {} PROVE FALSE
  BY <1>3
<1>4. PICK k \in Differ : \A j \in Differ : k <= j
  <2>1. Differ \subseteq Nat
    OBVIOUS
  <2> HIDE DEF Differ
  <2> QED
    BY <2>1, LeastNatural
<1>5. k \in 1..n /\ p[k] # m[k] /\ \A j \in 1..n : j < k => p[j] = m[j]
  BY <1>4
<1> HIDE DEF Differ
<1>6. \A i, j \in 1..n : i < j => p[i].at < p[j].at /\ m[i].at < m[j].at
  BY <1>1 DEF InOrderOfCompletion
<1>7. \A j \in 1..n : p[j].at \in Nat /\ m[j].at \in Nat /\ p[j] \in S /\ m[j] \in S
  BY <1>1, <1>2
<1>8. PICK a \in 1..n : p[a] = m[k]
  BY <1>1, <1>5, <1>7
<1>9. PICK b \in 1..n : m[b] = p[k]
  BY <1>1, <1>5, <1>7
<1>10. k < a
  <2>1. a # k /\ k \in Int /\ a \in Int
    BY <1>5, <1>8
  <2>2. ~(a < k)
    <3> SUFFICES ASSUME a < k PROVE FALSE
      OBVIOUS
    <3>1. m[a] = m[k] /\ m[a].at < m[k].at /\ m[k].at \in Nat
      BY <1>5, <1>6, <1>7, <1>8
    <3> QED
      BY <3>1, Asymmetric, Zenon
  <2> QED
    BY <2>1, <2>2
<1>11. k < b
  <2>1. b # k /\ k \in Int /\ b \in Int
    BY <1>5, <1>9
  <2>2. ~(b < k)
    <3> SUFFICES ASSUME b < k PROVE FALSE
      OBVIOUS
    <3>1. p[b] = p[k] /\ p[b].at < p[k].at /\ p[k].at \in Nat
      BY <1>5, <1>6, <1>7, <1>9
    <3> QED
      BY <3>1, Asymmetric, Zenon
  <2> QED
    BY <2>1, <2>2
<1>12. p[k].at < m[k].at /\ m[k].at < p[k].at
  <2>1. p[k].at < p[a].at /\ m[k].at < m[b].at
    BY <1>5, <1>6, <1>10, <1>11
  <2> QED
    BY <1>8, <1>9, <2>1
<1>13. p[k].at \in Nat /\ m[k].at \in Nat
  BY <1>5, <1>7
<1> QED
  BY <1>12, <1>13, Asymmetric, Zenon

\* The results of a run, read from the two stores.
LEMMA SameResults ==
  ASSUME StoresInv, NEW i \in 1..Len(mem.runs)
  PROVE  ResultsAgree(i)
<1> DEFINE m == mem.results[i]
           n == Len(m)
           S == pg.results[i]
           p == PgGetTestResults(i)
<1>1. /\ m \in ResultList /\ S = {m[k] : k \in 1..n} /\ S \in ResultSet
      /\ \A k \in 1..n : m[k].at < clock
      /\ \A j, k \in 1..n : m[j].at = m[k].at => j = k
      /\ clock \in Nat
  BY ResultsOf, Parts DEF ResultsMatch, StoresInv
<1>2. n \in Nat /\ m \in [1..n -> Result] /\ DOMAIN m = 1..n
  BY <1>1, LenProperties DEF ResultList
<1>3. /\ IsFiniteSet(S) /\ Cardinality(S) = n
      /\ \E q \in [1..n -> S] : InOrderOfCompletion(q)
  BY <1>1, CompletionOrder
<1>4. p = CHOOSE q \in [1..Cardinality(S) -> S] : InOrderOfCompletion(q)
  BY DEF PgGetTestResults
<1> HIDE DEF p, S, n, m
<1>5. p \in [1..n -> S] /\ InOrderOfCompletion(p)
  BY <1>3, <1>4, Zenon
<1>6. \A x \in S : x.at \in Nat
  BY <1>1 DEF ResultSet, Result
<1>7. \A j, k \in 1..n : j < k => p[j].at < p[k].at
  BY <1>5 DEF InOrderOfCompletion
<1>8. \A j, k \in 1..n : p[j] = p[k] => j = k
  <2> SUFFICES ASSUME NEW j \in 1..n, NEW k \in 1..n, p[j] = p[k], j < k PROVE FALSE
    BY <1>2
  <2>1. p[j].at \in Nat /\ p[j].at < p[j].at
    BY <1>5, <1>6, <1>7
  <2> QED
    BY <2>1
<1>9. p \in Injection(1..n, S)
  BY <1>5, <1>8 DEF Injection, IsInjective
<1>10. IsFiniteSet(1..n) /\ Cardinality(1..n) = n
  BY <1>2, FS_Interval
<1>11. p \in Surjection(1..n, S)
  BY <1>3, <1>9, <1>10, FS_Injection
<1>12. \A x \in S : \E k \in 1..n : p[k] = x
  BY <1>11 DEF Surjection
<1>13. \A x \in S : \E k \in 1..n : m[k] = x
  BY <1>1
<1>14. \A k \in 1..n : p[k] \in S /\ m[k] \in S
  BY <1>1, <1>5
<1>15. m \in [1..n -> S]
  BY <1>2, <1>14
<1>16. Len(p) = n /\ Len(m) = n
  BY <1>2, <1>5 DEF n
<1>17. {p[k] : k \in 1..n} = S
  BY <1>12, <1>14
<1>18. Verdict(p) = Verdict(m)
  BY <1>12, <1>13, <1>14, <1>16 DEF Verdict
<1>19. InOrderOfCompletion(m) => p = m
  <2> SUFFICES ASSUME InOrderOfCompletion(m) PROVE p = m
    OBVIOUS
  <2>1. m \in Surjection(1..n, S)
    BY <1>13, <1>15 DEF Surjection
  <2> QED
    BY <1>1, <1>2, <1>5, <1>11, <2>1, OneOrder, Zenon
<1> QED
  BY <1>1, <1>5, <1>16, <1>17, <1>18, <1>19 DEF ResultsAgree, MemGetTestResults, p, m

\* After the same calls the two stores return the same runs and VMs, and the same results
\* with the same verdict; recovery finds the same runs and orphans in them.  They differ
\* only where the code of the two stores does: in a message that Postgres dropped, in a
\* duration that Postgres rounds and the memory store truncates, or that belongs to a run
\* that ended before it started, and in the order of results that were saved in another
\* order than they completed.
THEOREM StoresBackendsAgree == Spec => []BackendsAgree
<1>1. StoresInv => BackendsAgree
  <2> SUFFICES ASSUME StoresInv PROVE BackendsAgree
    OBVIOUS
  <2>1. Len(mem.runs) = Len(pg.runs) /\ mem.vms = pg.vms
    BY DEF StoresInv, Tables
  <2>2. ASSUME NEW i \in 1..Len(mem.runs)
        PROVE  \A f \in {"device", "status", "created", "started", "completed"} :
                 MemGetTestRun(i)[f] = PgGetTestRun(i)[f]
    <3> DEFINE m == MemGetTestRun(i)
               p == PgGetTestRun(i)
    <3>1. /\ m.device = p.device /\ m.status = p.status /\ m.created = p.created
          /\ m.started = p.started /\ m.completed = p.completed
      BY RowsOf, ScannedRow DEF RowsAgree, MemGetTestRun
    <3> HIDE DEF m, p
    <3>2. \A f \in {"device", "status", "created", "started", "completed"} : m[f] = p[f]
      BY <3>1
    <3> QED
      BY <3>2 DEF m, p
  <2>3. ASSUME NEW i \in 1..Len(mem.runs) PROVE MessagesAgree(i)
    <3> DEFINE m == mem.runs[i]
               p == pg.runs[i]
    <3>1. m.msg \in Texts /\ p.msg \in PgTexts /\ NULL \notin Texts
      BY RowsOf DEF MemRow, PgRow, Row, Texts, NULL
    <3>2. p.msg = m.msg \/ (p.msg = NULL /\ (m.msg = "" \/ Messages[m.status] = ""))
      BY RowsOf DEF RowsAgree
    <3>3. PgGetTestRun(i).msg = IF p.msg = NULL THEN "" ELSE p.msg
      BY RowsOf, ScannedRow DEF coalesceText
    <3> QED
      BY <3>1, <3>2, <3>3 DEF MessagesAgree
  <2>4. ASSUME NEW i \in 1..Len(mem.runs) PROVE DurationsAgree(i)
    BY RowsOf, ScannedRow DEF RowsAgree, DurationsAgree, Measured
  <2>5. MemListRunningTestRuns = PgListRunningTestRuns
    BY <2>1, RowsOf DEF RowsAgree, MemListRunningTestRuns, PgListRunningTestRuns
  <2>6. MemListOrphanedVMs = PgListOrphanedVMs
    BY <2>1 DEF MemListOrphanedVMs, PgListOrphanedVMs
  <2> QED
    BY <2>1, <2>2, <2>3, <2>4, <2>5, <2>6, SameResults DEF BackendsAgree, MemGetVM, PgGetVM
<1> QED
  BY StoresInvariant, <1>1, PTL

\* The names of the statuses, one by one.
LEMMA Names ==
  /\ Len(StatusNames) = 8 /\ Len(VMStatusNames) = 8
  /\ StatusNames[1] = "PENDING" /\ StatusNames[2] = "QUEUED" /\ StatusNames[3] = "RUNNING"
  /\ StatusNames[4] = "PASSED" /\ StatusNames[5] = "FAILED" /\ StatusNames[6] = "ERRORED"
  /\ StatusNames[7] = "CANCELLED" /\ StatusNames[8] = "TIMEOUT"
  /\ VMStatusNames[1] = "CREATING" /\ VMStatusNames[2] = "BOOTING" /\ VMStatusNames[3] = "READY"
  /\ VMStatusNames[4] = "RUNNING_TEST" /\ VMStatusNames[5] = "STOPPING"
  /\ VMStatusNames[6] = "STOPPED" /\ VMStatusNames[7] = "ERROR" /\ VMStatusNames[8] = "DESTROYED"
BY DEF StatusNames, VMStatusNames

\* They are eight different words, for runs as well as for VMs.
LEMMA NamesDiffer ==
  /\ \A p \in 1..8 : StatusNames[p] # "" /\ VMStatusNames[p] # ""
  /\ \A p, q \in 1..8 : StatusNames[p] = StatusNames[q] => p = q
  /\ \A p, q \in 1..8 : VMStatusNames[p] = VMStatusNames[q] => p = q
<1>1. \A p \in 1..8 : p = 1 \/ p = 2 \/ p = 3 \/ p = 4 \/ p = 5 \/ p = 6 \/ p = 7 \/ p = 8
  OBVIOUS
<1>2. \A p \in 1..8 : StatusNames[p] # "" /\ VMStatusNames[p] # ""
  BY <1>1, Names, Zenon
<1>3. \A p, q \in 1..8 : StatusNames[p] = StatusNames[q] => p = q
  BY <1>1, Names, ZenonT(30)
<1>4. \A p, q \in 1..8 : VMStatusNames[p] = VMStatusNames[q] => p = q
  BY <1>1, Names, ZenonT(30)
<1> QED
  BY <1>2, <1>3, <1>4

\* The position of a name, which the conversions to the enumerations compute.
LEMMA PositionOf ==
  ASSUME NEW names, Len(names) = 8, \A p, q \in 1..8 : names[p] = names[q] => p = q,
         NEW s, \E i \in 1..8 : names[i] = s
  PROVE  /\ Position(s, names) \in 1..8 /\ names[Position(s, names)] = s
         /\ \A p \in 1..8 : p = Position(s, names) <=> s = names[p]
<1>1. \E i \in 1..Len(names) : names[i] = s
  OBVIOUS
<1>2. Position(s, names) \in 1..Len(names) /\ names[Position(s, names)] = s
  BY <1>1 DEF Position
<1> QED
  BY <1>2

\* A status converted to the API and back is the same status, and a filter for a value of
\* the API selects the statuses that are shown as that value.
LEMMA Conversions ==
  /\ \A s \in Statuses : /\ testRunStatusToProto(s) \in 1..8
                         /\ StatusNames[testRunStatusToProto(s)] = s
                         /\ \A p \in 0..8 : LET f == ListTestRunsFilter(p)
                                            IN  (f # "" => s = f) <=> p \in {0, testRunStatusToProto(s)}
  /\ \A s \in VMStatuses : \A p \in 0..8 :
       LET f == ListVMsFilter(p) IN (f # "" => s = f) <=> p \in {0, vmStatusToProto(s)}
<1>1. /\ \A s \in Statuses : \E i \in 1..8 : StatusNames[i] = s
      /\ \A s \in VMStatuses : \E i \in 1..8 : VMStatusNames[i] = s
  BY Names DEF Statuses, VMStatuses
<1>2. ASSUME NEW s \in Statuses
      PROVE  /\ testRunStatusToProto(s) \in 1..8 /\ StatusNames[testRunStatusToProto(s)] = s
             /\ \A p \in 1..8 : p = testRunStatusToProto(s) <=> s = StatusNames[p]
  <2>1. testRunStatusToProto(s) = Position(s, StatusNames)
    BY DEF testRunStatusToProto
  <2>2. Len(StatusNames) = 8 /\ \A p, q \in 1..8 : StatusNames[p] = StatusNames[q] => p = q
    BY Names, NamesDiffer
  <2>3. \E i \in 1..8 : StatusNames[i] = s
    BY <1>1
  <2> QED
    BY <2>1, <2>2, <2>3, PositionOf
<1>3. ASSUME NEW s \in VMStatuses
      PROVE  /\ vmStatusToProto(s) \in 1..8
             /\ \A p \in 1..8 : p = vmStatusToProto(s) <=> s = VMStatusNames[p]
  <2>1. vmStatusToProto(s) = Position(s, VMStatusNames)
    BY DEF vmStatusToProto
  <2>2. Len(VMStatusNames) = 8 /\ \A p, q \in 1..8 : VMStatusNames[p] = VMStatusNames[q] => p = q
    BY Names, NamesDiffer
  <2>3. \E i \in 1..8 : VMStatusNames[i] = s
    BY <1>1
  <2> QED
    BY <2>1, <2>2, <2>3, PositionOf
<1>4. /\ ListTestRunsFilter(0) = "" /\ ListVMsFilter(0) = ""
      /\ \A p \in 1..8 : /\ ListTestRunsFilter(p) = StatusNames[p] /\ ListTestRunsFilter(p) # ""
                         /\ ListVMsFilter(p) = VMStatusNames[p] /\ ListVMsFilter(p) # ""
  <2>1. ListTestRunsFilter(0) = "" /\ ListVMsFilter(0) = ""
    BY DEF ListTestRunsFilter, ListVMsFilter
  <2>2. ASSUME NEW p \in 1..8
        PROVE  ListTestRunsFilter(p) = StatusNames[p] /\ ListVMsFilter(p) = VMStatusNames[p]
    <3>1. p # 0
      OBVIOUS
    <3> QED
      BY <3>1 DEF ListTestRunsFilter, ListVMsFilter, protoToTestRunStatus, protoToVMStatus
  <2> QED
    BY <2>1, <2>2, NamesDiffer
<1>5. \A p \in 0..8 : p = 0 \/ p \in 1..8
  OBVIOUS
<1>6. ASSUME NEW s \in Statuses, NEW p \in 0..8
      PROVE  (ListTestRunsFilter(p) # "" => s = ListTestRunsFilter(p)) <=> p \in {0, testRunStatusToProto(s)}
  BY <1>2, <1>4, <1>5
<1>7. ASSUME NEW s \in VMStatuses, NEW p \in 0..8
      PROVE  (ListVMsFilter(p) # "" => s = ListVMsFilter(p)) <=> p \in {0, vmStatusToProto(s)}
  BY <1>3, <1>4, <1>5
<1> QED
  BY <1>2, <1>6, <1>7

\* The lists that a client gets through the filters are what it would select itself from
\* the runs and VMs it gets one by one, in both stores, and results keep their statuses.
THEOREM StoresListsMatchGets == Spec => []ListsMatchGets
<1>1. StoresInv => ListsMatchGets
  <2> SUFFICES ASSUME StoresInv PROVE ListsMatchGets
    OBVIOUS
  <2>1. /\ Len(mem.runs) = Len(pg.runs) /\ mem.vms = pg.vms /\ mem.vms \in Seq(VMRow)
        /\ Len(mem.results) = Len(mem.runs) /\ mem.results \in Seq(ResultList)
    BY Parts DEF StoresInv, Tables
  <2>2. RunStatuses \subseteq Statuses /\ ResultStatuses \subseteq Statuses
    <3>1. \A i \in {1, 2, 3, 4, 5, 6, 7, 8} : StatusNames[i] \in Statuses
      BY Names DEF Statuses
    <3> QED
      BY <3>1, Names DEF RunStatuses, ResultStatuses
  <2>3. ASSUME NEW i \in 1..Len(mem.runs), NEW k \in DOMAIN MemGetTestResults(i)
        PROVE  StatusNames[GetTestResults(MemGetTestResults(i))[k]] = MemGetTestResults(i)[k].status
    <3>1. mem.results[i] \in Seq(Result)
      BY <2>1, ElementOfSeq DEF ResultList
    <3>2. mem.results[i][k].status \in ResultStatuses
      BY <2>3, <3>1, LenProperties, ResultOfList DEF MemGetTestResults, ResultList
    <3>3. GetTestResults(mem.results[i])[k] = testRunStatusToProto(mem.results[i][k].status)
      BY <2>3 DEF GetTestResults, MemGetTestResults
    <3> QED
      BY <2>2, <3>2, <3>3, Conversions DEF MemGetTestResults
  <2>4. ASSUME NEW i \in 1..Len(mem.runs)
        PROVE  /\ mem.runs[i].status \in Statuses /\ pg.runs[i].status = mem.runs[i].status
               /\ pg.runs[i].device = mem.runs[i].device
               /\ testRunToProto(MemGetTestRun(i)).device = mem.runs[i].device
               /\ testRunToProto(MemGetTestRun(i)).status = testRunStatusToProto(mem.runs[i].status)
               /\ testRunToProto(PgGetTestRun(i)) = testRunToProto(MemGetTestRun(i))
    <3>1. mem.runs[i].status \in RunStatuses
      BY RowsOf DEF MemRow, Row
    <3> QED
      BY <2>2, <3>1, RowsOf, ScannedRow DEF RowsAgree, testRunToProto, MemGetTestRun
  <2>5. ASSUME NEW i \in 1..Len(mem.vms)
        PROVE  /\ mem.vms[i].status \in VMStatuses
               /\ vmToProto(MemGetVM(i)).device = mem.vms[i].device
               /\ vmToProto(MemGetVM(i)).status = vmStatusToProto(mem.vms[i].status)
               /\ vmToProto(PgGetVM(i)) = vmToProto(MemGetVM(i))
    <3>1. mem.vms[i] \in VMRow
      BY <2>1, ElementOfSeq
    <3> QED
      BY <2>1, <3>1 DEF VMRow, vmToProto, MemGetVM, PgGetVM
  <2> SUFFICES ASSUME NEW d \in Devices \cup {""}, NEW p \in 0..8
               PROVE  LET Shown(x) == d \in {"", x.device} /\ p \in {0, x.status}
                          s == ListTestRunsFilter(p)
                          v == ListVMsFilter(p)
                      IN  /\ MemMatching(mem.runs, d, s) =
                               {i \in 1..Len(mem.runs) : Shown(testRunToProto(MemGetTestRun(i)))}
                          /\ PgMatching(pg.runs, d, s) =
                               {i \in 1..Len(pg.runs) : Shown(testRunToProto(PgGetTestRun(i)))}
                          /\ MemListVMs(d, v) = {i \in 1..Len(mem.vms) : Shown(vmToProto(MemGetVM(i)))}
                          /\ PgListVMs(d, v) = {i \in 1..Len(pg.vms) : Shown(vmToProto(PgGetVM(i)))}
    BY <2>3 DEF ListsMatchGets
  <2> DEFINE Shown(x) == d \in {"", x.device} /\ p \in {0, x.status}
             s == ListTestRunsFilter(p)
             v == ListVMsFilter(p)
  <2>6. ASSUME NEW i \in 1..Len(mem.runs)
        PROVE  /\ Shown(testRunToProto(MemGetTestRun(i))) <=>
                    (d # "" => mem.runs[i].device = d) /\ (s # "" => mem.runs[i].status = s)
               /\ Shown(testRunToProto(PgGetTestRun(i))) <=>
                    (d # "" => pg.runs[i].device = d) /\ (s # "" => pg.runs[i].status = s)
    <3> DEFINE m == mem.runs[i]
    <3>1. (s # "" => m.status = s) <=> p \in {0, testRunStatusToProto(m.status)}
      BY <2>4, Conversions
    <3> HIDE DEF s
    <3> DEFINE x == testRunToProto(MemGetTestRun(i))
               y == testRunToProto(PgGetTestRun(i))
    <3>2. /\ x.device = m.device /\ x.status = testRunStatusToProto(m.status)
          /\ y.device = m.device /\ y.status = testRunStatusToProto(m.status)
          /\ pg.runs[i].device = m.device /\ pg.runs[i].status = m.status
      BY <2>4
    <3> HIDE DEF x, y, m
    <3>3. /\ Shown(x) <=> (d # "" => m.device = d) /\ (s # "" => m.status = s)
          /\ Shown(y) <=> (d # "" => m.device = d) /\ (s # "" => m.status = s)
      BY <3>1, <3>2
    <3> QED
      BY <3>2, <3>3 DEF x, y, m
  <2>7. ASSUME NEW i \in 1..Len(mem.vms)
        PROVE  Shown(vmToProto(MemGetVM(i))) <=>
                 (d # "" => mem.vms[i].device = d) /\ (v # "" => mem.vms[i].status = v)
    <3>1. (v # "" => mem.vms[i].status = v) <=> p \in {0, vmStatusToProto(mem.vms[i].status)}
      BY <2>5, Conversions
    <3> HIDE DEF v
    <3> DEFINE x == vmToProto(MemGetVM(i))
    <3>2. x.device = mem.vms[i].device /\ x.status = vmStatusToProto(mem.vms[i].status)
      BY <2>5
    <3> HIDE DEF x
    <3>3. Shown(x) <=> (d # "" => mem.vms[i].device = d) /\ (v # "" => mem.vms[i].status = v)
      BY <3>1, <3>2
    <3> QED
      BY <3>3 DEF x
  <2> HIDE DEF s, v
  <2>8. MemMatching(mem.runs, d, s) = {i \in 1..Len(mem.runs) : Shown(testRunToProto(MemGetTestRun(i)))}
    BY <2>6 DEF MemMatching
  <2>9. PgMatching(pg.runs, d, s) = {i \in 1..Len(pg.runs) : Shown(testRunToProto(PgGetTestRun(i)))}
    BY <2>1, <2>6 DEF PgMatching
  <2>10. MemListVMs(d, v) = {i \in 1..Len(mem.vms) : Shown(vmToProto(MemGetVM(i)))}
    BY <2>7 DEF MemMatching, MemListVMs
  <2>11. PgListVMs(d, v) = {i \in 1..Len(pg.vms) : Shown(vmToProto(PgGetVM(i)))}
    BY <2>1, <2>5, <2>7 DEF PgMatching, PgListVMs
  <2> QED
    BY <2>8, <2>9, <2>10, <2>11 DEF s, v
<1> QED
  BY StoresInvariant, <1>1, PTL

----------------------------------------------------------------------------
(* Pages                                                                   *)

\* A page that starts behind the first off elements has what is left of them, up to the
\* limit, in the same order.
LEMMA PageOf ==
  ASSUME NEW S, NEW seq \in Seq(S), NEW limit \in Nat \ {0}, NEW off \in Nat
  PROVE  /\ Len(PgPage(seq, limit, off)) =
              IF off < Len(seq) THEN (IF limit < Len(seq) - off THEN limit ELSE Len(seq) - off) ELSE 0
         /\ \A i \in 1..Len(PgPage(seq, limit, off)) : PgPage(seq, limit, off)[i] = seq[off + i]
<1> DEFINE n == Len(seq)
           left == IF off < n THEN n - off ELSE 0
           rest == From(seq, off)
           cut == IF limit < Len(rest) THEN limit ELSE Len(rest)
           page == Upto(rest, limit)
<1>1. n \in Nat /\ \A i \in 1..n : seq[i] \in S
  BY LenProperties, ElementOfSeq
<1> HIDE DEF n
<1>2. off + 1 \in Int /\ n \in Int /\ \A i \in (off + 1)..n : seq[i] \in S
  BY <1>1
<1>3. /\ SubSeq(seq, off + 1, n) \in Seq(S)
      /\ Len(SubSeq(seq, off + 1, n)) = IF off + 1 <= n THEN n - (off + 1) + 1 ELSE 0
      /\ \A i \in 1..(n - (off + 1) + 1) : SubSeq(seq, off + 1, n)[i] = seq[(off + 1) + i - 1]
  BY <1>2, SubSeqProperties
<1>4. rest = SubSeq(seq, off + 1, n)
  BY DEF From, n
<1> HIDE DEF rest
<1>5. rest \in Seq(S) /\ Len(rest) = left /\ left \in Nat
  BY <1>1, <1>3, <1>4
<1>6. ASSUME NEW i \in 1..left PROVE rest[i] = seq[off + i]
  <2>1. i \in 1..(n - (off + 1) + 1) /\ (off + 1) + i - 1 = off + i
    BY <1>1
  <2> QED
    BY <1>3, <1>4, <2>1
<1> HIDE DEF left
<1>7. /\ cut \in Nat /\ cut <= left /\ 1 \in Int /\ cut \in Int
      /\ cut = IF limit < left THEN limit ELSE left
  BY <1>5
<1>8. \A i \in 1..cut : rest[i] \in S
  <2>1. \A i \in 1..cut : i \in 1..Len(rest)
    BY <1>5, <1>7
  <2> QED
    BY <1>5, <2>1, ElementOfSeq
<1>9. page = SubSeq(rest, 1, cut)
  BY DEF Upto
<1> HIDE DEF cut, page
<1>10. /\ Len(SubSeq(rest, 1, cut)) = IF 1 <= cut THEN cut - 1 + 1 ELSE 0
       /\ \A i \in 1..(cut - 1 + 1) : SubSeq(rest, 1, cut)[i] = rest[1 + i - 1]
  BY <1>7, <1>8, SubSeqProperties
<1>11. Len(page) = cut
  BY <1>7, <1>9, <1>10
<1>12. ASSUME NEW i \in 1..cut PROVE page[i] = seq[off + i]
  <2>1. i \in 1..(cut - 1 + 1) /\ 1 + i - 1 = i /\ i \in 1..left
    BY <1>5, <1>7
  <2> QED
    BY <1>6, <1>9, <1>10, <2>1
<1>13. PgPage(seq, limit, off) = page
  BY DEF PgPage, page, rest
<1>14. Len(page) = IF off < n THEN (IF limit < n - off THEN limit ELSE n - off) ELSE 0
  BY <1>1, <1>7, <1>11 DEF left
<1> QED
  BY <1>11, <1>12, <1>13, <1>14 DEF n

\* The lengths of the pages of two lists of the same length, one read as Postgres does and
\* one as the memory store does.
LEMMA PageLengths ==
  ASSUME NEW S, NEW seq \in Seq(S), NEW order \in Seq(S), Len(order) = Len(seq),
         NEW limit \in Nat \ {0}, NEW off \in Nat
  PROVE  Len(MemPage(order, limit, off)) =
           Len(IF off < Len(seq) THEN PgPage(seq, limit, off) ELSE PgPage(seq, limit, 0))
<1>1. Len(seq) \in Nat /\ 0 \in Nat
  BY LenProperties
<1>2. CASE off < Len(seq)
  <2>1. MemPage(order, limit, off) = PgPage(order, limit, off)
    BY <1>2 DEF MemPage, PgPage
  <2>2. Len(PgPage(order, limit, off)) = Len(PgPage(seq, limit, off))
    BY PageOf
  <2> QED
    BY <1>2, <2>1, <2>2
<1>3. CASE ~(off < Len(seq))
  <2>1. From(order, 0) = order
    <3>1. /\ Len(order) \in Nat /\ order \in [1..Len(order) -> S]
          /\ \A i \in 1..Len(order) : order[i] \in S
      BY LenProperties, ElementOfSeq
    <3> QED
      BY <3>1 DEF From
  <2>2. MemPage(order, limit, off) = PgPage(order, limit, 0)
    BY <1>3, <2>1 DEF MemPage, PgPage
  <2>3. Len(PgPage(order, limit, 0)) = Len(PgPage(seq, limit, 0))
    BY <1>1, PageOf
  <2> QED
    BY <1>3, <2>2, <2>3
<1> QED
  BY <1>2, <1>3

\* ListTestRuns of Postgres: the runs that match are listed newest first, each once.
LEMMA PgOrderedLists ==
  ASSUME StoresInv, NEW S \in SUBSET (1..Len(pg.runs))
  PROVE  LET all == PgOrdered(pg.runs, S)
         IN  /\ all \in Seq(S) /\ Len(all) = Cardinality(S) /\ Cardinality(S) \in Nat
             /\ \A i, j \in 1..Len(all) : i < j => pg.runs[all[i]].created > pg.runs[all[j]].created
<1> DEFINE rows == pg.runs
           c == Cardinality(S)
           all == PgOrdered(rows, S)
<1>1. /\ Len(rows) \in Nat
      /\ \A i, j \in 1..Len(rows) : i < j => rows[i].created < rows[j].created
      /\ \A i \in 1..Len(rows) : rows[i].created \in Nat
  <2>1. Len(rows) = Len(mem.runs) /\ Len(mem.runs) \in Nat
    BY Parts DEF StoresInv, Tables
  <2>2. \A i \in 1..Len(rows) : rows[i].created = mem.runs[i].created /\ rows[i].created \in Nat
    BY <2>1, RowsOf DEF RowsAgree, MemRow, Row
  <2> QED
    BY <2>1, <2>2 DEF StoresInv, Tables
<1>2. c \in Nat
  <2>1. IsFiniteSet(1..Len(rows))
    BY <1>1, FS_Interval
  <2>2. IsFiniteSet(S)
    BY <2>1, FS_Subset
  <2> QED
    BY <2>2, FS_CardinalityType
<1> HIDE DEF rows
<1>3. PICK p : Descending(p, S)
  BY <1>1, DescendingExists DEF rows
<1>4. p \in [1..c -> S] /\ \A i, j \in 1..c : i < j => p[i] > p[j]
  BY <1>3 DEF Descending
<1> HIDE DEF c
<1>5. \A i, j \in 1..c : i < j => rows[p[i]].created > rows[p[j]].created
  <2> SUFFICES ASSUME NEW i \in 1..c, NEW j \in 1..c, i < j
               PROVE  rows[p[i]].created > rows[p[j]].created
    OBVIOUS
  <2>1. p[i] \in 1..Len(rows) /\ p[j] \in 1..Len(rows) /\ p[j] < p[i]
    BY <1>1, <1>4 DEF rows
  <2> QED
    BY <1>1, <2>1
<1>6. /\ all \in [1..c -> S]
      /\ \A i, j \in DOMAIN all : i < j => rows[all[i]].created > rows[all[j]].created
  <2>1. /\ p \in [1..c -> S]
        /\ \A i, j \in DOMAIN p : i < j => rows[p[i]].created > rows[p[j]].created
    BY <1>4, <1>5
  <2> QED
    BY <2>1, Zenon DEF PgOrdered, c
<1> HIDE DEF all
<1>7. all \in Seq(S) /\ Len(all) = c
  BY <1>2, <1>6
<1> QED
  BY <1>2, <1>6, <1>7 DEF rows, all, c

\* One page of the runs in S, in both stores.
LEMMA PagesOf ==
  ASSUME StoresInv, NEW S \in SUBSET (1..Len(pg.runs)), NEW limit \in Nat \ {0}, NEW off \in Nat
  PROVE  LET all == PgOrdered(pg.runs, S)
             page == PgPage(all, limit, off)
         IN  /\ \A i \in 1..limit :
                  IF off + i <= Len(all)
                    THEN i <= Len(page) /\ page[i] = all[off + i]
                    ELSE Len(page) < i
             /\ \A order \in MapOrders(S) :
                  Len(MemPage(order, limit, off)) =
                    Len(IF off < Len(all) THEN page ELSE PgPage(all, limit, 0))
<1> DEFINE all == PgOrdered(pg.runs, S)
           page == PgPage(all, limit, off)
           n == Len(all)
<1>1. all \in Seq(S) /\ Len(all) = Cardinality(S) /\ Cardinality(S) \in Nat
  BY PgOrderedLists
<1> HIDE DEF all
<1>2. /\ Len(page) = IF off < n THEN (IF limit < n - off THEN limit ELSE n - off) ELSE 0
      /\ \A i \in 1..Len(page) : page[i] = all[off + i]
  BY <1>1, PageOf
<1>3. n \in Nat
  BY <1>1
<1> HIDE DEF page, n
<1>4. ASSUME NEW i \in 1..limit
      PROVE  IF off + i <= n THEN i <= Len(page) /\ page[i] = all[off + i] ELSE Len(page) < i
  <2>1. CASE off + i <= n
    <3>1. i \in 1..Len(page)
      BY <1>2, <1>3, <2>1
    <3> QED
      BY <1>2, <2>1, <3>1
  <2>2. CASE ~(off + i <= n)
    BY <1>2, <1>3, <2>2
  <2> QED
    BY <2>1, <2>2
<1>5. ASSUME NEW order \in MapOrders(S)
      PROVE  Len(MemPage(order, limit, off)) = Len(IF off < n THEN page ELSE PgPage(all, limit, 0))
  <2>1. order \in [1..Cardinality(S) -> S]
    BY DEF MapOrders
  <2>2. order \in Seq(S) /\ Len(order) = Cardinality(S)
    BY <1>1, <2>1
  <2> QED
    BY <1>1, <2>2, PageLengths DEF page, n
<1> QED
  BY <1>4, <1>5 DEF all, page, n

\* The pages of ListTestRuns in Postgres cover the runs that match, newest first, each
\* once, and end with an empty page.  A page of the memory store has the same length up to
\* the end, whatever the order of its map; past the end it starts again.
THEOREM StoresPagesAgree == Spec => []PagesAgree
<1>1. \A limit \in 1..MaxRuns : \A k \in 0..MaxRuns : limit \in Nat \ {0} /\ k * limit \in Nat
  BY StoresAssumptions
<1>2. \A s : PgMatching(pg.runs, "", s) \in SUBSET (1..Len(pg.runs))
  BY DEF PgMatching
<1>3. StoresInv => PagesAgree
  BY <1>1, <1>2, PagesOf DEF PagesAgree
<1> QED
  BY StoresInvariant, <1>3, PTL

\* The list that the pages cut up has every run that matches exactly once, and the later
\* created ones first.
NewestFirst ==
  \A s \in Statuses \cup {""} :
    LET S == PgMatching(pg.runs, "", s)
        all == PgOrdered(pg.runs, S)
    IN  /\ \A x \in S : \E i \in 1..Len(all) : all[i] = x
        /\ \A i, j \in 1..Len(all) :
             i < j => all[i] \in S /\ all[i] # all[j] /\ pg.runs[all[i]].created > pg.runs[all[j]].created

\* ORDER BY created_at DESC lists every run that matches exactly once, newest first: no two
\* runs have the same creation time, so that the pages neither repeat nor lose a run.
THEOREM StoresNewestFirst == Spec => []NewestFirst
<1>1. ASSUME StoresInv, NEW S \in SUBSET (1..Len(pg.runs))
      PROVE  LET all == PgOrdered(pg.runs, S)
             IN  /\ \A x \in S : \E i \in 1..Len(all) : all[i] = x
                 /\ \A i, j \in 1..Len(all) :
                      i < j => /\ all[i] \in S /\ all[i] # all[j]
                               /\ pg.runs[all[i]].created > pg.runs[all[j]].created
  <2> DEFINE all == PgOrdered(pg.runs, S)
             n == Len(all)
             Time(x) == pg.runs[x].created
  <2>1. /\ all \in Seq(S) /\ n = Cardinality(S) /\ n \in Nat
        /\ \A i, j \in 1..n : i < j => Time(all[i]) > Time(all[j])
    BY <1>1, PgOrderedLists
  <2>2. \A x \in S : Time(x) \in Nat
    <3>1. Len(pg.runs) = Len(mem.runs)
      BY <1>1 DEF StoresInv, Tables
    <3> QED
      BY <1>1, <3>1, RowsOf DEF PgRow, Row
  <2> HIDE DEF all, Time
  <2>3. \A i \in 1..n : all[i] \in S
    BY <2>1, ElementOfSeq
  <2>4. \A i, j \in 1..n : i < j => all[i] # all[j]
    <3> SUFFICES ASSUME NEW i \in 1..n, NEW j \in 1..n, i < j, all[i] = all[j] PROVE FALSE
      OBVIOUS
    <3>1. Time(all[i]) \in Nat /\ Time(all[i]) > Time(all[i])
      BY <2>1, <2>2, <2>3
    <3> QED
      BY <3>1
  <2>5. all \in [1..n -> S]
    BY <2>1, LenProperties
  <2> HIDE DEF n
  <2>6. \A i, j \in 1..n : all[i] = all[j] => i = j
    BY <2>1, <2>4
  <2>7. all \in Injection(1..n, S)
    BY <2>5, <2>6 DEF Injection, IsInjective
  <2>8. IsFiniteSet(1..n) /\ Cardinality(1..n) = n /\ IsFiniteSet(S)
    <3>1. IsFiniteSet(1..n) /\ Cardinality(1..n) = n
      BY <2>1, FS_Interval
    <3>2. Len(pg.runs) \in Nat
      BY <1>1, Parts DEF StoresInv, Tables
    <3>3. IsFiniteSet(1..Len(pg.runs))
      BY <3>2, FS_Interval
    <3> QED
      BY <3>1, <3>3, FS_Subset
  <2>9. all \in Surjection(1..n, S)
    BY <2>1, <2>7, <2>8, FS_Injection
  <2> QED
    BY <2>1, <2>3, <2>4, <2>9 DEF Surjection, all, n, Time
<1>2. \A s : PgMatching(pg.runs, "", s) \in SUBSET (1..Len(pg.runs))
  BY DEF PgMatching
<1>3. StoresInv => NewestFirst
  BY <1>1, <1>2 DEF NewestFirst
<1> QED
  BY StoresInvariant, <1>3, PTL
=============================================================================
