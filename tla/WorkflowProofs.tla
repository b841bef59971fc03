--------------------------- MODULE WorkflowProofs ---------------------------
(***************************************************************************)
(* Proofs about the workflow components, for every finite graph of steps:  *)
(* WorkflowBuild.tla (NewWorkflow), Workflow.tla and RunWorkflow.tla.      *)
(*                                                                         *)
(* NewWorkflow.  KahnInv relates the counters, the queue and the order     *)
(* while the loop runs: a counter is the number of dependencies not yet in *)
(* the order, and the steps in the queue or the order are exactly those    *)
(* whose dependencies are all in the order.  What NewWorkflow hands over   *)
(* is an initial state of Workflow (WorkflowBuildHandsOver), so that the   *)
(* theorems about Workflow apply to every workflow it accepts.             *)
(*                                                                         *)
(* Workflow.  One pass of propagateSkip is enough because the order is     *)
(* topological: Scanned says that behind the scan no pending step has a    *)
(* dependency that failed or was skipped, and the scan cannot undo that,   *)
(* since what it skips comes after everything it has passed.  With the     *)
(* cause of every skip (SkipCaused) and StartedAfterDeps this is inductive.*)
(*                                                                         *)
(* runWorkflow.  The invariant is RunningIsOwned: a running step has a     *)
(* live goroutine or a result in the channel, never both.  It bounds the   *)
(* channel, makes every result one of a running step (so that runWorkflow  *)
(* implements Workflow and inherits its theorems), and leaves no goroutine *)
(* that could store a result once the loop has ended.                      *)
(***************************************************************************)
EXTENDS WorkflowBuild, RunWorkflow, FiniteSetTheorems, SequenceTheorems, WellFoundedInduction, TLAPS

----------------------------------------------------------------------------
(* Facts about the notions of WorkflowGraph                                *)

\* A non-empty set of natural numbers has a least member.
LEMMA LeastNatural ==
  ASSUME NEW T, T \subseteq Nat, T # {}
  PROVE  \E i \in T : \A j \in T : i <= j
<1>1. PICK i \in T : \A j \in T : ~(<<j, i>> \in OpToRel(<, Nat))
  BY NatLessThanWellFounded, WFMin, Zenon
<1>2. \A j \in T : ~(j < i)
  BY <1>1, Zenon DEF OpToRel
<1>3. \A j \in T : i <= j
  BY <1>2
<1> QED
  BY <1>3

\* A graph with a topological order has no cycle: of a set of steps each of which
\* depends on a member of the set, the first in the order would have no such dependency.
LEMMA TopologicalIsAcyclic ==
  ASSUME NEW V, NEW d, NEW p, Topological(p, V, d)
  PROVE  ~Cyclic(V, d)
<1> SUFFICES ASSUME NEW C \in SUBSET V, C # {}, \A s \in C : d[s] \cap C # {}
             PROVE  FALSE
  BY DEF Cyclic
<1> DEFINE T == {i \in 1..Len(p) : p[i] \in C}
<1>1. Len(p) \in Nat
  BY DEF Topological
<1>2. T # {} /\ T \subseteq Nat
  BY <1>1 DEF Topological, Elements
<1>3. PICK i \in T : \A j \in T : i <= j
  BY <1>2, LeastNatural
<1>4. PICK e \in d[p[i]] : e \in C
  BY <1>3
<1>5. PICK j \in 1..(i - 1) : p[j] = e
  BY <1>3, <1>4 DEF Topological, DepsFirst
<1>6. j \in T /\ ~(i <= j)
  BY <1>1, <1>3, <1>4, <1>5
<1> QED
  BY <1>3, <1>6

\* A member of Orderings(S) lists every element of S exactly once.
LEMMA OrderingsProperties ==
  ASSUME NEW S, IsFiniteSet(S), NEW p \in Orderings(S)
  PROVE  p \in Seq(S) /\ Distinct(p) /\ Elements(p) = S
<1> DEFINE n == Cardinality(S)
<1>1. n \in Nat
  BY FS_CardinalityType
<1>2. p \in [1..n -> S] /\ \A i, j \in 1..n : p[i] = p[j] => i = j
  BY DEF Orderings
<1>3. p \in Seq(S) /\ Len(p) = n
  BY <1>1, <1>2
<1>4. Distinct(p)
  BY <1>2, <1>3 DEF Distinct
<1>5. p \in Injection(1..n, S)
  BY <1>2 DEF Injection, IsInjective
<1>6. IsFiniteSet(1..n) /\ Cardinality(1..n) = n
  BY <1>1, FS_Interval
<1>7. p \in Surjection(1..n, S)
  BY <1>5, <1>6, FS_Injection
<1>8. Elements(p) = S
  BY <1>2, <1>3, <1>7 DEF Surjection, Elements
<1> QED
  BY <1>3, <1>4, <1>8

\* Appending a new element.
LEMMA AppendElement ==
  ASSUME NEW S, NEW seq \in Seq(S), NEW e \in S
  PROVE  /\ Append(seq, e) \in Seq(S)
         /\ Len(Append(seq, e)) = Len(seq) + 1
         /\ Elements(Append(seq, e)) = Elements(seq) \cup {e}
         /\ Distinct(seq) /\ e \notin Elements(seq) => Distinct(Append(seq, e))
<1>1. /\ Len(seq) \in Nat
      /\ Append(seq, e) \in Seq(S)
      /\ Len(Append(seq, e)) = Len(seq) + 1
      /\ \A i \in 1..Len(seq) : Append(seq, e)[i] = seq[i]
      /\ Append(seq, e)[Len(seq) + 1] = e
  BY AppendProperties, LenProperties
<1> DEFINE a == Append(seq, e)
<1> HIDE DEF a
<1>2. Elements(a) = Elements(seq) \cup {e}
  <2>1. ASSUME NEW i \in 1..Len(a) PROVE a[i] \in Elements(seq) \cup {e}
    BY <1>1 DEF Elements, a
  <2>2. ASSUME NEW i \in 1..Len(seq) PROVE seq[i] \in Elements(a)
    <3>1. i \in 1..Len(a) /\ a[i] = seq[i]
      BY <1>1 DEF a
    <3> QED
      BY <3>1 DEF Elements
  <2>3. e \in Elements(a)
    <3>1. Len(seq) + 1 \in 1..Len(a) /\ a[Len(seq) + 1] = e
      BY <1>1 DEF a
    <3> QED
      BY <3>1 DEF Elements
  <2> QED
    BY <2>1, <2>2, <2>3 DEF Elements
<1>3. Distinct(seq) /\ e \notin Elements(seq) => Distinct(a)
  BY <1>1 DEF Distinct, Elements, a
<1> QED
  BY <1>1, <1>2, <1>3 DEF a

\* Taking the first element off a sequence without repetitions.
LEMMA TailElements ==
  ASSUME NEW S, NEW seq \in Seq(S), seq # << >>, Distinct(seq)
  PROVE  /\ Head(seq) \in S
         /\ Head(seq) \in Elements(seq)
         /\ Tail(seq) \in Seq(S)
         /\ Distinct(Tail(seq))
         /\ Elements(Tail(seq)) = Elements(seq) \ {Head(seq)}
<1> DEFINE h == Head(seq)
           t == Tail(seq)
<1>1. /\ Len(seq) \in Nat \ {0}
      /\ h \in S /\ h = seq[1]
      /\ t \in Seq(S)
      /\ Len(t) = Len(seq) - 1
      /\ \A i \in 1..Len(t) : t[i] = seq[i + 1]
  BY HeadTailProperties, LenProperties, EmptySeq
<1> HIDE DEF h, t
<1>2. h \in Elements(seq)
  BY <1>1 DEF Elements
<1>3. \A i \in 1..Len(t) : i + 1 \in 1..Len(seq)
  BY <1>1
<1>4. Distinct(t)
  BY <1>1, <1>3 DEF Distinct
<1>5. ASSUME NEW i \in 1..Len(t) PROVE t[i] \in Elements(seq) /\ t[i] # h
  BY <1>1, <1>3 DEF Distinct, Elements
<1>6. ASSUME NEW i \in 1..Len(seq), seq[i] # h PROVE seq[i] \in Elements(t)
  <2>1. i - 1 \in 1..Len(t) /\ t[i - 1] = seq[i - 1 + 1]
    BY <1>1, <1>6
  <2>2. t[i - 1] = seq[i]
    BY <2>1
  <2> QED
    BY <2>1, <2>2 DEF Elements
<1>7. Elements(t) = Elements(seq) \ {h}
  BY <1>5, <1>6 DEF Elements
<1> QED
  BY <1>1, <1>2, <1>4, <1>7 DEF h, t

\* Concatenating sequences that share no element.
LEMMA ConcatElements ==
  ASSUME NEW S, NEW s1 \in Seq(S), NEW s2 \in Seq(S), Distinct(s1), Distinct(s2),
         Elements(s1) \cap Elements(s2) = {}
  PROVE  /\ s1 \o s2 \in Seq(S)
         /\ Distinct(s1 \o s2)
         /\ Elements(s1 \o s2) = Elements(s1) \cup Elements(s2)
<1> DEFINE c == s1 \o s2
<1>1. /\ Len(s1) \in Nat /\ Len(s2) \in Nat
      /\ c \in Seq(S)
      /\ Len(c) = Len(s1) + Len(s2)
      /\ \A i \in 1..(Len(s1) + Len(s2)) : c[i] = IF i <= Len(s1) THEN s1[i] ELSE s2[i - Len(s1)]
  BY ConcatProperties, LenProperties
<1> HIDE DEF c
<1>2. \A i \in 1..Len(c) : \/ i \in 1..Len(s1) /\ c[i] = s1[i] /\ c[i] \in Elements(s1)
                           \/ i - Len(s1) \in 1..Len(s2) /\ c[i] = s2[i - Len(s1)] /\ c[i] \in Elements(s2)
  BY <1>1 DEF Elements
<1>3. Distinct(c)
  <2> SUFFICES ASSUME NEW i \in 1..Len(c), NEW j \in 1..Len(c), c[i] = c[j] PROVE i = j
    BY DEF Distinct
  <2>1. CASE c[i] \in Elements(s1)
    BY <1>2, <2>1 DEF Distinct
  <2>2. CASE c[i] \in Elements(s2)
    <3>1. /\ i - Len(s1) \in 1..Len(s2) /\ j - Len(s1) \in 1..Len(s2)
          /\ s2[i - Len(s1)] = s2[j - Len(s1)]
      BY <1>2, <2>2
    <3>2. i - Len(s1) = j - Len(s1)
      BY <3>1 DEF Distinct
    <3> QED
      BY <3>2, <1>1
  <2> QED
    BY <1>2, <2>1, <2>2
<1>4. ASSUME NEW i \in 1..Len(s1) PROVE s1[i] \in Elements(c)
  <2>1. i \in 1..Len(c) /\ c[i] = s1[i]
    BY <1>1
  <2> QED
    BY <2>1 DEF Elements
<1>5. ASSUME NEW i \in 1..Len(s2) PROVE s2[i] \in Elements(c)
  <2>1. i + Len(s1) \in 1..Len(c) /\ ~(i + Len(s1) <= Len(s1)) /\ i + Len(s1) - Len(s1) = i
    BY <1>1
  <2>2. c[i + Len(s1)] = s2[i + Len(s1) - Len(s1)]
    BY <1>1, <2>1
  <2>3. c[i + Len(s1)] = s2[i]
    BY <2>1, <2>2
  <2> QED
    BY <2>1, <2>3 DEF Elements
<1>6. Elements(c) = Elements(s1) \cup Elements(s2)
  BY <1>2, <1>4, <1>5 DEF Elements
<1> QED
  BY <1>1, <1>3, <1>6 DEF c

----------------------------------------------------------------------------
(* The inductive invariant                                                 *)

Placed == Elements(order)
Waiting == Elements(queue)

Kahn ==
  /\ \A s \in Steps : deps[s] \subseteq Steps
  /\ \A s \in Steps : inDegree[s] = Cardinality(deps[s] \ Placed)
  /\ Distinct(queue) /\ Distinct(order)
  /\ Placed \cap Waiting = {}
  /\ \A s \in Steps : s \in Placed \cup Waiting <=> deps[s] \subseteq Placed
  /\ Len(order) = Cardinality(Placed)
  /\ DepsFirst(order, deps)

KahnInv ==
  /\ BuildTypeOK
  /\ stage = "validate" => order = << >>
  /\ stage = "sort" => Kahn
  /\ stage = "built" => Topological(order, Steps, deps)
  /\ stage = "rejected" => Cyclic(Steps, deps) \/ \E s \in Steps : Missing \in deps[s]

\* Before validation nothing is queued or ordered.
LEMMA InitKahnInv == BuildInit => KahnInv
<1> SUFFICES ASSUME BuildInit PROVE KahnInv
  OBVIOUS
<1>1. << >> \in Seq(Steps)
  BY EmptySeq
<1>2. BuildTypeOK
  BY <1>1 DEF BuildInit, BuildTypeOK
<1> QED
  BY <1>2 DEF BuildInit, KahnInv

\* The order only holds steps, so it is finite, and so is every set of steps.
LEMMA SubsetsFinite ==
  ASSUME NEW S, S \subseteq Steps
  PROVE  IsFiniteSet(S) /\ Cardinality(S) \in Nat
BY StepsAssumption, FS_Subset, FS_CardinalityType

\* The set-up of the counters and of the queue establishes the loop invariant.
LEMMA ValidateKahnInv == KahnInv /\ Validate => KahnInv'
<1> SUFFICES ASSUME KahnInv, Validate PROVE KahnInv'
  OBVIOUS
<1> USE DEF KahnInv
<1>1. CASE \E s \in Steps : Missing \in deps[s]
  BY <1>1 DEF Validate, BuildTypeOK, wfVars
<1>2. CASE ~\E s \in Steps : Missing \in deps[s]
  <2> DEFINE Roots == {s \in Steps : deps[s] = {}}
  <2>1. /\ stage' = "sort" /\ stage = "validate" /\ order = << >>
        /\ inDegree' = [s \in Steps |-> Cardinality(deps[s])]
        /\ queue' \in Orderings(Roots)
        /\ UNCHANGED <<deps, order>>
    BY <1>2 DEF Validate, wfVars
  <2>2. \A s \in Steps : deps[s] \subseteq Steps
    BY <1>2 DEF BuildTypeOK
  <2>3. queue' \in Seq(Roots) /\ Distinct(queue') /\ Elements(queue') = Roots
    BY <2>1, SubsetsFinite, OrderingsProperties
  <2>4. queue' \in Seq(Steps)
    BY <2>3
  <2>5. \A s \in Steps : Cardinality(deps[s]) \in Nat
    BY <2>2, SubsetsFinite
  <2>6. BuildTypeOK'
    BY <2>1, <2>4, <2>5 DEF BuildTypeOK
  <2>7. Placed' = {} /\ Len(order') = 0 /\ Cardinality(Placed') = 0
    <3>1. Len(order') = 0
      BY <2>1
    <3>2. Placed' = {}
      BY <3>1 DEF Placed, Elements
    <3> QED
      BY <3>1, <3>2, FS_EmptySet
  <2>8. Waiting' = Roots
    BY <2>3 DEF Waiting
  <2>9. Distinct(order') /\ DepsFirst(order', deps')
    BY <2>7 DEF Distinct, DepsFirst
  <2>10. \A s \in Steps : inDegree'[s] = Cardinality(deps'[s] \ Placed')
    <3> SUFFICES ASSUME NEW s \in Steps PROVE inDegree'[s] = Cardinality(deps'[s] \ Placed')
      OBVIOUS
    <3>1. deps'[s] \ Placed' = deps[s]
      BY <2>1, <2>7
    <3> QED
      BY <2>1, <3>1
  <2>11. \A s \in Steps : s \in Placed' \cup Waiting' <=> deps'[s] \subseteq Placed'
    BY <2>1, <2>7, <2>8
  <2>12. Kahn'
    BY <2>1, <2>2, <2>3, <2>7, <2>9, <2>10, <2>11 DEF Kahn
  <2> QED
    BY <2>1, <2>6, <2>12
<1> QED
  BY <1>1, <1>2

\* Moving one step from the queue to the order keeps the loop invariant.
LEMMA SortKahnInv == KahnInv /\ Sort => KahnInv'
<1> SUFFICES ASSUME KahnInv, Sort PROVE KahnInv'
  OBVIOUS
<1> USE DEF KahnInv
<1> DEFINE cur == Head(queue)
           F == Freed(cur)
<1>1. /\ stage = "sort" /\ stage' = stage /\ deps' = deps
      /\ queue # << >>
      /\ order' = Append(order, cur)
      /\ inDegree' = [t \in Steps |-> IF cur \in deps[t] THEN inDegree[t] - 1 ELSE inDegree[t]]
  BY DEF Sort
<1>2. PICK freed \in Orderings(F) : queue' = Tail(queue) \o freed
  BY DEF Sort
<1>3. /\ BuildTypeOK /\ Kahn
      /\ queue \in Seq(Steps) /\ order \in Seq(Steps)
      /\ \A s \in Steps : inDegree[s] \in Nat
  BY <1>1 DEF BuildTypeOK
<1>4. /\ cur \in Steps /\ cur \in Waiting
      /\ Tail(queue) \in Seq(Steps) /\ Distinct(Tail(queue))
      /\ Elements(Tail(queue)) = Waiting \ {cur}
  BY <1>1, <1>3, TailElements DEF Kahn, Waiting
<1>5. freed \in Seq(F) /\ Distinct(freed) /\ Elements(freed) = F
  BY SubsetsFinite, OrderingsProperties DEF Freed
<1>6. freed \in Seq(Steps)
  BY <1>5 DEF Freed
<1>7. cur \notin Placed
  BY <1>3, <1>4 DEF Kahn
<1>8. \A t \in Steps : IsFiniteSet(deps[t] \ Placed) /\ deps[t] \ Placed \subseteq Steps
  BY <1>3, SubsetsFinite DEF Kahn
\* A freed step waits for cur alone.
<1>9. \A t \in Steps : t \in F <=> deps[t] \ Placed = {cur}
  <2> SUFFICES ASSUME NEW t \in Steps PROVE t \in F <=> deps[t] \ Placed = {cur}
    OBVIOUS
  <2>1. t \in F <=> cur \in deps[t] \ Placed /\ Cardinality(deps[t] \ Placed) = 1
    BY <1>3, <1>7 DEF Freed, Kahn
  <2>2. Cardinality(deps[t] \ Placed) = 1 <=> \E x : deps[t] \ Placed = {x}
    BY <1>8, FS_Singleton
  <2> QED
    BY <2>1, <2>2
<1>10. /\ order' \in Seq(Steps) /\ Len(order') = Len(order) + 1
       /\ Placed' = Placed \cup {cur} /\ Distinct(order')
  BY <1>1, <1>3, <1>4, <1>7, AppendElement DEF Kahn, Placed
<1>11. F \cap (Placed \cup Waiting) = {} /\ F \subseteq Steps
  BY <1>3, <1>9 DEF Kahn, Freed
<1>12. queue' \in Seq(Steps) /\ Distinct(queue') /\ Waiting' = (Waiting \ {cur}) \cup F
  <2>1. Elements(Tail(queue)) \cap Elements(freed) = {}
    BY <1>4, <1>5, <1>11
  <2>2. /\ Tail(queue) \o freed \in Seq(Steps)
        /\ Distinct(Tail(queue) \o freed)
        /\ Elements(Tail(queue) \o freed) = Elements(Tail(queue)) \cup Elements(freed)
    <3> DEFINE tl == Tail(queue)
    <3>1. /\ tl \in Seq(Steps) /\ Distinct(tl) /\ freed \in Seq(Steps) /\ Distinct(freed)
          /\ Elements(tl) \cap Elements(freed) = {}
      BY <1>4, <1>5, <1>6, <2>1
    <3> HIDE DEF tl
    <3>2. /\ tl \o freed \in Seq(Steps)
          /\ Distinct(tl \o freed)
          /\ Elements(tl \o freed) = Elements(tl) \cup Elements(freed)
      BY <3>1, ConcatElements
    <3> QED
      BY <3>2 DEF tl
  <2> QED
    <3>1. queue' \in Seq(Steps) /\ Distinct(queue')
      BY <1>2, <2>2
    <3>2. Elements(queue') = (Waiting \ {cur}) \cup F
      BY <1>2, <1>4, <1>5, <2>2
    <3> QED
      BY <3>1, <3>2 DEF Waiting
<1>13. ASSUME NEW t \in Steps
       PROVE  inDegree'[t] = Cardinality(deps[t] \ Placed') /\ inDegree'[t] \in Nat
  <2>1. CASE cur \in deps[t]
    <3>1. deps[t] \ Placed' = (deps[t] \ Placed) \ {cur}
      BY <1>10
    <3>2. cur \in deps[t] \ Placed
      BY <2>1, <1>7
    <3>3. Cardinality((deps[t] \ Placed) \ {cur}) = Cardinality(deps[t] \ Placed) - 1
      BY <1>8, <3>2, FS_RemoveElement
    <3>4. Cardinality(deps[t] \ Placed') \in Nat
      BY <1>8, <3>1, SubsetsFinite
    <3> QED
      BY <1>1, <1>3, <2>1, <3>1, <3>3, <3>4 DEF Kahn
  <2>2. CASE cur \notin deps[t]
    <3>1. deps[t] \ Placed' = deps[t] \ Placed
      BY <1>10, <2>2
    <3> QED
      BY <1>1, <1>3, <2>2, <3>1 DEF Kahn
  <2> QED
    BY <2>1, <2>2
<1>14. BuildTypeOK'
  <2>1. inDegree' \in [Steps -> Nat]
    BY <1>1, <1>13
  <2> QED
    BY <1>1, <1>3, <1>10, <1>12, <2>1 DEF BuildTypeOK
<1>15. Placed' \cap Waiting' = {}
  BY <1>3, <1>4, <1>10, <1>11, <1>12 DEF Kahn
<1>16. ASSUME NEW t \in Steps
       PROVE  t \in Placed' \cup Waiting' <=> deps[t] \subseteq Placed'
  <2>1. t \in Placed' \cup Waiting' <=> t \in Placed \cup Waiting \/ t \in F
    BY <1>4, <1>10, <1>12
  <2>2. t \in Placed \cup Waiting <=> deps[t] \subseteq Placed
    BY <1>3 DEF Kahn
  <2>3. deps[t] \subseteq Placed' <=> deps[t] \subseteq Placed \/ deps[t] \ Placed = {cur}
    BY <1>7, <1>10
  <2> QED
    BY <1>9, <2>1, <2>2, <2>3
<1>17. Len(order') = Cardinality(Placed')
  <2>1. Placed \subseteq Steps
    BY <1>3 DEF Placed, Elements
  <2>2. IsFiniteSet(Placed)
    BY <2>1, SubsetsFinite
  <2>3. Cardinality(Placed \cup {cur}) = Cardinality(Placed) + 1
    BY <1>7, <2>2, FS_AddElement
  <2> QED
    BY <1>3, <1>10, <2>3 DEF Kahn
<1>18. DepsFirst(order', deps)
  <2>1. /\ Len(order) \in Nat
        /\ \A i \in 1..Len(order) : order'[i] = order[i]
        /\ order'[Len(order) + 1] = cur
    BY <1>1, <1>3, <1>4, AppendProperties, LenProperties
  <2>2. deps[cur] \subseteq Placed
    BY <1>3, <1>4 DEF Kahn
  <2> SUFFICES ASSUME NEW i \in 1..Len(order'), NEW d \in deps[order'[i]]
               PROVE  \E j \in 1..(i - 1) : order'[j] = d
    BY DEF DepsFirst
  <2>3. CASE i \in 1..Len(order)
    <3>1. PICK j \in 1..(i - 1) : order[j] = d
      BY <1>3, <2>1, <2>3 DEF Kahn, DepsFirst
    <3>2. order'[j] = d
      BY <2>1, <2>3, <3>1
    <3> QED
      BY <3>2
  <2>4. CASE i = Len(order) + 1
    <3>1. PICK j \in 1..Len(order) : order[j] = d
      BY <2>1, <2>2, <2>4 DEF Placed, Elements
    <3>2. j \in 1..(i - 1) /\ order'[j] = d
      BY <2>1, <2>4, <3>1
    <3> QED
      BY <3>2
  <2> QED
    BY <1>10, <2>1, <2>3, <2>4
<1>19. Kahn'
  BY <1>1, <1>3, <1>10, <1>12, <1>13, <1>15, <1>16, <1>17, <1>18 DEF Kahn
<1> QED
  BY <1>1, <1>14, <1>19

\* When the queue runs empty, either every step was placed, or the steps left over
\* each wait for another of them.
LEMMA FinishKahnInv == KahnInv /\ FinishSort => KahnInv'
<1> SUFFICES ASSUME KahnInv, FinishSort PROVE KahnInv'
  OBVIOUS
<1> USE DEF KahnInv
<1>1. /\ stage = "sort" /\ queue = << >> /\ UNCHANGED <<deps, inDegree, queue, order>>
      /\ stage' = IF Len(order) # Cardinality(Steps) THEN "rejected" ELSE "built"
  BY DEF FinishSort, wfVars
<1>2. BuildTypeOK' /\ Kahn /\ order \in Seq(Steps)
  BY <1>1 DEF BuildTypeOK
<1>3. Waiting = {} /\ Placed \subseteq Steps
  BY <1>1, <1>2 DEF Waiting, Placed, Elements
<1>4. CASE Len(order) = Cardinality(Steps)
  <2>1. Placed = Steps
    BY <1>2, <1>3, <1>4, StepsAssumption, FS_Subset DEF Kahn
  <2>2. Topological(order, Steps, deps)
    BY <1>2, <2>1 DEF Topological, Kahn, Placed
  <2> QED
    BY <1>1, <1>2, <1>4, <2>2
<1>5. CASE Len(order) # Cardinality(Steps)
  <2> DEFINE C == Steps \ Placed
  <2>1. C # {} /\ C \subseteq Steps
    <3>1. Len(order) = Cardinality(Placed)
      BY <1>2 DEF Kahn
    <3>2. Placed # Steps
      BY <1>5, <3>1
    <3> QED
      BY <1>3, <3>2
  <2>2. \A s \in C : deps[s] \cap C # {}
    BY <1>2, <1>3 DEF Kahn
  <2>3. Cyclic(Steps, deps)
    BY <2>1, <2>2 DEF Cyclic
  <2> QED
    BY <1>1, <1>2, <1>5, <2>3
<1> QED
  BY <1>4, <1>5

\* KahnInv holds in every reachable state of NewWorkflow.
THEOREM WorkflowBuildInvariant == BuildSpec => []KahnInv
<1>1. KahnInv /\ UNCHANGED buildVars => KahnInv'
  BY DEF KahnInv, BuildTypeOK, Kahn, Placed, Waiting, buildVars, wfVars
<1>2. KahnInv /\ [BuildNext]_buildVars => KahnInv'
  BY <1>1, ValidateKahnInv, SortKahnInv, FinishKahnInv DEF BuildNext
<1> QED
  BY InitKahnInv, <1>2, PTL DEF BuildSpec

\* An accepted workflow has an order in which every step follows its dependencies.
THEOREM WorkflowBuildTopological == BuildSpec => []BuiltIsTopological
<1>1. KahnInv => BuiltIsTopological
  BY DEF KahnInv, BuiltIsTopological, Topological
<1> QED
  BY WorkflowBuildInvariant, <1>1, PTL

\* NewWorkflow returns an error for exactly the graphs with a cycle or a reference to
\* an unknown step.
THEOREM WorkflowBuildRejectsExactly == BuildSpec => []RejectsExactlyBadGraphs
<1>1. KahnInv => RejectsExactlyBadGraphs
  <2> SUFFICES ASSUME KahnInv PROVE RejectsExactlyBadGraphs
    OBVIOUS
  <2>1. stage = "built" => ~Cyclic(Steps, deps)
    BY TopologicalIsAcyclic DEF KahnInv
  <2> QED
    BY <2>1 DEF KahnInv, RejectsExactlyBadGraphs, Cyclic
<1> QED
  BY WorkflowBuildInvariant, <1>1, PTL

\* A topological order lists every step exactly once.
LEMMA TopologicalIsOrdering ==
  ASSUME NEW S, IsFiniteSet(S), NEW p, NEW d, Topological(p, S, d)
  PROVE  p \in Orderings(S)
<1> DEFINE n == Len(p)
<1>1. /\ p \in Seq(S) /\ n \in Nat /\ p \in [1..n -> S]
      /\ \A i, j \in 1..n : p[i] = p[j] => i = j
      /\ \A s \in S : \E i \in 1..n : p[i] = s
  BY DEF Topological, Distinct, Elements
<1>2. p \in Bijection(1..n, S)
  BY <1>1 DEF Bijection, Injection, IsInjective, Surjection
<1> HIDE DEF n
<1>3. Cardinality(S) = n
  <2>1. IsFiniteSet(1..n) /\ Cardinality(1..n) = n
    BY <1>1, FS_Interval
  <2>2. ExistsBijection(1..n, S)
    BY <1>2 DEF ExistsBijection
  <2> QED
    BY <2>1, <2>2, FS_Bijection
<1> QED
  BY <1>1, <1>3 DEF Orderings, n

\* What NewWorkflow hands over: once it has accepted the graph, the new workflow is an
\* initial state of Workflow.  So the order that Ready and propagateSkip rely on is one
\* that NewWorkflow computed, and not an assumption.
THEOREM WorkflowBuildHandsOver == BuildSpec => [](stage = "built" => WFInit)
<1> DEFINE Fresh == status = [s \in Steps |-> "pending"] /\ skipAt = 0
<1>1. KahnInv /\ stage = "built" => deps \in [Steps -> SUBSET Steps]
  <2> SUFFICES ASSUME KahnInv, stage = "built" PROVE deps \in [Steps -> SUBSET Steps]
    OBVIOUS
  <2>1. Topological(order, Steps, deps) /\ deps \in [Steps -> SUBSET (Steps \cup {Missing})]
    BY DEF KahnInv, BuildTypeOK
  <2>2. ASSUME NEW s \in Steps, NEW d \in deps[s] PROVE d \in Steps
    <3>1. PICK i \in 1..Len(order) : order[i] = s
      BY <2>1 DEF Topological, Elements
    <3>2. PICK j \in 1..(i - 1) : order[j] = d
      BY <2>1, <2>2, <3>1 DEF Topological, DepsFirst
    <3>3. Len(order) \in Nat /\ j \in 1..Len(order)
      BY <2>1, <3>1, <3>2 DEF Topological
    <3> QED
      BY <2>1, <3>2, <3>3 DEF Topological
  <2> QED
    BY <2>1, <2>2
<1>2. KahnInv /\ Fresh => (stage = "built" => WFInit)
  BY <1>1, StepsAssumption, TopologicalIsOrdering DEF KahnInv, WFInit
<1>3. BuildInit => Fresh
  BY DEF BuildInit
<1>4. Fresh /\ [BuildNext]_buildVars => Fresh'
  BY DEF BuildNext, Validate, Sort, FinishSort, buildVars, wfVars
<1> QED
  BY WorkflowBuildInvariant, <1>2, <1>3, <1>4, PTL DEF BuildSpec

----------------------------------------------------------------------------
(* The workflow                                                            *)

\* A step is skipped because something it depends on failed or was skipped.
SkipCaused == \A s \in Steps : status[s] = "skipped" => depsAnyFailed(s)

\* The part of the order that no scan has still to visit.
Scanned ==
  \A i \in 1..Len(order) :
    (skipAt = 0 \/ i < skipAt) /\ status[order[i]] = "pending" => ~depsAnyFailed(order[i])

WFInv ==
  /\ WFTypeOK
  /\ Topological(order, Steps, deps)
  /\ StartedAfterDeps
  /\ SkipCaused
  /\ Scanned

\* A dependency comes earlier in the order than the step that needs it.
LEMMA DepsComeFirst ==
  ASSUME WFTypeOK, Topological(order, Steps, deps),
         NEW i \in 1..Len(order), NEW d \in deps[order[i]]
  PROVE  \E j \in 1..(i - 1) : order[j] = d
BY DEF Topological, DepsFirst

\* The order lists steps, all of them.
LEMMA OrderCovers ==
  ASSUME WFTypeOK, Topological(order, Steps, deps)
  PROVE  /\ Len(order) \in Nat
         /\ \A i \in 1..Len(order) : order[i] \in Steps
         /\ \A s \in Steps : \E i \in 1..Len(order) : order[i] = s
         /\ \A i, j \in 1..Len(order) : order[i] = order[j] => i = j
<1>1. order \in Seq(Steps) /\ Elements(order) = Steps
  BY DEF Topological
<1>2. Len(order) \in Nat /\ \A i \in 1..Len(order) : order[i] \in Steps
  BY <1>1
<1>3. \A s \in Steps : \E i \in 1..Len(order) : order[i] = s
  BY <1>1 DEF Elements
<1> QED
  BY <1>2, <1>3 DEF Topological, Distinct

\* An accepted workflow with every step pending satisfies the invariant.
LEMMA InitWFInv == WFInit => WFInv
<1> SUFFICES ASSUME WFInit PROVE WFInv
  OBVIOUS
<1>1. WFTypeOK
  <2>1. order \in Seq(Steps) /\ Len(order) \in Nat
    BY DEF WFInit, Topological
  <2> QED
    BY <2>1 DEF WFInit, WFTypeOK, StepStatus
<1>2. StartedAfterDeps /\ SkipCaused
  BY DEF WFInit, StartedAfterDeps, SkipCaused
<1>3. Scanned
  <2> SUFFICES ASSUME NEW i \in 1..Len(order), depsAnyFailed(order[i]) PROVE FALSE
    BY DEF Scanned
  <2>1. order[i] \in Steps
    BY <1>1, OrderCovers DEF WFInit
  <2>2. PICK d \in deps[order[i]] : status[d] \in {"failed", "skipped"}
    BY DEF depsAnyFailed
  <2>3. d \in Steps
    BY <2>1, <2>2 DEF WFInit
  <2> QED
    BY <2>2, <2>3 DEF WFInit
<1> QED
  BY <1>1, <1>2, <1>3 DEF WFInit, WFInv

\* Every operation of the workflow preserves the invariant.
LEMMA NextWFInv == WFInv /\ [WFNext]_wfVars => WFInv'
<1> SUFFICES ASSUME WFInv, [WFNext]_wfVars PROVE WFInv'
  OBVIOUS
<1>0. /\ deps \in [Steps -> SUBSET Steps]
      /\ status \in [Steps -> StepStatus]
      /\ Len(order) \in Nat
      /\ skipAt \in 0..Len(order)
      /\ \A i \in 1..Len(order) : order[i] \in Steps
      /\ \A i \in 1..Len(order) : deps[order[i]] \subseteq Steps
  BY OrderCovers DEF WFInv, WFTypeOK
<1>u. UNCHANGED <<deps, order>> => Topological(order, Steps, deps)'
  BY DEF WFInv
<1>1. ASSUME NEW S \in SUBSET Ready, MarkRunning(S) PROVE WFInv'
  <2>0. UNCHANGED <<deps, order, skipAt>> /\ status' = [s \in Steps |-> IF s \in S THEN "running" ELSE status[s]]
    BY <1>1 DEF MarkRunning
  <2>1. WFTypeOK'
    BY <1>0, <2>0 DEF WFInv, WFTypeOK, StepStatus
  <2>2. StartedAfterDeps'
    BY <1>0, <1>1, <2>0 DEF WFInv, StartedAfterDeps, depsAllPassed, Ready
  <2>3. SkipCaused'
    BY <1>0, <1>1, <2>0 DEF WFInv, SkipCaused, depsAnyFailed, Ready
  <2>4. Scanned'
    BY <1>0, <1>1, <2>0 DEF WFInv, Scanned, depsAnyFailed, Ready
  <2> QED
    BY <2>0, <1>u, <2>1, <2>2, <2>3, <2>4 DEF WFInv
<1>2. ASSUME NEW s \in Steps, NEW res \in {"passed", "failed"},
             status[s] = "running", Advance(s, res)
      PROVE  WFInv'
  <2>0. /\ UNCHANGED <<deps, order>>
        /\ status' = [status EXCEPT ![s] = res]
        /\ skipAt = 0
        /\ skipAt' = IF res = "failed" THEN 1 ELSE 0
    BY <1>2 DEF Advance
  <2>1. WFTypeOK'
    <3>1. \E i \in 1..Len(order) : order[i] = s
      BY OrderCovers DEF WFInv
    <3>2. 1 <= Len(order)
      BY <3>1, <1>0
    <3> QED
      BY <1>0, <2>0, <3>2 DEF WFInv, WFTypeOK, StepStatus
  <2>2. StartedAfterDeps'
    <3> SUFFICES ASSUME NEW t \in Steps, status'[t] \in {"running", "passed", "failed"},
                        NEW d \in deps[t]
                 PROVE  status'[d] = "passed"
      BY <2>0 DEF StartedAfterDeps, depsAllPassed
    <3>1. status[t] \in {"running", "passed", "failed"}
      BY <1>0, <1>2, <2>0
    <3>2. status[d] = "passed"
      BY <3>1 DEF WFInv, StartedAfterDeps, depsAllPassed
    <3> QED
      BY <1>0, <1>2, <2>0, <3>2
  <2>3. SkipCaused'
    <3> SUFFICES ASSUME NEW t \in Steps, status'[t] = "skipped"
                 PROVE  \E d \in deps[t] : status'[d] \in {"failed", "skipped"}
      BY <2>0 DEF SkipCaused, depsAnyFailed
    <3>1. status[t] = "skipped"
      BY <1>0, <1>2, <2>0
    <3>2. PICK d \in deps[t] : status[d] \in {"failed", "skipped"}
      BY <3>1 DEF WFInv, SkipCaused, depsAnyFailed
    <3>3. d # s
      BY <1>2, <3>2
    <3> QED
      BY <1>0, <2>0, <3>2, <3>3
  <2>4. Scanned'
    <3> SUFFICES ASSUME NEW i \in 1..Len(order), skipAt' = 0 \/ i < skipAt',
                        status'[order[i]] = "pending",
                        NEW d \in deps[order[i]], status'[d] \in {"failed", "skipped"}
                 PROVE  FALSE
      BY <2>0 DEF Scanned, depsAnyFailed
    <3>1. res = "passed" /\ skipAt = 0
      BY <1>0, <2>0
    <3>2. status[order[i]] = "pending" /\ status[d] \in {"failed", "skipped"}
      BY <1>0, <1>2, <2>0, <3>1
    <3> QED
      BY <3>1, <3>2 DEF WFInv, Scanned, depsAnyFailed
  <2> QED
    BY <2>0, <1>u, <2>1, <2>2, <2>3, <2>4 DEF WFInv
<1>3. CASE PropagateSkip
  <2> DEFINE c == order[skipAt]
  <2>0. /\ UNCHANGED <<deps, order>>
        /\ skipAt \in 1..Len(order)
        /\ c \in Steps
        /\ status' = IF status[c] = "pending" /\ depsAnyFailed(c)
                       THEN [status EXCEPT ![c] = "skipped"] ELSE status
        /\ skipAt' = IF skipAt = Len(order) THEN 0 ELSE skipAt + 1
    BY <1>0, <1>3 DEF PropagateSkip
  <2> HIDE DEF c
  <2>1. WFTypeOK'
    BY <1>0, <2>0 DEF WFInv, WFTypeOK, StepStatus
  <2>2. \A t \in Steps : status'[t] = status[t]
                         \/ (t = c /\ status[t] = "pending" /\ status'[t] = "skipped" /\ depsAnyFailed(c))
    BY <1>0, <2>0
  <2>3. StartedAfterDeps'
    <3> SUFFICES ASSUME NEW t \in Steps, status'[t] \in {"running", "passed", "failed"},
                        NEW d \in deps[t]
                 PROVE  status'[d] = "passed"
      BY <2>0 DEF StartedAfterDeps, depsAllPassed
    <3>1. status[t] \in {"running", "passed", "failed"}
      BY <2>2
    <3>2. status[d] = "passed" /\ d \in Steps
      BY <1>0, <3>1 DEF WFInv, StartedAfterDeps, depsAllPassed
    <3> QED
      BY <2>2, <3>2
  <2>4. SkipCaused'
    <3> SUFFICES ASSUME NEW t \in Steps, status'[t] = "skipped"
                 PROVE  \E d \in deps[t] : status'[d] \in {"failed", "skipped"}
      BY <2>0 DEF SkipCaused, depsAnyFailed
    <3>1. PICK d \in deps[t] : status[d] \in {"failed", "skipped"}
      BY <2>2 DEF WFInv, SkipCaused, depsAnyFailed
    <3>2. d \in Steps
      BY <1>0
    <3> QED
      BY <2>2, <3>1, <3>2
  <2>5. Scanned'
    <3> SUFFICES ASSUME NEW i \in 1..Len(order), skipAt' = 0 \/ i < skipAt',
                        status'[order[i]] = "pending",
                        NEW d \in deps[order[i]], status'[d] \in {"failed", "skipped"}
                 PROVE  FALSE
      BY <2>0 DEF Scanned, depsAnyFailed
    <3>1. i <= skipAt
      BY <1>0, <2>0
    <3>2. order[i] \in Steps /\ d \in Steps
      BY <1>0
    <3>3. status[order[i]] = "pending"
      BY <2>2, <3>2
    <3>4. d # c
      <4>1. PICK j \in 1..(i - 1) : order[j] = d
        BY DepsComeFirst DEF WFInv
      <4>2. j \in 1..Len(order) /\ j # skipAt
        BY <3>1, <1>0, <2>0
      <4> QED
        BY <4>1, <4>2, <2>0, OrderCovers DEF WFInv, c
    <3>5. status[d] \in {"failed", "skipped"}
      BY <2>2, <3>2, <3>4
    <3>6. CASE i < skipAt
      BY <3>3, <3>5, <3>6 DEF WFInv, Scanned, depsAnyFailed
    <3>7. CASE i = skipAt
      <4>1. order[i] = c /\ depsAnyFailed(c)
        BY <3>5, <3>7 DEF depsAnyFailed, c
      <4>2. status'[c] = "skipped"
        BY <1>0, <2>0, <3>3, <4>1
      <4> QED
        BY <4>1, <4>2
    <3> QED
      BY <3>1, <3>6, <3>7, <1>0
  <2> QED
    BY <2>0, <1>u, <2>1, <2>3, <2>4, <2>5 DEF WFInv
<1>4. CASE UNCHANGED wfVars
  BY <1>4 DEF wfVars, WFInv, WFTypeOK, StartedAfterDeps, SkipCaused, Scanned, depsAllPassed,
              depsAnyFailed
<1> QED
  BY <1>1, <1>2, <1>3, <1>4 DEF WFNext

\* The inductive invariant holds in every reachable state of a workflow.
THEOREM WorkflowInvariant == WFSpec => []WFInv
BY InitWFInv, NextWFInv, PTL DEF WFSpec

\* Advance and MarkRunning let no step start before its dependencies have passed.
THEOREM WorkflowStartedAfterDeps == WFSpec => []StartedAfterDeps
<1>1. WFInv => StartedAfterDeps
  BY DEF WFInv
<1> QED
  BY <1>1, WorkflowInvariant, PTL

\* Upstream(s) holds what s depends on, and what its members depend on.
LEMMA UpstreamClosed ==
  ASSUME WFTypeOK, NEW s \in Steps
  PROVE  /\ Upstream(Steps, deps, s) \subseteq Steps
         /\ deps[s] \subseteq Upstream(Steps, deps, s)
         /\ \A u \in Upstream(Steps, deps, s) : deps[u] \subseteq Upstream(Steps, deps, s)
BY DEF WFTypeOK, Upstream

\* When Advance has returned, the skipped steps are the ones downstream of a failure.
\* From a skipped step, the first skipped step of the order among it and its upstream has
\* a failed dependency; and if a step is not skipped, the steps that are neither failed
\* nor skipped are closed under dependencies and hold its own.
LEMMA InvSkippedExactly == WFInv => SkippedExactly
<1> SUFFICES ASSUME WFInv, skipAt = 0, NEW s \in Steps
             PROVE  status[s] = "skipped" <=>
                      \E t \in Upstream(Steps, deps, s) : status[t] = "failed"
  BY DEF SkippedExactly
<1> DEFINE U == Upstream(Steps, deps, s)
<1>0. /\ U \subseteq Steps
      /\ deps[s] \subseteq U
      /\ \A u \in U : deps[u] \subseteq U
  BY UpstreamClosed DEF WFInv
<1>t. status \in [Steps -> StepStatus] /\ deps \in [Steps -> SUBSET Steps]
  BY DEF WFInv, WFTypeOK
<1>1. ASSUME status[s] = "skipped"
      PROVE  \E t \in U : status[t] = "failed"
  <2> DEFINE T == {i \in 1..Len(order) : order[i] \in U \cup {s} /\ status[order[i]] = "skipped"}
  <2> HIDE DEF U
  <2>1. T # {} /\ T \subseteq Nat
    BY <1>1, OrderCovers DEF WFInv
  <2>2. PICK i \in T : \A j \in T : i <= j
    BY <2>1, LeastNatural
  <2>3. i \in 1..Len(order) /\ order[i] \in U \cup {s} /\ status[order[i]] = "skipped"
    OBVIOUS
  <2>4. order[i] \in Steps
    BY <2>3, OrderCovers DEF WFInv
  <2>5. PICK d \in deps[order[i]] : status[d] \in {"failed", "skipped"}
    BY <2>3, <2>4 DEF WFInv, SkipCaused, depsAnyFailed
  <2>6. d \in U
    BY <1>0, <2>3, <2>5
  <2>7. PICK j \in 1..(i - 1) : order[j] = d
    BY <2>3, <2>5, DepsComeFirst DEF WFInv
  <2>8. j \in 1..Len(order) /\ ~(i <= j)
    BY <2>3, <2>7, OrderCovers DEF WFInv
  <2>9. j \notin T
    BY <2>2, <2>8
  <2>10. status[d] # "skipped"
    BY <2>6, <2>7, <2>8, <2>9
  <2> QED
    BY <2>5, <2>6, <2>10
<1>2. ASSUME NEW t \in U, status[t] = "failed"
      PROVE  status[s] = "skipped"
  <2> SUFFICES ASSUME status[s] # "skipped" PROVE FALSE
    OBVIOUS
  <2> DEFINE C == {u \in Steps : status[u] \notin {"failed", "skipped"}}
  <2>1. ASSUME NEW u \in Steps, status[u] # "skipped" PROVE deps[u] \subseteq C
    <3>1. CASE status[u] = "pending"
      <4>1. PICK i \in 1..Len(order) : order[i] = u
        BY OrderCovers DEF WFInv
      <4>2. ~depsAnyFailed(u)
        BY <3>1, <4>1 DEF WFInv, Scanned
      <4> QED
        BY <1>t, <4>2 DEF depsAnyFailed
    <3>2. CASE status[u] \in {"running", "passed", "failed"}
      <4>1. depsAllPassed(u)
        BY <3>2 DEF WFInv, StartedAfterDeps
      <4> QED
        BY <1>t, <4>1 DEF depsAllPassed
    <3> QED
      BY <1>t, <2>1, <3>1, <3>2 DEF StepStatus
  <2>2. deps[s] \subseteq C /\ \A u \in C : deps[u] \subseteq C
    BY <2>1
  <2>3. C \in SUBSET Steps
    OBVIOUS
  <2>4. t \in C
    <3> HIDE DEF C
    <3> QED
      BY <1>2, <2>2, <2>3 DEF Upstream
  <2> QED
    BY <1>2, <2>4
<1> QED
  BY <1>1, <1>2

\* One pass of propagateSkip over the topological order skips exactly the steps that
\* depend, directly or not, on a failed one.
THEOREM WorkflowSkippedExactly == WFSpec => []SkippedExactly
BY InvSkippedExactly, WorkflowInvariant, PTL

\* A workflow that is not done and has nothing running has something ready: of the
\* pending steps, the first in the order.
LEMMA InvNeverStuck == WFInv => NeverStuck
<1> SUFFICES ASSUME WFInv, skipAt = 0, ~IsDone, \A s \in Steps : status[s] # "running"
             PROVE  Ready # {}
  BY DEF NeverStuck
<1>t. status \in [Steps -> StepStatus] /\ deps \in [Steps -> SUBSET Steps]
  BY DEF WFInv, WFTypeOK
<1> DEFINE T == {i \in 1..Len(order) : status[order[i]] = "pending"}
<1>1. T # {} /\ T \subseteq Nat
  <2>1. PICK s \in Steps : status[s] = "pending"
    BY DEF IsDone
  <2> QED
    BY <2>1, OrderCovers DEF WFInv
<1>2. PICK i \in T : \A j \in T : i <= j
  BY <1>1, LeastNatural
<1>3. i \in 1..Len(order) /\ order[i] \in Steps /\ status[order[i]] = "pending"
  BY OrderCovers DEF WFInv
<1>4. ASSUME NEW d \in deps[order[i]] PROVE status[d] = "passed"
  <2>1. PICK j \in 1..(i - 1) : order[j] = d
    BY <1>3, DepsComeFirst DEF WFInv
  <2>2. j \in 1..Len(order) /\ ~(i <= j)
    BY <1>3, <2>1, OrderCovers DEF WFInv
  <2>3. status[d] # "pending"
    BY <1>2, <2>1, <2>2
  <2>4. ~depsAnyFailed(order[i])
    BY <1>3 DEF WFInv, Scanned
  <2>5. d \in Steps /\ status[d] \notin {"failed", "skipped"}
    BY <1>3, <1>t, <2>4 DEF depsAnyFailed
  <2> QED
    BY <1>t, <2>3, <2>5 DEF StepStatus
<1>5. order[i] \in Ready
  BY <1>3, <1>4 DEF Ready, depsAllPassed
<1> QED
  BY <1>5

\* The loop of runWorkflow never waits on a half-finished workflow in which nothing runs.
THEOREM WorkflowNeverStuck == WFSpec => []NeverStuck
BY InvNeverStuck, WorkflowInvariant, PTL

\* A step of the workflow moves a status only forward.
LEMMA NextOutcomesFinal ==
  ASSUME WFInv, [WFNext]_wfVars, NEW s \in Steps
  PROVE  \/ status'[s] = status[s]
         \/ status[s] = "pending" /\ status'[s] \in {"running", "skipped"}
         \/ status[s] = "running" /\ status'[s] \in {"passed", "failed"}
<1>t. status \in [Steps -> StepStatus]
  BY DEF WFInv, WFTypeOK
<1>1. ASSUME NEW S \in SUBSET Ready, MarkRunning(S)
      PROVE  status'[s] = status[s] \/ (status[s] = "pending" /\ status'[s] = "running")
  BY <1>1 DEF MarkRunning, Ready
<1>2. ASSUME NEW t \in Steps, NEW res \in {"passed", "failed"},
             status[t] = "running", Advance(t, res)
      PROVE  status'[s] = status[s] \/ (status[s] = "running" /\ status'[s] \in {"passed", "failed"})
  BY <1>2, <1>t DEF Advance
<1>3. CASE PropagateSkip
  BY <1>3, <1>t DEF PropagateSkip
<1>4. CASE UNCHANGED wfVars
  BY <1>4 DEF wfVars
<1> QED
  BY <1>1, <1>2, <1>3, <1>4 DEF WFNext

\* Advance, MarkRunning and propagateSkip never replace the outcome of a step.
THEOREM WorkflowOutcomesFinal == WFSpec => OutcomesFinal
<1> DEFINE Forward ==
      \A s \in Steps : \/ status'[s] = status[s]
                       \/ status[s] = "pending" /\ status'[s] \in {"running", "skipped"}
                       \/ status[s] = "running" /\ status'[s] \in {"passed", "failed"}
<1>1. WFInv /\ [WFNext]_wfVars => [Forward]_wfVars
  BY NextOutcomesFinal
<1> QED
  BY <1>1, WorkflowInvariant, PTL DEF WFSpec, OutcomesFinal

----------------------------------------------------------------------------
(* runWorkflow and its step goroutines                                     *)

Alive == {"send", "backoff", "report"}

Outcomes == {"passed", "failed"}

Result == [step : Steps, status : Outcomes]

\* The shape of the state of runWorkflow.
RunTypeOK ==
  /\ loop \in {"launch", "select", "done", "aborted"}
  /\ step \in [Steps -> Alive \cup {"none", "ended"}]
  /\ attempt \in [Steps -> 0..RetryMax]
  /\ \A s \in Steps : step[s] = "backoff" => attempt[s] < RetryMax
  /\ outcome \in [Steps -> Outcomes]
  /\ resultsChan \in Seq(Result)
  /\ ctxDone \in BOOLEAN
  /\ saved \subseteq {"PASSED", "FAILED", "ERRORED"}
  /\ unread \in BOOLEAN
  /\ verdict \in {"none", "PASSED", "FAILED", "ERRORED"}

\* The channel holds one result of a step at most.
OneResultEach ==
  \A i, j \in 1..Len(resultsChan) : resultsChan[i].step = resultsChan[j].step => i = j

\* A step is running while its goroutine is alive and, after that, while its result is in
\* the channel; never both.
RunningIsOwned ==
  \A s \in Steps :
    /\ status[s] = "running" <=> (step[s] \in Alive \/ Reported(s))
    /\ ~(step[s] \in Alive /\ Reported(s))

\* When the verdict stands no goroutine is left that could store another result.
VerdictIsLast ==
  /\ verdict = "PASSED" => loop = "done"
  /\ loop = "done" => skipAt = 0 /\ IsDone
  /\ PassedHasNoFailure

RunInv ==
  /\ RunTypeOK
  /\ OneResultEach
  /\ RunningIsOwned
  /\ VerdictIsLast

\* What processResultsForStep stores of a reply are statuses of test results.
LEMMA StoredStatuses ==
  ASSUME NEW reply PROVE ResultsOf(reply) \subseteq {"PASSED", "FAILED", "ERRORED"}
BY DEF ResultsOf, mapAgentStatus

\* The channel holds results.
LEMMA ChannelElements ==
  ASSUME RunTypeOK
  PROVE  /\ Len(resultsChan) \in Nat
         /\ \A i \in 1..Len(resultsChan) :
              /\ resultsChan[i] \in Result
              /\ resultsChan[i].step \in Steps
              /\ resultsChan[i].status \in Outcomes
<1>1. Len(resultsChan) \in Nat /\ \A i \in 1..Len(resultsChan) : resultsChan[i] \in Result
  BY ElementOfSeq DEF RunTypeOK
<1> QED
  BY <1>1 DEF Result

\* A step whose result is not in the channel finds room there.
LEMMA ChannelHasRoom ==
  ASSUME RunTypeOK, OneResultEach, NEW s \in Steps, ~Reported(s)
  PROVE  Len(resultsChan) < ResultsCap
<1> DEFINE n == Len(resultsChan)
           f == [i \in 1..n |-> resultsChan[i].step]
           T == Steps \ {s}
<1>1. n \in Nat /\ \A i \in 1..n : resultsChan[i].step \in Steps
  BY ChannelElements
<1>2. f \in [1..n -> T] /\ \A i, j \in 1..n : f[i] = f[j] => i = j
  BY <1>1 DEF OneResultEach, Reported
<1>3. f \in Injection(1..n, T)
  BY <1>2 DEF Injection, IsInjective
<1>4. /\ IsFiniteSet(T)
      /\ Cardinality(T) = Cardinality(Steps) - 1
      /\ Cardinality(Steps) \in Nat
  BY FS_RemoveElement, FS_CardinalityType, StepsAssumption
<1>5. Cardinality(1..n) = n
  <2>1. Cardinality(1..n) = IF 1 > n THEN 0 ELSE n - 1 + 1
    BY <1>1, FS_Interval
  <2> QED
    BY <1>1, <2>1
<1>6. Cardinality(1..n) <= Cardinality(T)
  <2> HIDE DEF f, n, T
  <2> QED
    BY <1>3, <1>4, FS_Injection
<1> QED
  BY <1>1, <1>4, <1>5, <1>6 DEF ResultsCap

\* Receiving takes the oldest result and moves the others up.
LEMMA ReceiveShifts ==
  ASSUME RunTypeOK, resultsChan # << >>, resultsChan' = Tail(resultsChan)
  PROVE  /\ Len(resultsChan) \in Nat \ {0}
         /\ Head(resultsChan) = resultsChan[1]
         /\ resultsChan[1] \in Result
         /\ resultsChan[1].step \in Steps
         /\ resultsChan[1].status \in Outcomes
         /\ resultsChan' \in Seq(Result)
         /\ Len(resultsChan') = Len(resultsChan) - 1
         /\ \A i \in 1..Len(resultsChan') : resultsChan'[i] = resultsChan[i + 1]
<1>1. Len(resultsChan) \in Nat \ {0} /\ resultsChan \in Seq(Result)
  BY EmptySeq DEF RunTypeOK
<1> QED
  BY <1>1, ChannelElements, HeadTailProperties

\* Reporting adds a result behind the others.
LEMMA ReportAppends ==
  ASSUME RunTypeOK, NEW r \in Result,
         resultsChan' = Append(resultsChan, r)
  PROVE  /\ Len(resultsChan) \in Nat
         /\ resultsChan' \in Seq(Result)
         /\ Len(resultsChan') = Len(resultsChan) + 1
         /\ resultsChan'[Len(resultsChan')] = r
         /\ \A i \in 1..Len(resultsChan) : resultsChan'[i] = resultsChan[i]
BY DEF RunTypeOK

\* Every step of runWorkflow and of its goroutines keeps the shape of the state.
LEMMA RunTypeStep == RunTypeOK /\ [Next]_vars => RunTypeOK'
<1> SUFFICES ASSUME RunTypeOK, [Next]_vars PROVE RunTypeOK'
  OBVIOUS
<1> USE DEF Alive, Outcomes
<1>1. CASE Launch
  BY <1>1 DEF Launch, RunTypeOK
<1>2. CASE Receive
  <2>1. resultsChan' \in Seq(Result)
    BY <1>2, ReceiveShifts DEF Receive
  <2> QED
    BY <1>2, <2>1 DEF Receive, RunTypeOK
<1>3. CASE Abort
  BY <1>3 DEF Abort, RunTypeOK
<1>4. CASE Finish
  <2>1. unread' \in BOOLEAN /\ verdict' \in {"PASSED", "FAILED"}
    BY <1>4, RunAssumptions DEF Finish, DecideVerdict
  <2> QED
    BY <1>4, <2>1 DEF Finish, RunTypeOK
<1>5. CASE Skip
  BY <1>5 DEF Skip, runVars, RunTypeOK
<1>6. CASE Expire
  BY <1>6 DEF Expire, RunTypeOK
<1>7. ASSUME NEW s \in Steps, AttemptPasses(s) \/ AttemptFails(s) PROVE RunTypeOK'
  <2>1. PICK results \in PassingResults \cup FailingResults : Save(results)
    BY <1>7 DEF AttemptPasses, AttemptFails
  <2>2. results \subseteq {"PASSED", "FAILED", "ERRORED"}
    BY StoredStatuses DEF PassingResults, FailingResults
  <2>3. saved' \subseteq {"PASSED", "FAILED", "ERRORED"}
    BY <2>1, <2>2 DEF Save, RunTypeOK
  <2>4. CASE AttemptPasses(s)
    BY <2>3, <2>4 DEF AttemptPasses, RunTypeOK
  <2>5. CASE AttemptFails(s)
    BY <2>3, <2>5 DEF AttemptFails, RetryOrReport, RunTypeOK
  <2> QED
    BY <1>7, <2>4, <2>5
<1>8. ASSUME NEW s \in Steps, AttemptUnanswered(s) PROVE RunTypeOK'
  BY <1>8 DEF AttemptUnanswered, RetryOrReport, RunTypeOK
<1>9. ASSUME NEW s \in Steps, Retry(s) PROVE RunTypeOK'
  BY <1>9, RunAssumptions DEF Retry, RunTypeOK
<1>10. ASSUME NEW s \in Steps, Report(s) PROVE RunTypeOK'
  <2>1. [step |-> s, status |-> outcome[s]] \in Result
    BY DEF RunTypeOK, Result
  <2>2. resultsChan' \in Seq(Result)
    BY <1>10, <2>1, ReportAppends DEF Report
  <2> QED
    BY <1>10, <2>2 DEF Report, RunTypeOK
<1>11. CASE UNCHANGED vars
  BY <1>11 DEF vars, runVars, RunTypeOK
<1> QED
  BY <1>1, <1>2, <1>3, <1>4, <1>5, <1>6, <1>7, <1>8, <1>9, <1>10, <1>11
     DEF Next, Main, StepGoroutine

\* A step of a goroutine that neither starts nor ends changes nothing about who is running.
LEMMA OwnedKept ==
  ASSUME OneResultEach, RunningIsOwned, UNCHANGED <<status, resultsChan>>,
         \A s \in Steps : step'[s] \in Alive <=> step[s] \in Alive
  PROVE  OneResultEach' /\ RunningIsOwned'
BY DEF OneResultEach, RunningIsOwned, Reported

\* Launch, Advance and the goroutines keep their bookkeeping together.
LEMMA OwnedRunStep ==
  WFTypeOK /\ RunTypeOK /\ OneResultEach /\ RunningIsOwned /\ [Next]_vars
    => OneResultEach' /\ RunningIsOwned'
<1> SUFFICES ASSUME WFTypeOK, RunTypeOK, OneResultEach, RunningIsOwned, [Next]_vars
             PROVE  OneResultEach' /\ RunningIsOwned'
  OBVIOUS
<1>0. /\ status \in [Steps -> StepStatus]
      /\ step \in [Steps -> Alive \cup {"none", "ended"}]
      /\ Len(resultsChan) \in Nat
      /\ \A i \in 1..Len(resultsChan) : resultsChan[i].step \in Steps
  BY ChannelElements DEF WFTypeOK, RunTypeOK
<1>1. CASE Launch
  <2>1. /\ resultsChan' = resultsChan
        /\ status' = [s \in Steps |-> IF s \in Ready THEN "running" ELSE status[s]]
        /\ step' = [s \in Steps |-> IF s \in Ready THEN "send" ELSE step[s]]
    BY <1>1 DEF Launch, MarkRunning
  <2>2. \A s \in Ready : status[s] = "pending" /\ ~Reported(s)
    BY DEF Ready, RunningIsOwned
  <2>3. \A s \in Steps : Reported(s)' <=> Reported(s)
    BY <2>1 DEF Reported
  <2>4. RunningIsOwned'
    BY <1>0, <2>1, <2>2, <2>3 DEF RunningIsOwned, Alive
  <2> QED
    BY <2>1, <2>4 DEF OneResultEach
<1>2. CASE Receive
  <2> DEFINE h == resultsChan[1].step
  <2>1. /\ UNCHANGED step
        /\ resultsChan # << >> /\ resultsChan' = Tail(resultsChan)
        /\ status' = [status EXCEPT ![Head(resultsChan).step] = Head(resultsChan).status]
    BY <1>2 DEF Receive, Advance
  <2>2. /\ Len(resultsChan) \in Nat \ {0}
        /\ Head(resultsChan) = resultsChan[1]
        /\ h \in Steps /\ resultsChan[1].status \in Outcomes
        /\ Len(resultsChan') = Len(resultsChan) - 1
        /\ \A i \in 1..Len(resultsChan') : resultsChan'[i] = resultsChan[i + 1]
    BY <2>1, ReceiveShifts
  <2>3. OneResultEach'
    BY <2>2 DEF OneResultEach
  <2>4. \A s \in Steps : Reported(s)' <=> Reported(s) /\ s # h
    <3> SUFFICES ASSUME NEW s \in Steps PROVE Reported(s)' <=> Reported(s) /\ s # h
      OBVIOUS
    <3>1. ASSUME Reported(s)' PROVE Reported(s) /\ s # h
      <4>1. PICK i \in 1..Len(resultsChan') : resultsChan'[i].step = s
        BY <3>1 DEF Reported
      <4>2. i + 1 \in 1..Len(resultsChan) /\ i + 1 # 1 /\ 1 \in 1..Len(resultsChan)
            /\ resultsChan[i + 1].step = s
        BY <2>2, <4>1
      <4> QED
        BY <4>2 DEF Reported, OneResultEach
    <3>2. ASSUME Reported(s), s # h PROVE Reported(s)'
      <4>1. PICK i \in 1..Len(resultsChan) : resultsChan[i].step = s
        BY <3>2 DEF Reported
      <4>2. i - 1 \in 1..Len(resultsChan') /\ i = (i - 1) + 1
        BY <2>2, <3>2, <4>1
      <4>3. resultsChan'[i - 1] = resultsChan[i]
        BY <2>2, <4>2
      <4> QED
        BY <4>1, <4>2, <4>3 DEF Reported
    <3> QED
      BY <3>1, <3>2
  <2>5. Reported(h)
    BY <2>2 DEF Reported
  <2>6. RunningIsOwned'
    BY <1>0, <2>1, <2>2, <2>4, <2>5 DEF RunningIsOwned, Outcomes
  <2> QED
    BY <2>3, <2>6
<1>3. CASE Skip
  <2>1. UNCHANGED <<step, resultsChan>>
    BY <1>3 DEF Skip, runVars
  <2>2. \A s \in Steps : status'[s] = "running" <=> status[s] = "running"
    BY <1>0, <1>3 DEF Skip, PropagateSkip
  <2> QED
    BY <2>1, <2>2 DEF OneResultEach, RunningIsOwned, Reported
<1>4. ASSUME NEW s \in Steps, Report(s) PROVE OneResultEach' /\ RunningIsOwned'
  <2> DEFINE r == [step |-> s, status |-> outcome[s]]
  <2>1. /\ UNCHANGED status
        /\ step[s] = "report"
        /\ step' = [step EXCEPT ![s] = "ended"]
        /\ resultsChan' = Append(resultsChan, r)
    BY <1>4 DEF Report, wfVars
  <2>2. r \in Result
    BY DEF RunTypeOK, Result
  <2>3. /\ Len(resultsChan') = Len(resultsChan) + 1
        /\ resultsChan'[Len(resultsChan')].step = s
        /\ \A i \in 1..Len(resultsChan) : resultsChan'[i] = resultsChan[i]
    BY <2>1, <2>2, ReportAppends
  <2>4. ~Reported(s) /\ status[s] = "running"
    BY <2>1 DEF RunningIsOwned, Alive
  <2>5. OneResultEach'
    BY <1>0, <2>3, <2>4 DEF OneResultEach, Reported
  <2>6. \A t \in Steps : Reported(t)' <=> Reported(t) \/ t = s
    BY <1>0, <2>3 DEF Reported
  <2>7. RunningIsOwned'
    BY <1>0, <2>1, <2>4, <2>6 DEF RunningIsOwned, Alive
  <2> QED
    BY <2>5, <2>7
<1>5. ASSUME NEW s \in Steps, AttemptPasses(s) \/ AttemptFails(s) \/ AttemptUnanswered(s) \/ Retry(s)
      PROVE  OneResultEach' /\ RunningIsOwned'
  <2>1. UNCHANGED <<status, resultsChan>>
    BY <1>5 DEF AttemptPasses, AttemptFails, AttemptUnanswered, Retry, wfVars
  <2>2. step[s] \in Alive /\ \E x \in Alive : step' = [step EXCEPT ![s] = x]
    BY <1>5 DEF AttemptPasses, AttemptFails, AttemptUnanswered, Retry, RetryOrReport, Alive
  <2> QED
    BY <1>0, <2>1, <2>2, OwnedKept
<1>6. CASE Abort \/ Finish \/ Expire \/ UNCHANGED vars
  BY <1>6, OwnedKept DEF Abort, Finish, Expire, vars, wfVars, runVars
<1> QED
  BY <1>1, <1>2, <1>3, <1>4, <1>5, <1>6 DEF Next, Main, StepGoroutine

\* The verdict comes after the last result.
LEMMA VerdictStep == RunInv /\ [Next]_vars => VerdictIsLast'
<1> SUFFICES ASSUME RunInv, [Next]_vars PROVE VerdictIsLast'
  OBVIOUS
<1> USE DEF VerdictIsLast, PassedHasNoFailure
<1>1. CASE Launch
  BY <1>1 DEF RunInv, Launch
<1>2. CASE Receive
  BY <1>2 DEF RunInv, Receive
<1>3. CASE Abort
  BY <1>3 DEF RunInv, Abort
<1>4. CASE Finish
  <2>1. UNCHANGED <<skipAt, status, saved>> /\ loop' = "done" /\ skipAt = 0 /\ IsDone
    BY <1>4 DEF Finish, wfVars
  <2>2. verdict' = IF ~unread' /\ saved \cap Failing # {} THEN "FAILED" ELSE "PASSED"
    BY <1>4 DEF Finish, DecideVerdict
  <2> QED
    BY <2>1, <2>2 DEF IsDone
<1>5. CASE Skip
  <2>1. loop # "done" /\ UNCHANGED <<loop, verdict, unread, saved>>
    BY <1>5 DEF RunInv, Skip, PropagateSkip, runVars
  <2> QED
    BY <2>1 DEF RunInv
<1>6. ASSUME NEW s \in Steps, StepGoroutine(s) PROVE VerdictIsLast'
  <2>1. step[s] \in Alive /\ UNCHANGED <<wfVars, loop, verdict, unread>>
    BY <1>6 DEF StepGoroutine, AttemptPasses, AttemptFails, AttemptUnanswered, Retry, Report, Alive
  <2>2. loop # "done"
    BY <2>1 DEF RunInv, RunningIsOwned, IsDone
  <2> QED
    BY <2>1, <2>2 DEF RunInv
<1>7. CASE Expire \/ UNCHANGED vars
  BY <1>7 DEF RunInv, Expire, vars, wfVars, runVars, IsDone
<1> QED
  BY <1>1, <1>2, <1>3, <1>4, <1>5, <1>6, <1>7 DEF Next, Main

\* runWorkflow starts with nothing running.
LEMMA InitRunInv == Init => RunInv
<1> SUFFICES ASSUME Init PROVE RunInv
  OBVIOUS
<1>1. RunTypeOK
  <2>1. resultsChan \in Seq(Result)
    BY DEF Init
  <2>2. attempt \in [Steps -> 0..RetryMax] /\ \A s \in Steps : step[s] # "backoff"
    BY RunAssumptions DEF Init
  <2> QED
    BY <2>1, <2>2 DEF Init, RunTypeOK, Alive, Outcomes
<1>2. OneResultEach /\ RunningIsOwned
  BY DEF Init, WFInit, OneResultEach, RunningIsOwned, Reported, Alive
<1>3. VerdictIsLast
  BY DEF Init, VerdictIsLast, PassedHasNoFailure
<1> QED
  BY <1>1, <1>2, <1>3 DEF RunInv

\* Whatever the goroutines do, runWorkflow only marks ready steps and only records the
\* outcome of a running one.
LEMMA RunStepRefines == WFInv /\ RunInv /\ [Next]_vars => [WFNext]_wfVars
<1> SUFFICES ASSUME WFInv, RunInv, [Next]_vars PROVE [WFNext]_wfVars
  OBVIOUS
<1>1. CASE Launch
  <2>1. CASE Ready # {}
    BY <1>1, <2>1 DEF Launch, WFNext
  <2>2. CASE Ready = {}
    <3>1. status' = status
      BY <1>1, <2>2 DEF Launch, MarkRunning, WFInv, WFTypeOK
    <3> QED
      BY <1>1, <3>1 DEF Launch, MarkRunning, wfVars
  <2> QED
    BY <2>1, <2>2
<1>2. CASE Receive
  <2> DEFINE h == Head(resultsChan)
  <2>1. /\ Len(resultsChan) \in Nat \ {0}
        /\ h = resultsChan[1]
        /\ h.step \in Steps /\ h.status \in Outcomes
    BY <1>2, ReceiveShifts DEF Receive, RunInv
  <2>2. Reported(h.step)
    BY <2>1 DEF Reported
  <2>3. h.step \in Steps /\ h.status \in {"passed", "failed"} /\ status[h.step] = "running"
    BY <2>1, <2>2 DEF RunInv, RunningIsOwned, Outcomes
  <2>4. Advance(h.step, h.status)
    BY <1>2 DEF Receive
  <2> QED
    BY <2>3, <2>4 DEF WFNext
<1>3. CASE Skip
  BY <1>3 DEF Skip, WFNext
<1>4. CASE Abort \/ Finish \/ Expire \/ \E s \in Steps : StepGoroutine(s)
  BY <1>4 DEF Abort, Finish, Expire, StepGoroutine, AttemptPasses, AttemptFails,
              AttemptUnanswered, Retry, Report
<1>5. CASE UNCHANGED vars
  BY <1>5 DEF vars
<1> QED
  BY <1>1, <1>2, <1>3, <1>4, <1>5 DEF Next, Main

\* The workflow's invariant and that of its driver hold in every reachable state of a run.
THEOREM RunInvariant == Spec => [](WFInv /\ RunInv)
<1>1. Init => WFInv /\ RunInv
  BY InitWFInv, InitRunInv DEF Init
<1>2. WFInv /\ RunInv /\ [Next]_vars => WFInv' /\ RunInv'
  <2> SUFFICES ASSUME WFInv, RunInv, [Next]_vars PROVE WFInv' /\ RunInv'
    OBVIOUS
  <2>1. WFInv'
    BY RunStepRefines, NextWFInv
  <2>2. RunTypeOK' /\ OneResultEach' /\ RunningIsOwned'
    BY RunTypeStep, OwnedRunStep DEF WFInv, RunInv
  <2>3. VerdictIsLast'
    BY VerdictStep
  <2> QED
    BY <2>1, <2>2, <2>3 DEF RunInv
<1> QED
  BY <1>1, <1>2, PTL DEF Spec

\* runWorkflow with its goroutines, retries and aborts implements the workflow as its API
\* is meant to be used.
THEOREM RunImplementsWorkflow == Spec => ImplementsWorkflow
<1>1. Init => WFInit
  BY DEF Init
<1> QED
  BY <1>1, RunInvariant, RunStepRefines, PTL DEF Spec, ImplementsWorkflow, WFSpec

\* In runWorkflow, too, a failure skips what depends on it and nothing else.
THEOREM RunSkippedExactly == Spec => []SkippedExactly
BY RunImplementsWorkflow, WorkflowSkippedExactly, PTL DEF ImplementsWorkflow

\* The loop never waits in its select for a result nobody is going to send.
THEOREM RunNeverStuck == Spec => []NeverStuck
BY RunImplementsWorkflow, WorkflowNeverStuck, PTL DEF ImplementsWorkflow

\* A step runs in one goroutine or has one result in the channel, and a goroutine that
\* reports finds room there.
THEOREM RunGoroutinePerRunningStep == Spec => []GoroutinePerRunningStep
<1>1. RunInv => GoroutinePerRunningStep
  <2> SUFFICES ASSUME RunInv PROVE GoroutinePerRunningStep
    OBVIOUS
  <2>1. ASSUME NEW s \in Steps, step[s] = "report" PROVE Len(resultsChan) < ResultsCap
    BY <2>1, ChannelHasRoom DEF RunInv, RunningIsOwned, Alive
  <2> QED
    BY <2>1 DEF RunInv, GoroutinePerRunningStep, OneResultEach, RunningIsOwned, Alive
<1> QED
  BY <1>1, RunInvariant, PTL

\* executeTestRun does not decide that a run PASSED while a failing result of it is stored
\* or can still be.
THEOREM RunPassedHasNoFailure == Spec => []PassedHasNoFailure
<1>1. RunInv => PassedHasNoFailure
  BY DEF RunInv, VerdictIsLast
<1> QED
  BY <1>1, RunInvariant, PTL
=============================================================================
