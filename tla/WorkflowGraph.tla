--------------------------- MODULE WorkflowGraph ---------------------------
(***************************************************************************)
(* Step graphs: deps[s] is the set of steps that step s names in its       *)
(* depends_on list.  These are the reference notions against which the     *)
(* workflow code is checked; none of them is taken from the code.          *)
(***************************************************************************)
EXTENDS Naturals, Sequences, FiniteSets

\* Some steps wait for each other: a non-empty set each of whose members depends on
\* a member.  In a finite graph that is the same as having a cycle.
Cyclic(Steps, deps) ==
  \E C \in SUBSET Steps : C # {} /\ \A s \in C : deps[s] \cap C # {}

\* The steps that s depends on, directly or not: the least set that holds deps[s] and,
\* with each of its members, what that member depends on.
Upstream(Steps, deps, s) ==
  {t \in Steps :
     \A C \in SUBSET Steps : (deps[s] \subseteq C /\ \A u \in C : deps[u] \subseteq C) => t \in C}

Elements(seq) == {seq[i] : i \in 1..Len(seq)}

\* No element occurs twice.
Distinct(seq) == \A i, j \in 1..Len(seq) : seq[i] = seq[j] => i = j

\* The sequences that list every member of the finite set S exactly once.
Orderings(S) ==
  {p \in [1..Cardinality(S) -> S] : \A i, j \in DOMAIN p : p[i] = p[j] => i = j}

\* Every step comes after the steps it depends on.
DepsFirst(order, deps) ==
  \A i \in 1..Len(order) : \A d \in deps[order[i]] : \E j \in 1..(i - 1) : order[j] = d

Topological(order, Steps, deps) ==
  /\ order \in Seq(Steps)
  /\ Elements(order) = Steps
  /\ Distinct(order)
  /\ DepsFirst(order, deps)
=============================================================================
