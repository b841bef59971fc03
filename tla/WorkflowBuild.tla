--------------------------- MODULE WorkflowBuild ---------------------------
(***************************************************************************)
(* NewWorkflow of internal/core/workflow.go: validation of the dependency  *)
(* references, then Kahn's algorithm, which yields the topological order   *)
(* or reports a cycle.  One action per iteration of the main loop.         *)
(*                                                                         *)
(* The input is any graph over Steps, with references to a step that does  *)
(* not exist.  Go iterates over its maps in an arbitrary order, so the     *)
(* order in which steps enter the queue together is arbitrary here.  A     *)
(* dependency that is listed twice is counted twice and removed twice in   *)
(* one iteration, so lists are sets here.  An empty list of steps, an      *)
(* empty ID and a duplicate ID are refused before anything is computed.    *)
(* The variables of Workflow are those of the workflow under construction. *)
(***************************************************************************)
EXTENDS Workflow

CONSTANT Missing  \* an ID that no definition has

ASSUME MissingAssumption == Missing \notin Steps

VARIABLES stage,     \* "validate", "sort", "built" or "rejected"
          inDegree,  \* Kahn's counters
          queue      \* Kahn's queue

buildVars == <<wfVars, stage, inDegree, queue>>

BuildInit ==
  /\ deps \in [Steps -> SUBSET (Steps \cup {Missing})]
  /\ stage = "validate"
  /\ inDegree = [s \in Steps |-> 0]
  /\ queue = << >>
  /\ order = << >>
  /\ status = [s \in Steps |-> "pending"]
  /\ skipAt = 0

\* A reference to an unknown step is an error; otherwise the counters are set up
\* and the steps without dependencies are queued.
Validate ==
  /\ stage = "validate"
  /\ IF \E s \in Steps : Missing \in deps[s]
       THEN stage' = "rejected" /\ UNCHANGED <<inDegree, queue>>
       ELSE /\ stage' = "sort"
            /\ inDegree' = [s \in Steps |-> Cardinality(deps[s])]
            /\ queue' \in Orderings({s \in Steps : deps[s] = {}})
  /\ UNCHANGED wfVars

\* Mutant: the adjacency lists are built in the wrong direction.
FreedReversed(s) == {t \in Steps : t \in deps[s] /\ inDegree[t] = 1}

\* The dependents of step s that its removal leaves without open dependencies.
Freed(s) == {t \in Steps : s \in deps[t] /\ inDegree[t] = 1}

\* One step leaves the queue for the order; its dependents are updated.
Sort ==
  /\ stage = "sort"
  /\ queue # << >>
  /\ LET cur == Head(queue) IN
       /\ order' = Append(order, cur)
       /\ inDegree' = [t \in Steps |-> IF cur \in deps[t] THEN inDegree[t] - 1 ELSE inDegree[t]]
       /\ \E freed \in Orderings(Freed(cur)) : queue' = Tail(queue) \o freed
  /\ UNCHANGED <<deps, status, skipAt, stage>>

\* Mutant: the loop runs until every step is placed.
FinishWhenAllPlaced ==
  /\ stage = "sort"
  /\ Len(order) = Cardinality(Steps)
  /\ stage' = "built"
  /\ UNCHANGED <<wfVars, inDegree, queue>>

\* len(order) != len(w.steps) means that a cycle kept some steps out.
FinishSort ==
  /\ stage = "sort"
  /\ queue = << >>
  /\ stage' = IF Len(order) # Cardinality(Steps) THEN "rejected" ELSE "built"
  /\ UNCHANGED <<wfVars, inDegree, queue>>

BuildNext == Validate \/ Sort \/ FinishSort

BuildSpec == BuildInit /\ [][BuildNext]_buildVars /\ WF_buildVars(BuildNext)

----------------------------------------------------------------------------
(* Properties                                                              *)

\* The shape of the state.
BuildTypeOK ==
  /\ deps \in [Steps -> SUBSET (Steps \cup {Missing})]
  /\ stage \in {"validate", "sort", "built", "rejected"}
  /\ inDegree \in [Steps -> Nat]
  /\ queue \in Seq(Steps)
  /\ order \in Seq(Steps)

\* A workflow that is accepted has an order in which every step follows its
\* dependencies, on which Ready and propagateSkip rely.
BuiltIsTopological == stage = "built" => Topological(order, Steps, deps)

\* The error is raised exactly for graphs with a cycle or an unknown reference.
RejectsExactlyBadGraphs ==
  /\ stage = "built" => ~Cyclic(Steps, deps)
  /\ stage = "rejected" => Cyclic(Steps, deps) \/ \E s \in Steps : Missing \in deps[s]

\* NewWorkflow terminates on every input.
Terminates == <>(stage \in {"built", "rejected"})
=============================================================================
