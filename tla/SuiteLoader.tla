---------------------------- MODULE SuiteLoader -----------------------------
(***************************************************************************)
(* How a run finds its steps (core/execution_engine.go, loadTestSuite):    *)
(* the path arithmetic of Vishwa suite IDs, the search of suite.json in    *)
(* the directories above the working directory and then in a fixed list,   *)
(* and the mapping of a file's tests to workflow steps.                    *)
(*                                                                         *)
(* A suite ID is NoPath, which names a file, or the part after "vishwa/",  *)
(* a non-empty sequence of characters.  A location is a number of levels   *)
(* above the working directory, or "static".  Files may change while they  *)
(* are looked for.                                                         *)
(***************************************************************************)
EXTENDS Integers, SequencesExt

CONSTANTS
  Root,      \* levels from the working directory to the root
  MaxPath,   \* longest Vishwa path
  MaxEdits   \* bound on the changes of suite files

ASSUME LoaderAssumptions == Root \in Nat /\ MaxPath \in Nat /\ MaxEdits \in Nat

VARIABLES
  path,    \* NoPath, or what follows "vishwa/" in the suite ID
  files,   \* per location: the suite.json of this suite
  edits,
  search,  \* where loadTestSuite is, and whether there is a working directory
  suite    \* what it returns

loaderVars == <<path, files, edits, search, suite>>

NoPath == << >>
Static == Root + 1
Locations == 0 .. Static

----------------------------------------------------------------------------
(* Vishwa paths                                                            *)

\* One iteration of splitPath: the end of the text, or a slash, ends a segment.
splitStep(p, acc, i) ==
  IF i <= Len(p) /\ p[i] # "/"
    THEN acc
    ELSE [parts |-> IF i > acc.start THEN Append(acc.parts, SubSeq(p, acc.start, i - 1)) ELSE acc.parts,
          start |-> i + 1]

\* Mutant: the text after the last slash is dropped.
splitPathClosed(p) ==
  LET acc[i \in 0 .. Len(p)] ==
        IF i = 0 THEN [parts |-> << >>, start |-> 1] ELSE splitStep(p, acc[i - 1], i)
  IN  acc[Len(p)].parts

\* The loop over the characters, with one more iteration at the end.
splitPath(p) ==
  LET acc[i \in 0 .. Len(p) + 1] ==
        IF i = 0 THEN [parts |-> << >>, start |-> 1] ELSE splitStep(p, acc[i - 1], i)
  IN  acc[Len(p) + 1].parts

isVishwaSuite == path # NoPath

\* The one step of a Vishwa suite: <test directory>/<path>/<last segment>.
VishwaSteps(p) ==
  <<[ID |-> p, TestBinary |-> <<"/mnt/share/vishwa_tests", p, Last(splitPath(p))>>, DependsOn |-> {}]>>

----------------------------------------------------------------------------
(* Suite files                                                             *)

Step(id, binary, deps) == [ID |-> id, TestBinary |-> binary, DependsOn |-> deps]

Absent == [kind |-> "absent"]
Broken == [kind |-> "broken"]  \* empty, or no JSON
Suite(steps, tests) == [kind |-> "suite", steps |-> steps, tests |-> tests]

\* A file that lists nothing; one with tests; one that lists a test twice; one with steps,
\* which hide its tests.
Listless == Suite(<< >>, << >>)
WithTests == Suite(<< >>, <<[Binary |-> "t1", Abs |-> FALSE, DependsOn |-> {}],
                            [Binary |-> "t2", Abs |-> TRUE, DependsOn |-> {"t1"}]>>)
Twice == Suite(<< >>, <<WithTests.tests[1], WithTests.tests[1]>>)
WithSteps == Suite(<<Step("s1", <<"t1">>, {})>>, WithTests.tests)
Contents == {Absent, Broken, Listless, WithTests, Twice, WithSteps}

\* The share in which the guest finds binaries named by a relative path.
BinaryPath(t) == IF t.Abs THEN <<t.Binary>> ELSE <<"/mnt/share/dvf_tests/", t.Binary>>

\* What the steps of a parsed file are.
StepsOf(file) ==
  IF file.steps # << >> THEN file.steps
  ELSE [i \in DOMAIN file.tests |->
          Step(file.tests[i].Binary, BinaryPath(file.tests[i]), file.tests[i].DependsOn)]

----------------------------------------------------------------------------
(* The search                                                              *)

Min2(a, b) == IF a < b THEN a ELSE b

\* The fixed paths: absolute, three levels up, one level up, here.
FallbackPaths == <<Static, Min2(3, Root), Min2(1, Root), 0>>

NotLoaded == [steps |-> << >>, from |-> -1]

LoaderInit ==
  /\ path \in UNION {[1 .. k -> {"/", "a", "b"}] : k \in 0 .. MaxPath}
  /\ files \in IF isVishwaSuite THEN {[l \in Locations |-> Absent]} ELSE [Locations -> Contents]
  /\ edits = 0
  /\ search = [at |-> "idle", pos |-> 0, cwd |-> TRUE]
  /\ suite = NotLoaded

\* The call; os.Getwd may fail.
LoadSuiteBegins ==
  /\ search.at = "idle"
  /\ search' \in IF isVishwaSuite THEN {[search EXCEPT !.at = "vishwa"]}
                 ELSE {[search EXCEPT !.at = "climb"], [at |-> "fallback", pos |-> 1, cwd |-> FALSE]}
  /\ UNCHANGED <<path, files, edits, suite>>

\* segments[len(segments)-1] panics when there are none.
LoadVishwa ==
  /\ search.at = "vishwa"
  /\ IF splitPath(path) = << >>
       THEN search' = [search EXCEPT !.at = "panic"] /\ UNCHANGED suite
       ELSE /\ suite' = [steps |-> VishwaSteps(path), from |-> -1]
            /\ search' = [search EXCEPT !.at = "loaded"]
  /\ UNCHANGED <<path, files, edits>>

\* Mutant: the search starts at the root.
ClimbFromRoot ==
  /\ search.at = "climb"
  /\ search' = IF files[Root - search.pos] # Absent THEN [search EXCEPT !.at = "read", !.pos = Root - @]
               ELSE IF search.pos = Root THEN [search EXCEPT !.at = "fallback", !.pos = 1]
               ELSE [search EXCEPT !.pos = @ + 1]
  /\ UNCHANGED <<path, files, edits, suite>>

\* os.Stat of one directory's file.
Climb ==
  /\ search.at = "climb"
  /\ search' = IF files[search.pos] # Absent THEN [search EXCEPT !.at = "read"]
               ELSE IF search.pos = Root THEN [search EXCEPT !.at = "fallback", !.pos = 1]
               ELSE [search EXCEPT !.pos = @ + 1]
  /\ UNCHANGED <<path, files, edits, suite>>

\* Unmarshal and map, or fail.
Parse(location) ==
  IF files[location].kind = "suite"
    THEN /\ suite' = [steps |-> StepsOf(files[location]), from |-> location]
         /\ search' = [search EXCEPT !.at = "loaded"]
    ELSE search' = [search EXCEPT !.at = "failed"] /\ UNCHANGED suite

\* The file found may be gone by now.
ReadFound ==
  /\ search.at = "read"
  /\ Parse(search.pos)
  /\ UNCHANGED <<path, files, edits>>

\* The first path that can be read ends the loop.
Fallback ==
  /\ search.at = "fallback"
  /\ LET location == FallbackPaths[search.pos]
     IN  IF files[location] = Absent /\ search.pos < Len(FallbackPaths)
           THEN search' = [search EXCEPT !.pos = @ + 1] /\ UNCHANGED suite
           ELSE Parse(location)
  /\ UNCHANGED <<path, files, edits>>

loadTestSuite == LoadSuiteBegins \/ LoadVishwa \/ Climb \/ ReadFound \/ Fallback

\* Somebody changes the suite files while they are searched.
EditFile(location, content) ==
  /\ search.at \in {"climb", "read", "fallback"}
  /\ edits < MaxEdits
  /\ edits' = edits + 1
  /\ files' = [files EXCEPT ![location] = content]
  /\ UNCHANGED <<path, search, suite>>

----------------------------------------------------------------------------
(* Properties                                                              *)

\* The segments of p by definition: the maximal stretches without a slash, from left to
\* right.
Stretches(p) ==
  {r \in (1 .. Len(p)) \X (1 .. Len(p)) :
     /\ r[1] <= r[2]
     /\ \A k \in r[1] .. r[2] : p[k] # "/"
     /\ r[1] = 1 \/ p[r[1] - 1] = "/"
     /\ r[2] = Len(p) \/ p[r[2] + 1] = "/"}

Segments(p) ==
  LET ordered == CHOOSE q \in [1 .. Cardinality(Stretches(p)) -> Stretches(p)] :
                   \A i, j \in DOMAIN q : i < j => q[i][1] < q[j][1]
  IN  [n \in DOMAIN ordered |-> SubSeq(p, ordered[n][1], ordered[n][2])]

\* The index arithmetic of splitPath yields exactly the segments, for leading, trailing and
\* repeated slashes, and loading a suite panics only when there are none.
SplitPathIsExact ==
  /\ splitPath(path) = Segments(path)
  /\ search.at = "panic" => isVishwaSuite /\ \A i \in DOMAIN path : path[i] = "/"

\* While nobody edits the files, a suite comes from the nearest directory that has one,
\* and the first fixed path decides only if no directory above has one.  Without a working
\* directory the order is that of the fixed paths: the farthest directory wins.
NearestSuiteWins ==
  search.at = "loaded" /\ edits = 0 /\ ~isVishwaSuite =>
    IF search.cwd
      THEN \A l \in 0 .. suite.from - 1 : files[l] = Absent
      ELSE \E k \in DOMAIN FallbackPaths :
             suite.from = FallbackPaths[k] /\ \A j \in 1 .. k - 1 : files[FallbackPaths[j]] = Absent
=============================================================================
