----------------------------- MODULE GuestAgent -----------------------------
(***************************************************************************)
(* What the guest agent (python-agent/agent/__main__.py) replies to a      *)
(* start_test command, as a function of what the test binary did.          *)
(*                                                                         *)
(* A run of a test binary is abstracted to its exit and to the pieces of   *)
(* its output that the parser looks for, a summary to which of its counts  *)
(* are positive, and a reply to its status and the statuses of the results *)
(* in its JSON output (the empty set: a reply without results).            *)
(***************************************************************************)
EXTENDS Naturals

Items == {"PASS", "FAIL", "passed", "failed", "SKIP"}

Counts == [total : BOOLEAN, passed : BOOLEAN, failed : BOOLEAN]

\* What the binary printed: a complete {"suite": ...} object, a line with a summary
\* object, results (in the suite object or on lines of their own), outcomes on "running:"
\* lines, the counts in the summary it printed, and whether the text says "passed" and
\* shows no device error.
TestRun ==
  [exit : {"zero", "nonzero", "timeout", "exception"}, suite : BOOLEAN, summary : BOOLEAN,
   items : SUBSET Items, running : SUBSET {"PASS", "FAIL"}, counts : Counts,
   sentinel : BOOLEAN]

Parsed(results, counts) == [results |-> results, counts |-> counts]

Counted(passed, failed) == [total |-> passed \/ failed, passed |-> passed, failed |-> failed]

\* The four strategies, in their order.  A lone summary and "running:" lines give counts
\* but no results.
parse_vishwa_output(t) ==
  CASE t.suite -> Parsed(t.items, t.counts)
    [] ~t.suite /\ t.summary -> Parsed({}, t.counts)
    [] ~t.suite /\ ~t.summary /\ t.items \cup t.running # {} ->
         Parsed(t.items, Counted("PASS" \in t.items \cup t.running,
                                 t.items \ {"PASS"} # {} \/ "FAIL" \in t.running))
    [] OTHER -> Parsed({IF t.sentinel THEN "PASS" ELSE "FAIL"}, Counted(t.sentinel, ~t.sentinel))

\* The exit code decides, except that an exit with 0 is reconciled with the counts.
ReplyStatus(t) ==
  LET c == parse_vishwa_output(t).counts IN
  CASE t.exit \in {"timeout", "exception"} -> "errored"
    [] t.exit = "nonzero" -> "failed"
    [] OTHER -> IF c.failed \/ (c.total /\ ~c.passed) THEN "failed" ELSE "passed"

StartTestReply(t) == [status |-> ReplyStatus(t), items |-> parse_vishwa_output(t).results]
=============================================================================
