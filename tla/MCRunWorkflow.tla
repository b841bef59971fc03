--------------------------- MODULE MCRunWorkflow ---------------------------
(* Instances of RunWorkflow for TLC.                                       *)
EXTENDS RunWorkflow

\* Everything a test binary may do.
AnyTest == TestRun
=============================================================================
