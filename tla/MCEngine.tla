------------------------------ MODULE MCEngine ------------------------------
(* Engine with model values for the runs. *)
EXTENDS Engine

CONSTANTS r1, r2, r3

=============================================================================
