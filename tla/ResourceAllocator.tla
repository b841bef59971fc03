-------------------------- MODULE ResourceAllocator --------------------------
(***************************************************************************)
(* The host budget of internal/core/allocator.go.  Every method runs under *)
(* one mutex, so each is one action on the variable budget.  Engine.tla    *)
(* drives it with the test runs.  SetTotal, which changes the limits, has  *)
(* no caller in the program and is left out.                               *)
(***************************************************************************)
EXTENDS Integers

VARIABLE budget  \* r.budget, a ResourceBudget

\* An Allocation is [CPUs |-> c, MemMB |-> m].
ResourceBudget ==
  [TotalCPUs : Nat, TotalMemMB : Nat, UsedCPUs : Nat, UsedMemMB : Nat]

\* NewResourceAllocator, for limits that are given rather than detected.
NewResourceAllocator(totalCPUs, totalMemMB) ==
  [TotalCPUs |-> totalCPUs, TotalMemMB |-> totalMemMB, UsedCPUs |-> 0, UsedMemMB |-> 0]

CanFit(a) ==
  /\ budget.UsedCPUs + a.CPUs <= budget.TotalCPUs
  /\ budget.UsedMemMB + a.MemMB <= budget.TotalMemMB

\* The condition under which TryAcquire returns true.
Acquirable(a) == a.CPUs >= 0 /\ a.MemMB >= 0 /\ CanFit(a)

\* TryAcquire returning true; when it returns false it changes nothing.
TryAcquire(a) ==
  /\ Acquirable(a)
  /\ budget' = [budget EXCEPT !.UsedCPUs = @ + a.CPUs, !.UsedMemMB = @ + a.MemMB]

\* Subtraction that stops at zero.
Minus(used, n) == IF used - n < 0 THEN 0 ELSE used - n

Release(a) ==
  budget' = [budget EXCEPT !.UsedCPUs = Minus(@, a.CPUs), !.UsedMemMB = Minus(@, a.MemMB)]
=============================================================================
