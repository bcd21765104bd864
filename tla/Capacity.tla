------------------------------ MODULE Capacity ------------------------------
(***************************************************************************)
(* Capacity vectors: an amount of every resource a host shares out among   *)
(* its contexts (RAM in MB, CPU, disk in GB; the three columns of the      *)
(* hosts table and of ResourceCaps in plan_config.py), in whole units.     *)
(***************************************************************************)
EXTENDS Integers

CONSTANT Resource    \* the dimensions of a capacity vector

Vector == [Resource -> Nat]

Zero == [r \in Resource |-> 0]

\* The WHERE clause of reserve_host_capacity: every dimension must fit.
Fits(used, caps, budget) == \A r \in Resource : used[r] + caps[r] <= budget[r]

\* The SET clause of reserve_host_capacity.
Charge(used, caps) == [r \in Resource |-> used[r] + caps[r]]

\* Mutant of Refund: the use may go below zero.
RefundUnclamped(used, caps) == [r \in Resource |-> used[r] - caps[r]]

\* The SET clause of release_host_capacity: greatest(0, used - caps).
Refund(used, caps) ==
  [r \in Resource |-> IF used[r] >= caps[r] THEN used[r] - caps[r] ELSE 0]
=============================================================================
