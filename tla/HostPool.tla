------------------------------ MODULE HostPool ------------------------------
(***************************************************************************)
(* What the host scheduler promises about every host, whoever uses it: the *)
(* host is ordered with a fixed budget, then opens or fails; it sells      *)
(* capacity only while it is open and only within its budget; once open it *)
(* stays open until it is retired, and once retired it never comes back.   *)
(* Module Placement implements this specification.                         *)
(***************************************************************************)
EXTENDS Capacity

CONSTANTS Host,      \* identifiers of host rows
          Amount,    \* the capacity vectors that are bought and returned
          Size       \* the budgets a host can be ordered with

VARIABLES phase,     \* phase[h]: where host h is in its life, in the words of hosts.status
          limit,     \* limit[h]: what host h may share out
          sold       \* sold[h]: the capacity reserved on host h

poolVars == <<phase, limit, sold>>

PoolInit == /\ phase = [h \in Host |-> "none"]
            /\ limit = [h \in Host |-> Zero]
            /\ sold = [h \in Host |-> Zero]

Order(h) == /\ phase[h] = "none"
            /\ phase' = [phase EXCEPT ![h] = "provisioning"]
            /\ \E b \in Size : limit' = [limit EXCEPT ![h] = b]
            /\ UNCHANGED sold

Sale(h) == \E v \in Amount : /\ Fits(sold[h], v, limit[h])
                             /\ sold' = [sold EXCEPT ![h] = Charge(@, v)]

\* The host opens, with the slot of the context it was ordered for if it fits.
Open(h) == /\ phase[h] = "provisioning"
           /\ phase' = [phase EXCEPT ![h] = "ready"]
           /\ Sale(h) \/ UNCHANGED sold
           /\ UNCHANGED limit

Fail(h) == /\ phase[h] = "provisioning"
           /\ phase' = [phase EXCEPT ![h] = "error"]
           /\ UNCHANGED <<limit, sold>>

Sell(h) == /\ phase[h] = "ready"
           /\ Sale(h)
           /\ UNCHANGED <<phase, limit>>

Return(h) == /\ phase[h] = "ready"
             /\ \E v \in Amount : sold' = [sold EXCEPT ![h] = Refund(@, v)]
             /\ UNCHANGED <<phase, limit>>

Retire(h) == /\ phase[h] \in {"provisioning", "ready", "error"}
             /\ phase' = [phase EXCEPT ![h] = "deleted"]
             /\ sold' = [sold EXCEPT ![h] = Zero]
             /\ UNCHANGED limit

PoolNext == \E h \in Host : \/ Order(h) \/ Open(h) \/ Fail(h)
                            \/ Sell(h) \/ Return(h) \/ Retire(h)

PoolSpec == PoolInit /\ [][PoolNext]_poolVars
=============================================================================
