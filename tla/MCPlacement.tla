----------------------------- MODULE MCPlacement -----------------------------
(* Instances of Placement for TLC: small plans in the proportions of the      *)
(* defaults of plan_config.py, with RAM and CPU in units of one context.      *)
EXTENDS PlacementAccounting, TLC

CONSTANTS alice, bob,         \* workspaces
          c1, c2, c3, c4,     \* contexts
          ram, cpu,           \* resources
          starter, pro, team  \* plans

Amounts(m, n) == (ram :> m) @@ (cpu :> n)

MCHosting == (starter :> "shared") @@ (pro :> "dedicated") @@ (team :> "dedicated")
MCMaxContexts == (starter :> 2) @@ (pro :> 3) @@ (team :> Unlimited)

\* A pro host takes one context, a team or starter host two; RAM runs out first.
MCHostBudget ==
  (starter :> Amounts(2, 3)) @@ (pro :> Amounts(1, 2)) @@ (team :> Amounts(2, 3))
MCCaps == [p \in {starter, pro, team} |-> {Amounts(1, 1)}]

\* An operator may double the caps of the team plan.
MCEditedCaps == [MCCaps EXCEPT ![team] = {Amounts(1, 1), Amounts(2, 1)}]

MCMixed == [w \in Workspace |-> IF w = alice THEN {team} ELSE {starter}]
MCAllTeam == [w \in Workspace |-> {team}]
MCFree == [w \in Workspace |-> IF w = alice THEN {starter, team} ELSE {team}]

Contexts == Permutations(Context)
=============================================================================
