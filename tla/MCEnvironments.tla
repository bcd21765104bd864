--------------------------- MODULE MCEnvironments ---------------------------
(* Instances of Environments for TLC: two of the plans of rbac.py, small.     *)
EXTENDS Environments, TLC

CONSTANTS ann, ben, e1, e2, e3, k1, k2, k3, r1, r2, free, pro

MCMaxEnvironments == (free :> 1) @@ (pro :> 2)
MCMaxContainers == (free :> 1) @@ (pro :> 2)

MCSymmetry == Permutations(User) \cup Permutations(Env) \cup Permutations(Container)
              \cup Permutations(Request)
=============================================================================
