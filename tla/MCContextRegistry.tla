------------------------- MODULE MCContextRegistry -------------------------
(* Instances of ContextRegistry for TLC.                                      *)
EXTENDS ContextRegistry, TLC

CONSTANTS b1, b2, r1, r2, q1

MCSymmetry == Permutations(Rebuilder) \cup Permutations(Editor)
=============================================================================
