---------------------------- MODULE MCConnectors ----------------------------
(* Instances of Connectors for TLC.                                           *)
EXTENDS Connectors, TLC

CONSTANTS k1, k2, h1, h2, c1, c2, r1, r2

MCSymmetry == Permutations(Host) \cup Permutations(Context) \cup Permutations(Request)
=============================================================================
