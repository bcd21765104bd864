----------------------------- MODULE MCKbReview -----------------------------
(* Instances of KbReview for TLC.                                             *)
EXTENDS KbReview, TLC

CONSTANTS i1, i2, i3, r1, r2

MCSymmetry == Permutations(Item) \cup Permutations(Request)

=============================================================================
