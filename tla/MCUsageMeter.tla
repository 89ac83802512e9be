---------------------------- MODULE MCUsageMeter ----------------------------
EXTENDS UsageMeter

CONSTANTS A, B

OneEach == [f \in {"restart", "failure"} |-> 1]
ShapeSymmetry == Permutations({A, B})
=============================================================================
