---------------------------- MODULE MCLaneCallers ----------------------------
\* Callers are interchangeable in the runs without liveness properties.
EXTENDS LaneCallers, TLC

CallerSymmetry == Permutations(Callers)
=============================================================================
