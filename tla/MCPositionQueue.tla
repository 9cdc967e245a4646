-------------------------- MODULE MCPositionQueue --------------------------
(* A small instance of PositionQueue for TLC. *)
EXTENDS PositionQueue, TLC

CONSTANTS p1, p2, q1, q2

TwoProcs == {p1, p2}
TwoQueues == {q1, q2}
OneCodexQueue == {q2}
OneQueue == {q1}
NoQueue == {}
OnePosition == {1}
TwoPositions == 1..2
Symmetry == Permutations(TwoProcs)
=============================================================================
