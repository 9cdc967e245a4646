---------------------------- MODULE MCMatchDesk ----------------------------
(* A small instance of MatchDesk for TLC. *)
EXTENDS MatchDesk, TLC

CONSTANTS m1, m2, m3, c1, c2, f1

TwoMatches == {m1, m2}
ThreeMatches == {m1, m2, m3}
TwoCallers == {c1, c2}
OneCaller == {c1}
OneFolder == {f1}
NoFolders == {}
Symmetry == Permutations(ThreeMatches) \cup Permutations(TwoCallers)
=============================================================================
