---------------------------- MODULE EngineLines ----------------------------
(***************************************************************************)
(* What is kept of a Stockfish MultiPV analysis: the deepest search whose  *)
(* lines are all there (complete_variations of datasets/curate.py and      *)
(* CompleteCandidates of positional_testing/evaluation.py).                *)
(*                                                                         *)
(* The engine streams one info at a time and may be stopped in the middle  *)
(* of a depth.  An info is a record: depth, multipv (the index of its      *)
(* line), move (the root move of its principal variation), whole (the      *)
(* variation and every score the reader needs are there) and bounded (a    *)
(* lower or an upper bound), with the figures of the line and whether its  *)
(* variation is legal beside them.                                         *)
(***************************************************************************)
EXTENDS Integers, Sequences, FiniteSets

Usable(info) == info.whole /\ ~info.bounded

Depths(infos) == {infos[i].depth : i \in {j \in DOMAIN infos : Usable(infos[j])}}

\* A later info replaces an earlier one of the same depth and line.
Latest(infos, depth) ==
    {i \in DOMAIN infos :
        /\ Usable(infos[i])
        /\ infos[i].depth = depth
        /\ \A j \in DOMAIN infos :
              (j > i /\ Usable(infos[j]) /\ infos[j].depth = depth)
                  => infos[j].multipv # infos[i].multipv}

LinesAt(infos, depth) ==
    LET latest == Latest(infos, depth)
    IN  [k \in {infos[i].multipv : i \in latest} |->
            infos[CHOOSE i \in latest : infos[i].multipv = k]]

Roots(lines) == {lines[k].move : k \in DOMAIN lines}

Deepest(depths) == CHOOSE d \in depths : \A e \in depths : e <= d

\* The curator's reading: count lines with different first moves, or nothing.
CompleteVariations(infos, count) ==
    LET complete == {d \in Depths(infos) :
                        LET lines == LinesAt(infos, d)
                        IN  /\ DOMAIN lines = 1 .. count
                            /\ Cardinality(Roots(lines)) = count}
    IN  IF complete = {} THEN <<>> ELSE LinesAt(infos, Deepest(complete))

\* The evaluator's reading: one line for every legal move.
CompleteDepths(infos, legal) ==
    {d \in Depths(infos) :
        LET lines == LinesAt(infos, d)
        IN  /\ DOMAIN lines = 1 .. Cardinality(legal)
            /\ Roots(lines) = legal}

\* finish raises when no depth is complete.
FinishRaises(infos, legal) == CompleteDepths(infos, legal) = {}

Finish(infos, legal) == LinesAt(infos, Deepest(CompleteDepths(infos, legal)))
=============================================================================
