------------------------------ MODULE Grading ------------------------------
(***************************************************************************)
(* The grade of a submitted move (grade_candidates of                      *)
(* positional_testing/evaluation.py): every legal move has one line of a   *)
(* complete depth, with the engine's wins, draws and losses per thousand   *)
(* and its score, an integer that orders centipawns and mates alike.       *)
(* lines maps the index of a line to the line.                             *)
(***************************************************************************)
EXTENDS EngineLines

POINT_UNITS == 2000

Points(line) == 2 * line.wins + line.draws

\* Losses are compared in units of a two-thousandth, at exact boundaries.
Classification(loss, isBest) ==
    IF isBest /\ loss = 0 THEN "best"
    ELSE IF loss >= 400 THEN "blunder"
    ELSE IF loss >= 200 THEN "mistake"
    ELSE IF loss >= 100 THEN "inaccuracy"
    ELSE IF loss >= 40 THEN "good"
    ELSE "excellent"

ClassificationRaises(loss) == ~(0 <= loss /\ loss <= POINT_UNITS)

\* Not one line for every legal move at one depth, an unexpected scale, an
\* illegal variation, or a chosen move that is not legal.
GradeRaises(legal, chosen, lines) ==
    \/ DOMAIN lines # 1 .. Cardinality(legal)
    \/ Roots(lines) # legal
    \/ \E j, k \in DOMAIN lines : lines[j].depth # lines[k].depth
    \/ \E k \in DOMAIN lines :
          \/ lines[k].wins + lines[k].draws + lines[k].losses # 1000
          \/ lines[k].wins < 0 \/ lines[k].draws < 0 \/ lines[k].losses < 0
          \/ ~lines[k].legal
    \/ chosen \notin legal

\* The order of candidates.sort, up to lines it cannot tell apart but by name.
NotBehind(a, b) ==
    \/ Points(a) > Points(b)
    \/ Points(a) = Points(b) /\ a.score >= b.score

Best(lines) == CHOOSE k \in DOMAIN lines : \A j \in DOMAIN lines : NotBehind(lines[k], lines[j])

Chosen(lines, move) == CHOOSE k \in DOMAIN lines : lines[k].move = move

Loss(lines, move) == Points(lines[Best(lines)]) - Points(lines[Chosen(lines, move)])

IsBest(lines, move) == lines[Chosen(lines, move)].score = lines[Best(lines)].score

\* Only strictly better moves are kept as training targets.
BetterMoves(lines, move) ==
    {lines[k].move : k \in {j \in DOMAIN lines :
                               Points(lines[j]) > Points(lines[Chosen(lines, move)])}}

GradeCandidates(lines, move) ==
    [classification |-> Classification(Loss(lines, move), IsBest(lines, move)),
     loss           |-> Loss(lines, move),
     better         |-> BetterMoves(lines, move)]
=============================================================================
