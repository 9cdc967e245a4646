---------------------------- MODULE DatasetRules ----------------------------
(***************************************************************************)
(* The rules of a frozen set of positions (datasets/validation.py).        *)
(*                                                                         *)
(* A board is a record of what the rules read of it: weight (the material  *)
(* of phase_of), fullmove, turn, key (its position without the clocks),    *)
(* check, over (terminal, or a draw can be claimed), pieces, replies,      *)
(* balance and name, which stands for the moves that lead to it.  A row is *)
(* a board with its labels.  The replay of the exported moves is the       *)
(* identity on the model's boards, so what is left of validate_position is *)
(* its judgement of the board and of the labels.                           *)
(***************************************************************************)
EXTENDS EngineLines, SequencesExt

CONSTANTS
    Quotas      \* [<<phase, kind>> |-> rows of each split, and of each side to move]

Colors == {"white", "black"}
Splits == {"train", "test"}

\* QUOTAS of the code: 8, 24, 32 and 96, all even, so that each side has half.
ASSUME QuotaAssumption ==
    \A bucket \in DOMAIN Quotas :
        /\ bucket \in {"opening", "middlegame", "endgame"} \X {"tactical", "quiet"}
        /\ Quotas[bucket] \in Nat \ {0} /\ Quotas[bucket] % 2 = 0

\* The boundaries between the phases belong to none of them.
PhaseOf(board) ==
    IF board.weight <= 8 THEN "endgame"
    ELSE IF board.fullmove <= 12 /\ board.weight >= 18 THEN "opening"
    ELSE IF board.fullmove >= 13 /\ board.weight >= 10 THEN "middlegame"
    ELSE "none"

PositionRaises(row) ==
    \/ row.split \notin Splits
    \/ <<row.phase, row.kind>> \notin DOMAIN Quotas
    \/ row.board.over
    \/ PhaseOf(row.board) # row.phase
    \/ row.kind = "quiet" /\ row.board.check

Rows(rows, Test(_)) == Cardinality({i \in DOMAIN rows : Test(rows[i])})

Repeats(rows, Field(_)) == \E i, j \in DOMAIN rows : i # j /\ Field(rows[i]) = Field(rows[j])

\* Duplicates, quotas that do not match, or sides to move out of balance.
CollectionRaises(rows) ==
    \/ \E i \in DOMAIN rows : PositionRaises(rows[i])
    \/ Repeats(rows, LAMBDA r : r.id)
    \/ Repeats(rows, LAMBDA r : r.game)
    \/ Repeats(rows, LAMBDA r : r.board.key)
    \/ \E bucket \in DOMAIN Quotas, split \in Splits :
          LET of(turns) == Rows(rows, LAMBDA r : /\ r.split = split
                                                 /\ <<r.phase, r.kind>> = bucket
                                                 /\ r.board.turn \in turns)
          IN  \/ of(Colors) # Quotas[bucket]
              \/ \E color \in Colors : of({color}) # Quotas[bucket] \div 2

\* An evaluation belongs to one row, and its best move leads its variations.
EvaluationsRaise(rows, evaluations) ==
    \/ Len(evaluations) # Len(rows)
    \/ {e.position : e \in ToSet(evaluations)} # {r.id : r \in ToSet(rows)}
    \/ \E e \in ToSet(evaluations) :
          \/ e.moves = <<>>
          \/ Head(e.moves) # e.best
          \/ ~IsInjective(e.moves)
=============================================================================
