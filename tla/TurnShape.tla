----------------------------- MODULE TurnShape -----------------------------
(***************************************************************************)
(* What the four players share: the abstract game they look at, the        *)
(* budgets of a turn, and the state a turn carries from node to node.      *)
(*                                                                         *)
(* Plays is the set of lines of legal moves from the canonical position,   *)
(* closed under prefixes; Over those that end the game (or allow a draw    *)
(* to be claimed).  Spelling gives the move a model's text stands for: it  *)
(* is the move itself, or the same move without its "=Q".                  *)
(***************************************************************************)
EXTENDS TestedLines

CONSTANTS Plays, Over, Texts, Spelling,
          MaxScratch, MaxModelCalls, MaxToolCalls, MaxFailedTools,
          MaxProtocolRetries, MaxForcedRetries,
          NoMove, NoId

ASSUME GameAssumption ==
    /\ <<>> \in Plays
    /\ Over \subseteq Plays
    /\ \E text \in Texts : <<Spelling[text]>> \in Plays

ASSUME BudgetAssumption ==
    /\ MaxScratch \in Nat \ {0}
    /\ MaxModelCalls \in Nat \ {0}
    /\ MaxToolCalls \in Nat \ {0}
    /\ MaxFailedTools \in Nat \ {0}
    /\ MaxProtocolRetries \in Nat
    /\ MaxForcedRetries \in Nat

\* require_legal_san: the text is the SAN of a legal move, or omits its "=Q".
RequireLegalSan(line, text) ==
    text \in Texts /\ Append(line, Spelling[text]) \in Plays

\* parse_tool_call: exactly one tagged call, with a tool and its arguments.
OneCall(answer) == answer.body = "step" /\ Len(answer.calls) = 1

\* A fresh phase: its counters are zero, its scratch board unused.
PhaseState(phase) ==
    [phase |-> phase, next |-> phase,
     scratch |-> <<>>, nodes |-> {}, active |-> Root,
     pending |-> <<>>, callId |-> NoId, history |-> <<>>,
     forced |-> FALSE, forcedRetries |-> 0,
     modelCalls |-> 0, toolCalls |-> 0, rejected |-> 0, errors |-> 0,
     reports |-> {}, decision |-> NoMove, branch |-> Root]

Board(turn) == [nodes |-> turn.nodes, active |-> turn.active, scratch |-> turn.scratch]

\* What a node leaves: it raised, it goes on, or its tool call ran at once.
Raised(turn)  == [tag |-> "raised", turn |-> turn, retried |-> FALSE]
Goes(turn)    == [tag |-> "goes", turn |-> turn, retried |-> FALSE]
Retries(turn) == [tag |-> "goes", turn |-> turn, retried |-> TRUE]
Submits(turn) == [tag |-> "submits", turn |-> turn, retried |-> FALSE]
=============================================================================
