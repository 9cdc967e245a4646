--------------------------- MODULE BaselinePlayer ---------------------------
(***************************************************************************)
(* The two nodes of the baseline (harness/baseline): ask for a move, then  *)
(* check that it is legal.                                                 *)
(***************************************************************************)
EXTENDS TurnShape

InitialTurn == PhaseState("decide")

\* build_graph: a decision is checked; a refused one is asked for again.
Edges ==
    [decide              |-> {"decide", "validate_submission"},
     validate_submission |-> {"decide", "end"}]

\* run_config
RecursionLimit == 2 * MaxModelCalls + 10

\* validate_arguments: submit_move is the only tool.
ValidateArguments(call) == call.tool = "submit_move"

\* submit_move
SubmitMove(call, board) ==
    [verdict |-> IF RequireLegalSan(<<>>, call.move) THEN "ok" ELSE "rejected", board |-> board]

MayAsk(turn) == turn.modelCalls < MaxModelCalls

\* decide after its request: the counts are taken before they are compared.
Decide(turn, answer) ==
    LET counted   == [turn EXCEPT !.modelCalls = @ + 1,
                                  !.forcedRetries = IF turn.forced THEN @ + 1 ELSE @]
        errors    == counted.errors + (IF answer.body = "prose" THEN 0 ELSE 1)
        exhausted == errors > MaxProtocolRetries \/ counted.forcedRetries >= MaxForcedRetries
    IN  IF answer.status = "failed" THEN Raised(counted)
        ELSE IF OneCall(answer) /\ ValidateArguments(answer.calls[1])
        THEN Goes([counted EXCEPT !.pending = answer.calls, !.next = "validate_submission"])
        ELSE IF exhausted THEN Raised(counted)
        ELSE Retries([counted EXCEPT !.errors = errors, !.pending = <<>>,
                                     !.next = "decide", !.forced = TRUE])

\* validate_submission, rejected and accepted
RejectMove(turn) ==
    IF turn.rejected + 1 >= MaxFailedTools THEN Raised(turn)
    ELSE Goes([turn EXCEPT !.rejected = @ + 1, !.pending = <<>>, !.next = "decide"])

AcceptMove(turn, decision) ==
    Goes([turn EXCEPT !.decision = decision, !.pending = <<>>, !.next = "end",
                      !.forced = FALSE, !.forcedRetries = 0])
=============================================================================
