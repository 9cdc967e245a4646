----------------------------- MODULE PlayerTwo -----------------------------
(***************************************************************************)
(* The nodes of agent player 2 (harness/agent_player_2): the tools of      *)
(* player 3 behind a text protocol.  The body of an answer is "step" (one  *)
(* batch that can be read), "malformed" (a tool tag that cannot), "prose"  *)
(* (something visible without a tag) or "empty".  tools.py and             *)
(* tested_lines.py of the two players are the same text, so their rules    *)
(* are taken from ChessTools.                                              *)
(***************************************************************************)
EXTENDS ChessTools, TurnPrompt

InitialTurn == PhaseState("synthesis")

\* build_graph: where each node may lead; a tool node leads back to its phase.
Edges ==
    [synthesis       |-> {"synthesis", "synthesis_tools", "end"},
     synthesis_tools |-> {"synthesis"}]

\* run_config
RecursionLimit == 2 * MaxModelCalls + 4

\* validate_arguments and validate_tool_batch of this player's tools.py
BatchIsValid(calls) ==
    /\ \A i \in DOMAIN calls : ValidateArguments(calls[i])
    /\ ValidateToolBatch(calls)

\* execute_tool of this player's tools.py
ExecuteCall(call, board) == ExecuteTool(call, board)

\* parse_agent_response: one notes block, then one array of calls.
Parsed(answer) == answer.body = "step"

\* build_prompt of this player's prompt_builder
PromptRaises(turn) == BuildPromptRaises(turn)

\* reasoning_only: visible output without a tool tag is not a protocol error.
ReasoningOnly(answer) == answer.body = "prose"

Retry(turn, protocolError) ==
    LET errors == turn.errors + (IF protocolError THEN 1 ELSE 0)
    IN  IF errors > MaxProtocolRetries \/ turn.forcedRetries >= MaxForcedRetries
        THEN Raised(turn)
        ELSE Retries([turn EXCEPT !.errors = errors, !.pending = <<>>,
                                  !.next = turn.phase, !.forced = TRUE])

MayAsk(turn) == turn.phase = turn.next /\ turn.modelCalls < MaxModelCalls

ModelPass(turn, answer) ==
    LET counted  == [turn EXCEPT !.modelCalls = @ + 1,
                                 !.forcedRetries = IF turn.forced THEN @ + 1 ELSE @]
        pending  == [counted EXCEPT !.pending = answer.calls, !.toolCalls = @ + Len(answer.calls)]
        terminal == \E i \in DOMAIN answer.calls : answer.calls[i].tool = "submit_move"
    IN  IF answer.status = "failed" THEN Raised(counted)
        ELSE IF ~Parsed(answer) \/ ~BatchIsValid(answer.calls)
             THEN Retry(counted, ~ReasoningOnly(answer))
        ELSE IF turn.toolCalls + Len(answer.calls) > MaxToolCalls THEN Raised(counted)
        ELSE IF terminal THEN Submits(pending)
        ELSE Goes([pending EXCEPT !.next = "synthesis_tools"])

\* A rejection keeps the forced retry and its count.
RejectBatch(turn) ==
    IF turn.rejected + 1 >= MaxFailedTools THEN Raised(turn)
    ELSE Goes([turn EXCEPT !.rejected = @ + 1, !.pending = <<>>, !.next = turn.phase])

CommitBatch(turn, board, decision, branch) ==
    Goes([turn EXCEPT !.nodes = board.nodes, !.active = board.active, !.scratch = board.scratch,
                      !.pending = <<>>, !.forced = FALSE, !.forcedRetries = 0,
                      !.decision = decision, !.branch = branch,
                      !.next = IF decision # NoMove THEN "end" ELSE turn.phase])
=============================================================================
