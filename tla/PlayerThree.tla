---------------------------- MODULE PlayerThree ----------------------------
(***************************************************************************)
(* The nodes of agent player 3 (harness/agent_player3): one synthesis      *)
(* phase, native function calls whose history the next request replays.    *)
(*                                                                         *)
(* An answer is [status, body, ids, calls]: the response's status          *)
(* ("exhausted" is an incomplete one that used up its tokens), whether the *)
(* arguments of its call can be read ("step" or "malformed"), the call_ids *)
(* of its function calls in order (NoId: blank or absent), and the actions *)
(* of the call.                                                            *)
(***************************************************************************)
EXTENDS ChessTools

Calls(ids)   == [i \in DOMAIN ids |-> [type |-> "function_call", id |-> ids[i]]]
Outputs(ids) == [i \in DOMAIN ids |-> [type |-> "function_call_output", id |-> ids[i]]]

Distinct(ids) == \A i, j \in DOMAIN ids : ids[i] = ids[j] => i = j

InitialTurn == PhaseState("synthesis")

\* build_graph: where each node may lead; a tool node leads back to its phase.
Edges ==
    [synthesis       |-> {"synthesis", "synthesis_tools", "end"},
     synthesis_tools |-> {"synthesis"}]

\* Mutant: the limit forgets the tool nodes.
PassesOnly == MaxModelCalls + 4

\* run_config: a pass may route through one tool node before it repeats.
RecursionLimit == 2 * MaxModelCalls + 4

\* replayable_output: only a whole response with distinct, non-blank ids.
Replayable(answer) ==
    /\ answer.status = "completed"
    /\ answer.ids # <<>>
    /\ \A i \in DOMAIN answer.ids : answer.ids[i] # NoId
    /\ Distinct(answer.ids)

\* Mutant: a call_id may be used again.
NeverRepeated(turn, answer) == FALSE

Repeated(turn, answer) ==
    \E i \in DOMAIN answer.ids, k \in DOMAIN turn.history :
        /\ answer.ids[i] # NoId
        /\ turn.history[k] = [type |-> "function_call", id |-> answer.ids[i]]

\* parse_agent_response: one complete agent_step call with an id and actions.
Parsed(answer) ==
    /\ answer.status = "completed"
    /\ Len(answer.ids) = 1
    /\ answer.ids[1] # NoId
    /\ answer.body = "step"

Retry(turn, protocolError) ==
    LET errors == turn.errors + (IF protocolError THEN 1 ELSE 0)
    IN  IF errors > MaxProtocolRetries \/ turn.forcedRetries >= MaxForcedRetries
        THEN Raised(turn)
        ELSE Retries([turn EXCEPT !.errors = errors, !.pending = <<>>, !.callId = NoId,
                                  !.next = turn.phase, !.forced = TRUE])

\* _model_pass before its request
MayAsk(turn) == turn.phase = turn.next /\ turn.modelCalls < MaxModelCalls

\* _model_pass after its request
ModelPass(turn, answer) ==
    LET counted  == [turn EXCEPT !.modelCalls = @ + 1,
                                 !.forcedRetries = IF turn.forced THEN @ + 1 ELSE @]
        replay   == Replayable(answer) /\ ~Repeated(turn, answer)
        heard    == IF replay THEN [counted EXCEPT !.history = @ \o Calls(answer.ids)] ELSE counted
        refused  == IF replay THEN [heard EXCEPT !.history = @ \o Outputs(answer.ids)] ELSE heard
        valid    == /\ Parsed(answer)
                    /\ ~Repeated(turn, answer)
                    /\ \A i \in DOMAIN answer.calls : ValidateArguments(answer.calls[i])
                    /\ ValidateToolBatch(answer.calls)
        pending  == [heard EXCEPT !.pending = answer.calls, !.callId = answer.ids[1],
                                  !.toolCalls = @ + Len(answer.calls)]
        terminal == \E i \in DOMAIN answer.calls : answer.calls[i].tool = "submit_move"
    IN  IF answer.status = "failed" THEN Raised(counted)
        ELSE IF ~valid THEN Retry(refused, answer.status # "exhausted")
        ELSE IF turn.toolCalls + Len(answer.calls) > MaxToolCalls THEN Raised(heard)
        ELSE IF terminal THEN Submits(pending)
        ELSE Goes([pending EXCEPT !.next = "synthesis_tools"])

\* _complete_step: the batch is answered under its call_id and forgotten.
CompleteStep(turn) ==
    [turn EXCEPT !.history = @ \o Outputs(<<turn.callId>>), !.pending = <<>>, !.callId = NoId,
                 !.forced = FALSE, !.forcedRetries = 0]

\* Mutant: the limit on rejected batches is off by one.
RejectOnceMore(turn) ==
    IF turn.rejected >= MaxFailedTools THEN Raised(turn)
    ELSE Goes([CompleteStep(turn) EXCEPT !.rejected = @ + 1, !.next = turn.phase])

\* _execute, a call of the batch rejected: the board of the turn is kept.
RejectBatch(turn) ==
    IF turn.rejected + 1 >= MaxFailedTools THEN Raised(turn)
    ELSE Goes([CompleteStep(turn) EXCEPT !.rejected = @ + 1, !.next = turn.phase])

\* _execute, every call done: the board and the decision are committed.
CommitBatch(turn, board, decision, branch) ==
    Goes([CompleteStep(turn) EXCEPT !.nodes = board.nodes, !.active = board.active,
                                    !.scratch = board.scratch,
                                    !.decision = decision, !.branch = branch,
                                    !.next = IF decision # NoMove THEN "end" ELSE turn.phase])
=============================================================================
