----------------------------- MODULE PlayerOne -----------------------------
(***************************************************************************)
(* The nodes of agent player 1 (harness/agent_player_1): a defense and an  *)
(* attack phase that end in a report, then a synthesis that ends in a      *)
(* move.  One text tool call per pass; the scratch board is a plain stack. *)
(***************************************************************************)
EXTENDS TurnShape

InitialTurn == PhaseState("defense")

\* build_graph: a phase leads to itself, to its tools or to the next phase.
Edges ==
    [defense         |-> {"defense", "defense_tools", "attack"},
     defense_tools   |-> {"defense"},
     attack          |-> {"attack", "attack_tools", "synthesis"},
     attack_tools    |-> {"attack"},
     synthesis       |-> {"synthesis", "synthesis_tools", "end"},
     synthesis_tools |-> {"synthesis"}]

\* run_config: each of the three phases may run two nodes per model pass.
RecursionLimit == 6 * MaxModelCalls + 10

TerminalTool(phase) ==
    CASE phase = "defense" -> "submit_defense_report"
      [] phase = "attack"  -> "submit_attack_report"
      [] OTHER             -> "submit_move"

\* validate_arguments: the tools of the phase
ValidateArguments(phase, call) ==
    call.tool \in {"play", "undo", "reset", "inspect", "peek", TerminalTool(phase)}

\* execute_tool
ExecuteTool(call, board) ==
    LET moved(scratch) == [verdict |-> "ok", board |-> [board EXCEPT !.scratch = scratch]]
        rejected       == [verdict |-> "rejected", board |-> board]
        move           == Spelling[call.move]
        line           == board.scratch
    IN  CASE call.tool = "submit_move" ->
                IF RequireLegalSan(<<>>, call.move) THEN moved(line) ELSE rejected
          [] call.tool \in {"submit_defense_report", "submit_attack_report"} -> moved(line)
          [] line \notin Plays -> [verdict |-> "raised", board |-> board]
          [] call.tool = "play" /\ line \in Plays ->
                IF RequireLegalSan(line, call.move) THEN moved(Append(line, move)) ELSE rejected
          [] call.tool = "undo" /\ line \in Plays ->
                moved(IF line = <<>> THEN <<>> ELSE SubSeq(line, 1, Len(line) - 1))
          [] call.tool = "reset" /\ line \in Plays -> moved(<<>>)
          [] call.tool = "inspect" /\ line \in Plays -> moved(line)
          [] OTHER -> rejected

Retry(turn, protocolError) ==
    LET errors == turn.errors + (IF protocolError THEN 1 ELSE 0)
    IN  IF errors > MaxProtocolRetries \/ turn.forcedRetries >= MaxForcedRetries
        THEN Raised(turn)
        ELSE Retries([turn EXCEPT !.errors = errors, !.pending = <<>>,
                                  !.next = turn.phase, !.forced = TRUE])

MayAsk(turn) == turn.phase = turn.next /\ turn.modelCalls < MaxModelCalls

ToolNode(phase) ==
    CASE phase = "defense" -> "defense_tools"
      [] phase = "attack"  -> "attack_tools"
      [] OTHER             -> "synthesis_tools"

ModelPass(turn, answer) ==
    LET counted  == [turn EXCEPT !.modelCalls = @ + 1,
                                 !.forcedRetries = IF turn.forced THEN @ + 1 ELSE @]
        pending  == [counted EXCEPT !.pending = answer.calls, !.toolCalls = @ + 1]
    IN  IF answer.status = "failed" THEN Raised(counted)
        ELSE IF ~OneCall(answer) THEN Retry(counted, answer.body # "prose")
        ELSE IF ~ValidateArguments(turn.phase, answer.calls[1]) THEN Retry(counted, TRUE)
        ELSE IF turn.toolCalls >= MaxToolCalls THEN Raised(counted)
        ELSE IF answer.calls[1].tool = TerminalTool(turn.phase) THEN Submits(pending)
        ELSE Goes([pending EXCEPT !.next = ToolNode(turn.phase)])

RejectCall(turn) ==
    IF turn.rejected + 1 >= MaxFailedTools THEN Raised(turn)
    ELSE Goes([turn EXCEPT !.rejected = @ + 1, !.pending = <<>>, !.next = turn.phase])

\* _execute, accepted: a report opens the next phase with fresh state.
CommitCall(turn, board, decision) ==
    LET call  == turn.pending[1]
        done  == [turn EXCEPT !.pending = <<>>, !.forced = FALSE, !.forcedRetries = 0]
        later == IF turn.phase = "defense" THEN "attack" ELSE "synthesis"
    IN  IF call.tool # TerminalTool(turn.phase)
        THEN Goes([done EXCEPT !.scratch = board.scratch, !.next = turn.phase])
        ELSE IF turn.phase = "synthesis"
        THEN Goes([done EXCEPT !.decision = decision, !.next = "end"])
        ELSE Goes([PhaseState(later) EXCEPT !.reports = turn.reports \cup {turn.phase}])
=============================================================================
