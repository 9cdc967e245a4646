----------------------------- MODULE TurnPrompt -----------------------------
(***************************************************************************)
(* When the prompt of a pass cannot be built (the prompt_builder packages  *)
(* of the three agent players).  The text of the sections is left out;     *)
(* what is kept is which sections the manifest shows, and the state each   *)
(* of them demands: a ValueError here ends the turn.                       *)
(***************************************************************************)
EXTENDS TurnShape

\* manifest conditions: scratch.status is active, retry.active is true.
SectionShown(turn, section) ==
    CASE section = "scratch_board_state" -> turn.scratch # <<>>
      [] section = "forced_tool_retry"   -> turn.forced
      [] OTHER                           -> TRUE

\* _board_for_source: the moves are replayed on a scratch board of its own.
BoardForSourceRaises(turn, source) ==
    source = "scratch" /\ (turn.scratch = <<>> \/ turn.scratch \notin Plays)

\* build_board_state_context
BoardStateRaises(turn, source, includeScratchMoves) ==
    \/ BoardForSourceRaises(turn, source)
    \/ includeScratchMoves # (source = "scratch")

\* build_tested_lines_context lists the tree in preorder.
TestedLinesRaise(turn) == PreorderRaises(turn.nodes)

\* build_forced_tool_retry_context
ForcedRetryRaises(turn) == ~turn.forced

\* build_prompt of players 2 and 3
BuildPromptRaises(turn) ==
    \/ BoardStateRaises(turn, "canonical", FALSE)
    \/ SectionShown(turn, "scratch_board_state") /\ BoardStateRaises(turn, "scratch", TRUE)
    \/ TestedLinesRaise(turn)
    \/ SectionShown(turn, "forced_tool_retry") /\ ForcedRetryRaises(turn)

\* build_prompt of player 1: reports instead of a tree, in its last phase.
BuildPhasePromptRaises(turn) ==
    \/ BoardStateRaises(turn, "canonical", FALSE)
    \/ turn.phase = "synthesis" /\ turn.reports # {"defense", "attack"}
    \/ SectionShown(turn, "scratch_board_state") /\ BoardStateRaises(turn, "scratch", TRUE)
    \/ SectionShown(turn, "forced_tool_retry") /\ ForcedRetryRaises(turn)
=============================================================================
