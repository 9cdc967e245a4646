------------------------------ MODULE TurnLoop ------------------------------
(***************************************************************************)
(* One turn of a player: the graph runs its nodes one after the other, the *)
(* model answers whatever it likes, the tools run call by call, and a      *)
(* recorder keeps a row of every pass when the turn belongs to a run.      *)
(*                                                                         *)
(* host is who asked for the turn: a match (no recorder, a cancellation    *)
(* flag), a queued or posted run (a recorder, no flag), or a Codex         *)
(* training run (both, player 2 only).  The task of the turn may also be   *)
(* cancelled where it awaits (Interrupt).  A tool node is a plain function *)
(* that LangGraph runs in a thread: the interrupted turn leaves it behind  *)
(* and it goes on to its end, recorder included, while the runner has      *)
(* already closed the row.  A terminal tool runs inside the model node, on *)
(* the event loop, where no interruption comes between its calls.          *)
(***************************************************************************)
EXTENDS PassBook, TurnPrompt

CONSTANTS Harnesses, Batches, Steps

\* parse_agent_response: a batch that can be read holds at least one call.
ASSUME BatchAssumption ==
    /\ Batches # {}
    /\ \A calls \in Batches : calls # <<>> /\ calls \in Seq({calls[i] : i \in DOMAIN calls})

Three == INSTANCE PlayerThree
Two   == INSTANCE PlayerTwo
One   == INSTANCE PlayerOne
Base  == INSTANCE BaselinePlayer

VARIABLES harness,    \* which player takes the turn
          host,       \* who asked for it: "match", "position" or "codex"
          pc,         \* "node", "waiting" for the model, "batch" of tools, "done"
          node,       \* the node to run next, or "end"
          turn,       \* the graph's state
          work,       \* the batch being executed
          row,        \* the recorder's row of the current pass
          cancelled,  \* what the cancellation check answers
          outcome,    \* how the turn ended
          steps,      \* supersteps the graph has taken
          replayed    \* history: the board that the completed rows replay to

vars == <<harness, host, pc, node, turn, work, row, cancelled, outcome, steps, replayed>>

Hosts == {"match", "position", "codex"}
Recording == host # "match"
Cancellable == host # "position"
Batched == harness \in {"two", "three"}

EmptyBoard == [nodes |-> {}, active |-> Root, scratch |-> <<>>]

NoWork == [turn |-> PhaseState("none"), left |-> <<>>, ran |-> {}, board |-> EmptyBoard,
           decision |-> NoMove, branch |-> Root, inline |-> FALSE]

----------------------------------------------------------------------------
(* The player of the turn.                                                 *)

InitialTurn(h) == CASE h = "three" -> Three!InitialTurn
                    [] h = "two"   -> Two!InitialTurn
                    [] h = "one"   -> One!InitialTurn
                    [] OTHER       -> Base!InitialTurn

RecursionLimit == CASE harness = "three" -> Three!RecursionLimit
                    [] harness = "two"   -> Two!RecursionLimit
                    [] harness = "one"   -> One!RecursionLimit
                    [] OTHER             -> Base!RecursionLimit

Edges == CASE harness = "three" -> Three!Edges
           [] harness = "two"   -> Two!Edges
           [] harness = "one"   -> One!Edges
           [] OTHER             -> Base!Edges

MayAsk == CASE harness = "three" -> Three!MayAsk(turn)
            [] harness = "two"   -> Two!MayAsk(turn)
            [] harness = "one"   -> One!MayAsk(turn)
            [] OTHER             -> Base!MayAsk(turn)

PromptRaises == CASE harness = "three" -> BuildPromptRaises(turn)
                  [] harness = "two"   -> Two!PromptRaises(turn)
                  [] harness = "one"   -> BuildPhasePromptRaises(turn)
                  [] OTHER             -> FALSE

ModelPass(answer) == CASE harness = "three" -> Three!ModelPass(turn, answer)
                       [] harness = "two"   -> Two!ModelPass(turn, answer)
                       [] harness = "one"   -> One!ModelPass(turn, answer)
                       [] OTHER             -> Base!Decide(turn, answer)

Execute(call, board) == CASE harness = "three" -> Three!ExecuteTool(call, board)
                          [] harness = "two"   -> Two!ExecuteCall(call, board)
                          [] harness = "one"   -> One!ExecuteTool(call, board)
                          [] OTHER             -> Base!SubmitMove(call, board)

Reject == CASE harness = "three" -> Three!RejectBatch(work.turn)
            [] harness = "two"   -> Two!RejectBatch(work.turn)
            [] harness = "one"   -> One!RejectCall(work.turn)
            [] OTHER             -> Base!RejectMove(work.turn)

Commit == CASE harness = "three" -> Three!CommitBatch(work.turn, work.board, work.decision, work.branch)
            [] harness = "two"   -> Two!CommitBatch(work.turn, work.board, work.decision, work.branch)
            [] harness = "one"   -> One!CommitCall(work.turn, work.board, work.decision)
            [] OTHER             -> Base!AcceptMove(work.turn, work.decision)

\* The calls whose event says they failed once call i was rejected: player 3
\* tells of the skipped ones too, players 1 and baseline have one call.
Failing(i) == CASE harness = "three" -> DOMAIN work.turn.pending
                [] harness = "two"   -> work.ran \cup {i}
                [] OTHER             -> {1}

ToolNodes == {"defense_tools", "attack_tools", "synthesis_tools", "validate_submission"}

----------------------------------------------------------------------------
(* What the model may answer.                                              *)

Answer(status, body, ids, calls) == [status |-> status, body |-> body, ids |-> ids, calls |-> calls]

UsedIds == {turn.history[k].id : k \in {j \in DOMAIN turn.history : turn.history[j].type = "function_call"}}
FreshId == 1 + Cardinality(UsedIds)

NativeAnswers ==
    LET ids == {<<FreshId>>} \cup {<<id>> : id \in UsedIds}
        any == CHOOSE calls \in Batches : TRUE
    IN  {Answer("completed", "step", id, calls) : id \in {<<FreshId>>}, calls \in Batches}
        \cup {Answer("completed", "step", id, any) : id \in ids \cup {<<NoId>>, <<FreshId, FreshId>>}}
        \cup {Answer("completed", "step", <<FreshId, FreshId + 1>>, any),
              Answer("completed", "malformed", <<FreshId>>, <<>>),
              Answer("completed", "malformed", <<>>, <<>>),
              Answer("exhausted", "step", <<FreshId>>, any),
              Answer("failed", "malformed", <<>>, <<>>), Answer("lost", "malformed", <<>>, <<>>)}

TextAnswers(batches) ==
    {Answer("completed", "step", <<>>, calls) : calls \in batches}
    \cup {Answer("completed", body, <<>>, <<>>) : body \in {"malformed", "prose", "empty"}}
    \cup {Answer(status, "empty", <<>>, <<>>) : status \in {"failed", "lost"}}

Answers == CASE harness = "three" -> NativeAnswers
             [] harness = "two"   -> TextAnswers(Batches)
             [] OTHER             -> TextAnswers({<<call>> : call \in Steps})

----------------------------------------------------------------------------
(* The recorder, and what its rows replay to.                              *)

Recorded(after) == IF Recording THEN after ELSE row

AfterReport(call, board) ==
    IF call.tool \in {"submit_defense_report", "submit_attack_report"} THEN EmptyBoard
    ELSE Execute(call, board).board

\* The calls of a completed row that ran and were neither refused nor rolled
\* back, run again in their recorded execution order.
Replay(board, passed) ==
    LET good == {i \in DOMAIN passed.calls :
                    /\ passed.calls[i].executed
                    /\ ~passed.calls[i].error
                    /\ ~passed.calls[i].rolledBack}
        run[k \in 0 .. Len(passed.calls)] ==
            IF k = 0 THEN board
            ELSE LET now == {i \in good : passed.calls[i].order = k}
                 IN  IF now = {} THEN run[k - 1]
                     ELSE AfterReport(passed.calls[CHOOSE i \in now : TRUE].call, run[k - 1])
    IN  run[Len(passed.calls)]

Saves(after) ==
    /\ row' = after
    /\ replayed' = IF row.status = "running" /\ after.status = "completed"
                   THEN Replay(replayed, after)
                   ELSE replayed

----------------------------------------------------------------------------
(* The graph.                                                              *)

\* A node raised: the row is closed as failed, the turn is over.  A thread
\* left behind raises to nobody.
Aborts(reason, after, rollback) ==
    /\ pc' = "done"
    /\ outcome' = IF outcome = "interrupted" THEN outcome ELSE reason
    /\ work' = NoWork
    /\ Saves(IF Recording THEN Fail(after, rollback) ELSE row)
    /\ UNCHANGED <<node, turn>>

\* A node returned: its state is the graph's and its edge is followed.
Returns(from, after) ==
    IF outcome = "interrupted"
    THEN pc' = "done" /\ work' = NoWork /\ UNCHANGED <<node, turn, outcome>>
    ELSE LET only == CHOOSE n \in Edges[from] : TRUE
             to   == IF Cardinality(Edges[from]) = 1 THEN only ELSE after.next
         IN  /\ turn' = after
             /\ node' = to
             /\ work' = NoWork
             /\ IF to \in Edges[from]
                THEN pc' = "node" /\ UNCHANGED outcome
                ELSE pc' = "done" /\ outcome' = "broken"

\* The graph refuses one superstep more than its recursion limit.
OutOfSteps == steps >= RecursionLimit

Superstep == steps' = IF OutOfSteps THEN steps ELSE steps + 1

\* A model node up to its request.
RequestPass ==
    /\ pc = "node" /\ node \notin ToolNodes \cup {"end"}
    /\ Superstep
    /\ IF OutOfSteps THEN Aborts("recursion", row, FALSE)
       ELSE IF cancelled THEN Aborts("cancelled", row, FALSE)
       ELSE IF ~MayAsk THEN Aborts("failed", row, FALSE)
       ELSE IF PromptRaises THEN Aborts("broken", row, FALSE)
       ELSE /\ pc' = "waiting"
            /\ Saves(Recorded(CaptureInput(Begin(row, turn.phase))))
            /\ UNCHANGED <<node, turn, work, outcome>>
    /\ UNCHANGED <<harness, host, cancelled>>

\* The client keeps the response it got, whatever it is; a request that was
\* never answered leaves none.  It raises for both "lost" and "failed".
Exchanged(answer) == IF answer.status = "lost" THEN row ELSE CaptureOutput(row)
ClientRaises(answer) == answer.status \in {"lost", "failed"}

StartWork(state, inline) ==
    [turn |-> state, left |-> Three!BatchOrder(state.pending), ran |-> {},
     board |-> Board(state), decision |-> NoMove, branch |-> Root, inline |-> inline]

\* A model node after its request: what the client raises comes before the
\* cancellation check; a terminal tool is executed at once.
ReceiveAnswer(answer) ==
    LET heard  == Recorded(Listed(Exchanged(answer), answer.calls))
        passed == ModelPass(answer)
    IN  /\ pc = "waiting"
        /\ IF ClientRaises(answer) THEN Aborts("failed", heard, FALSE)
           ELSE IF cancelled THEN Aborts("cancelled", heard, FALSE)
           ELSE CASE passed.tag = "raised" -> Aborts("failed", heard, FALSE)
                  [] passed.tag = "goes" ->
                        /\ Returns(node, passed.turn)
                        /\ Saves(Recorded(StateSaved(heard, passed.retried, {}, {},
                                                     passed.turn.pending # <<>>)))
                  [] passed.tag = "submits" ->
                        /\ pc' = "batch"
                        /\ work' = StartWork(passed.turn, TRUE)
                        /\ Saves(heard)
                        /\ UNCHANGED <<node, turn, outcome>>
        /\ UNCHANGED <<harness, host, cancelled, steps>>

\* A tool node begins.
RunTools ==
    /\ pc = "node" /\ node \in ToolNodes
    /\ Superstep
    /\ IF OutOfSteps THEN Aborts("recursion", row, FALSE)
       ELSE IF cancelled \/ turn.pending = <<>>
       THEN Aborts(IF cancelled THEN "cancelled" ELSE "broken", row, Batched /\ turn.pending # <<>>)
       ELSE /\ pc' = "batch"
            /\ work' = StartWork(turn, FALSE)
            /\ UNCHANGED <<node, turn, outcome, row, replayed>>
    /\ UNCHANGED <<harness, host, cancelled>>

\* One call of the batch, up to the cancellation check after it.
CallTool ==
    LET item   == Head(work.left)
        result == Execute(item.call, work.board)
        seen   == Recorded(ToolFinished(ToolStarted(row, item.call), Sought(row, item.call),
                                        result.verdict # "ok"))
        submit == item.call.tool = "submit_move"
    IN  /\ pc = "batch" /\ work.left # <<>>
        /\ CASE result.verdict = "raised" -> Aborts("broken", seen, Batched)
             [] result.verdict = "rejected" ->
                  IF Reject.tag = "raised" THEN Aborts("failed", seen, Batched)
                  ELSE /\ Returns(node, Reject.turn)
                       /\ Saves(Recorded(StateSaved(seen, FALSE, work.ran, Failing(item.index), FALSE)))
             [] result.verdict = "ok" /\ cancelled -> Aborts("cancelled", seen, Batched)
             [] OTHER ->
                  /\ work' = [work EXCEPT !.left = Tail(@), !.ran = @ \cup {item.index},
                                          !.board = result.board,
                                          !.decision = IF submit THEN item.call.move ELSE @,
                                          !.branch = IF submit THEN item.call.branch ELSE @]
                  /\ Saves(seen)
                  /\ UNCHANGED <<pc, node, turn, outcome>>
        /\ UNCHANGED <<harness, host, cancelled, steps>>

\* Every call of the batch was accepted.
FinishBatch ==
    /\ pc = "batch" /\ work.left = <<>>
    /\ Returns(node, Commit.turn)
    /\ Saves(Recorded(StateSaved(row, FALSE, {}, {}, FALSE)))
    /\ UNCHANGED <<harness, host, cancelled, steps>>

\* The graph ended; choose_move demands a decision.
EndTurn ==
    /\ pc = "node" /\ node = "end"
    /\ IF turn.decision = NoMove
       THEN Aborts("failed", row, FALSE)
       ELSE /\ pc' = "done"
            /\ outcome' = "moved"
            /\ UNCHANGED <<node, turn, work, row, replayed>>
    /\ UNCHANGED <<harness, host, cancelled, steps>>

\* Someone asks the match or the session to stop.
Cancel ==
    /\ Cancellable /\ ~cancelled /\ outcome = "running"
    /\ cancelled' = TRUE
    /\ UNCHANGED <<harness, host, pc, node, turn, work, row, outcome, steps, replayed>>

\* The task of the turn is cancelled where it awaits; the runner closes the
\* row, and the thread of a tool node is left behind.
Interrupt ==
    /\ outcome = "running" /\ pc # "done"
    /\ pc = "batch" => ~work.inline
    /\ outcome' = "interrupted"
    /\ pc' = IF pc = "batch" THEN pc ELSE "done"
    /\ Saves(Recorded(Fail(row, FALSE)))
    /\ UNCHANGED <<harness, host, node, turn, work, cancelled, steps>>

----------------------------------------------------------------------------
Init ==
    /\ harness \in Harnesses
    /\ host \in Hosts
    /\ host = "codex" => harness = "two"
    /\ pc = "node"
    /\ node = InitialTurn(harness).phase
    /\ turn = InitialTurn(harness)
    /\ work = NoWork
    /\ row = NoRow
    /\ cancelled = FALSE
    /\ outcome = "running"
    /\ steps = 0
    /\ replayed = EmptyBoard

Next ==
    \/ RequestPass
    \/ \E answer \in Answers : ReceiveAnswer(answer)
    \/ RunTools
    \/ CallTool
    \/ FinishBatch
    \/ EndTurn
    \/ Cancel
    \/ Interrupt

Spec == Init /\ [][Next]_vars

----------------------------------------------------------------------------
TypeOK ==
    /\ harness \in Harnesses /\ host \in Hosts
    /\ pc \in {"node", "waiting", "batch", "done"}
    /\ node \in DOMAIN Edges \cup {"end"}
    /\ turn.modelCalls \in 0 .. MaxModelCalls
    /\ turn.toolCalls \in 0 .. MaxToolCalls
    /\ turn.rejected \in 0 .. MaxFailedTools - 1
    /\ turn.errors \in 0 .. MaxProtocolRetries
    /\ turn.active \in Seq(Nat)
    /\ row.status \in {"none", "running", "completed", "failed"}
    /\ cancelled \in BOOLEAN
    /\ outcome \in {"running", "moved", "failed", "cancelled", "interrupted", "recursion", "broken"}
    /\ steps \in 0 .. RecursionLimit

\* The tree of tested lines is a tree of legal lines: ids are unique and
\* number the children of a branch without a gap, siblings differ in their
\* move, nothing follows a finished game, no line is longer than the limit,
\* and the scratch board is the active branch.  So neither a tool nor a
\* prompt ever finds a state it raises ValueError for.
TreeIsSound ==
    LET nodes == turn.nodes
    IN  /\ outcome # "broken"
        /\ \A n \in nodes :
            /\ n.fen \in Plays /\ n.move = n.fen[Len(n.fen)]
            /\ n.ply = Len(n.id) /\ n.ply = Len(n.fen) /\ n.ply <= MaxScratch
            /\ n.parent = SubSeq(n.id, 1, Len(n.id) - 1)
            /\ n.parent # Root =>
                 \E p \in nodes : /\ p.id = n.parent /\ ~p.terminal
                                  /\ p.fen = SubSeq(n.fen, 1, Len(n.fen) - 1)
            /\ n.id[Len(n.id)] <= Cardinality(ChildNodes(nodes, n.parent))
        /\ \A m, n \in nodes : m.id = n.id \/ (m.parent = n.parent /\ m.move = n.move) => m = n
        /\ Batched => MovesToBranch(nodes, turn.active) = turn.scratch

\* A turn that ends with a move submits a legal move of the canonical
\* position; players 2 and 3 have it on a base branch, with a reply tested or
\* the game over, in the tree that was committed, and player 1 has gone
\* through both of its reports.
DecisionIsVerified ==
    outcome = "moved" =>
        /\ RequireLegalSan(<<>>, turn.decision)
        /\ Batched => \E n \in turn.nodes :
                         /\ n.id = turn.branch /\ n.parent = Root /\ n.move = turn.decision
                         /\ n.terminal \/ ChildNodes(turn.nodes, n.id) # {}
        /\ harness = "one" => turn.reports = {"defense", "attack"}

\* The rows can be replayed: running the accepted calls of the completed rows
\* in their recorded order from the canonical position gives the board the
\* player has, and in a row that failed every call that ran is marked as
\* refused or rolled back, unless the turn was interrupted while it ran.  A
\* completed row has both snapshots of its exchange.
TraceReplays ==
    Recording =>
        /\ row.number = 0 \/ row.finished => replayed = Board(turn)
        /\ (row.status = "failed" /\ row.finished /\ outcome # "interrupted") =>
              \A i \in DOMAIN row.calls :
                 row.calls[i].executed => row.calls[i].error \/ row.calls[i].rolledBack
        /\ row.status = "completed" => row.exchange = "answered"

\* When player 3 asks the model again, every function call of the history it
\* replays has one output after it, and every output one call before it.
HistoryIsAnswered ==
    pc = "waiting" =>
        LET places(type, id) == {k \in DOMAIN turn.history : turn.history[k] = [type |-> type, id |-> id]}
        IN  \A k \in DOMAIN turn.history :
               LET id == turn.history[k].id
               IN  \E c, o \in DOMAIN turn.history :
                      /\ c < o
                      /\ places("function_call", id) = {c}
                      /\ places("function_call_output", id) = {o}

\* No turn runs into the recursion limit of its graph: the budgets end it.
LimitNeverReached == outcome # "recursion"

\* A row that has been closed is never closed or opened again, neither by the
\* runner that fails it late nor by the thread an interruption left behind.
ClosedPassStaysClosed ==
    [][row.finished => \/ row'.number = row.number + 1
                       \/ /\ row'.number = row.number
                          /\ row'.finished /\ row'.status = row.status]_vars
=============================================================================
