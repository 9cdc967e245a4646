----------------------------- MODULE ChessTools -----------------------------
(***************************************************************************)
(* The tools of agent player 3 (harness/agent_player3/tools.py): what a    *)
(* batch may hold and what each call makes of the scratch board and its    *)
(* tree.  A call is [tool, move, branch]; a tool returns a copied board    *)
(* with "ok", or the caller's board with "rejected" or "raised".           *)
(***************************************************************************)
EXTENDS TurnShape

Tools == {"play", "undo", "reset", "annotate", "inspect", "peek", "submit_move"}
Mutating == {"play", "undo", "reset", "submit_move"}
Inspecting == {"inspect", "peek"}

Call(tool, move, branch) == [tool |-> tool, move |-> move, branch |-> branch]

Result(verdict, board) == [verdict |-> verdict, board |-> board]

ValidateArguments(call) == call.tool \in Tools

\* validate_tool_batch: at most one board change, no inspection beside one,
\* and no branch annotated twice.
ValidateToolBatch(calls) ==
    LET at(tools) == {i \in DOMAIN calls : calls[i].tool \in tools}
    IN  /\ Cardinality(at(Mutating)) <= 1
        /\ at(Mutating) = {} \/ at(Inspecting) = {}
        /\ \A i, j \in at({"annotate"}) : calls[i].branch = calls[j].branch => i = j

SubmitMove(call, board) ==
    LET found == FindNode(board.nodes, call.branch)
        fine  == /\ RequireLegalSan(<<>>, call.move)
                 /\ found # {}
                 /\ The(found).parent = Root
                 /\ The(found).move = call.move
                 /\ BaseVerificationDone(board.nodes, call.branch)
    IN  Result(IF fine THEN "ok" ELSE "rejected", board)

PlayMove(call, board) ==
    LET active == FindNode(board.nodes, board.active)
        legal  == /\ Len(board.scratch) < MaxScratch
                  /\ active = {} \/ ~The(active).terminal
                  /\ RequireLegalSan(board.scratch, call.move)
        move   == Spelling[call.move]
        line   == Append(board.scratch, move)
        child  == FindChild(board.nodes, board.active, move)
        branch == IF child # {} THEN The(child)
                  ELSE [id |-> NextBranchId(board.nodes, board.active),
                        parent |-> board.active, ply |-> Len(line), move |-> move,
                        fen |-> line, terminal |-> line \in Over, note |-> FALSE]
        nodes  == board.nodes \cup {branch}
    IN  IF ~legal THEN Result("rejected", board)
        ELSE IF branch.fen # line THEN Result("raised", board)
        ELSE Result("ok", [nodes |-> nodes, active |-> branch.id,
                           scratch |-> MovesToBranch(nodes, branch.id)])

UndoMove(board) ==
    LET active == FindNode(board.nodes, board.active)
        up     == IF active = {} THEN Root ELSE The(active).parent
    IN  Result("ok", [board EXCEPT !.active = up,
                                   !.scratch = MovesToBranch(board.nodes, up)])

ResetBoard(board) == Result("ok", [board EXCEPT !.active = Root, !.scratch = <<>>])

AnnotateBranch(call, board) ==
    LET found == FindNode(board.nodes, call.branch)
    IN  IF found = {} THEN Result("rejected", board)
        ELSE Result("ok", [board EXCEPT !.nodes =
                 (@ \ found) \cup {[n EXCEPT !.note = TRUE] : n \in found}])

\* "peek" is an inspection of something that is not a square of a board.
InspectSquare(call, board) ==
    Result(IF call.tool = "inspect" THEN "ok" ELSE "rejected", board)

\* The scratch board must be what the tree says of the active branch, and its
\* moves must still be playable.
ExecuteTool(call, board) ==
    IF \/ LineageRaises(board.nodes, board.active)
       \/ MovesToBranch(board.nodes, board.active) # board.scratch
       \/ board.scratch \notin Plays
    THEN Result("raised", board)
    ELSE CASE call.tool = "submit_move" -> SubmitMove(call, board)
           [] call.tool = "play"        -> PlayMove(call, board)
           [] call.tool = "undo"        -> UndoMove(board)
           [] call.tool = "reset"       -> ResetBoard(board)
           [] call.tool = "annotate"    -> AnnotateBranch(call, board)
           [] OTHER                     -> InspectSquare(call, board)

\* The order of a batch: annotations first, otherwise as the model wrote it.
\* A call stands behind those that go before it.
BatchOrder(calls) ==
    LET note(i)   == calls[i].tool = "annotate"
        before(i) == {j \in DOMAIN calls : IF note(i) = note(j) THEN j < i ELSE note(j)}
        at(k)     == CHOOSE i \in DOMAIN calls : Cardinality(before(i)) = k - 1
    IN  [k \in DOMAIN calls |-> [index |-> at(k), call |-> calls[at(k)]]]
=============================================================================
