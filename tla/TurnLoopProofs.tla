--------------------------- MODULE TurnLoopProofs ---------------------------
(***************************************************************************)
(* Proofs about TurnLoop, for every game, every player and host, all       *)
(* budgets, and whatever the model answers.                                *)
(***************************************************************************)
EXTENDS TurnLoop, ChessToolsProofs, FiniteSetTheorems, SequenceTheorems, TLAPS

----------------------------------------------------------------------------
(* What the nodes of the players do to the counters of a turn.             *)

TurnFields == {"phase", "next", "scratch", "nodes", "active", "pending", "callId", "history",
               "forced", "forcedRetries", "modelCalls", "toolCalls", "rejected", "errors",
               "reports", "decision", "branch"}

Phases == {"defense", "attack", "synthesis", "decide"}

IsTurn(t) ==
    /\ DOMAIN t = TurnFields
    /\ t.phase \in Phases
    /\ t.modelCalls \in 0 .. MaxModelCalls

\* The supersteps that the phases before this one, and the passes of this one,
\* may have taken.
Spent(t) ==
    2 * t.modelCalls + (IF harness # "one" \/ t.phase \in {"defense", "decide"} THEN 0
                        ELSE IF t.phase = "attack" THEN 2 * MaxModelCalls
                        ELSE 4 * MaxModelCalls)

\* A pass counts itself.
Counts(t, passed) ==
    /\ IsTurn(passed.turn)
    /\ passed.turn.phase = t.phase
    /\ passed.turn.modelCalls = t.modelCalls + 1
    /\ passed.tag \in {"raised", "goes", "submits"}

\* The end of a batch never takes a pass back, and leads to no tool node.
Settles(t, passed) ==
    /\ IsTurn(passed.turn)
    /\ Spent(passed.turn) >= Spent(t)
    /\ passed.turn.next \notin ToolNodes

LEMMA PassThree ==
    ASSUME NEW t, IsTurn(t), Three!MayAsk(t), NEW answer
    PROVE  Counts(t, Three!ModelPass(t, answer))
<1> QED BY BudgetAssumption
    DEF IsTurn, TurnFields, Counts, Three!MayAsk, Three!ModelPass, Three!Retry,
        Three!Raised, Three!Goes, Three!Retries, Three!Submits

LEMMA PassTwo ==
    ASSUME NEW t, IsTurn(t), Two!MayAsk(t), NEW answer
    PROVE  Counts(t, Two!ModelPass(t, answer))
<1> QED BY BudgetAssumption
    DEF IsTurn, TurnFields, Counts, Two!MayAsk, Two!ModelPass, Two!Retry,
        Two!Raised, Two!Goes, Two!Retries, Two!Submits

LEMMA PassOne ==
    ASSUME NEW t, IsTurn(t), One!MayAsk(t), NEW answer
    PROVE  Counts(t, One!ModelPass(t, answer))
<1> QED BY BudgetAssumption
    DEF IsTurn, TurnFields, Counts, One!MayAsk, One!ModelPass, One!Retry,
        One!Raised, One!Goes, One!Retries, One!Submits

LEMMA PassBase ==
    ASSUME NEW t, IsTurn(t), Base!MayAsk(t), NEW answer
    PROVE  Counts(t, Base!Decide(t, answer))
<1> QED BY BudgetAssumption
    DEF IsTurn, TurnFields, Counts, Base!MayAsk, Base!Decide,
        Base!Raised, Base!Goes, Base!Retries

LEMMA PassCounts ==
    ASSUME IsTurn(turn), MayAsk, NEW answer
    PROVE  Counts(turn, ModelPass(answer))
<1> QED BY PassThree, PassTwo, PassOne, PassBase DEF MayAsk, ModelPass

\* The turn after a batch, in the same phase.
Same(t, u) ==
    /\ IsTurn(u) /\ u.phase = t.phase /\ u.modelCalls = t.modelCalls
    /\ u.next \notin ToolNodes

LEMMA SameSettles ==
    ASSUME NEW t, NEW u, IsTurn(t), Same(t, u)
    PROVE  Spent(u) = Spent(t) /\ Spent(t) \in Int
<1> QED BY BudgetAssumption DEF Same, Spent, IsTurn

LEMMA RejectThree ==
    ASSUME NEW t, IsTurn(t), Three!RejectBatch(t).tag # "raised"
    PROVE  Same(t, Three!RejectBatch(t).turn)
<1> QED BY BudgetAssumption
    DEF Same, IsTurn, TurnFields, Phases, ToolNodes, Three!RejectBatch, Three!CompleteStep, Three!Raised, Three!Goes

LEMMA RejectTwo ==
    ASSUME NEW t, IsTurn(t), Two!RejectBatch(t).tag # "raised"
    PROVE  Same(t, Two!RejectBatch(t).turn)
<1> QED BY BudgetAssumption
    DEF Same, IsTurn, TurnFields, Phases, ToolNodes, Two!RejectBatch, Two!Raised, Two!Goes

LEMMA RejectOne ==
    ASSUME NEW t, IsTurn(t), One!RejectCall(t).tag # "raised"
    PROVE  Same(t, One!RejectCall(t).turn)
<1> QED BY BudgetAssumption
    DEF Same, IsTurn, TurnFields, Phases, ToolNodes, One!RejectCall, One!Raised, One!Goes

LEMMA RejectBase ==
    ASSUME NEW t, IsTurn(t), Base!RejectMove(t).tag # "raised"
    PROVE  Same(t, Base!RejectMove(t).turn)
<1> QED BY BudgetAssumption
    DEF Same, IsTurn, TurnFields, Phases, ToolNodes, Base!RejectMove, Base!Raised, Base!Goes

LEMMA CommitThree ==
    ASSUME NEW t, IsTurn(t), NEW b, NEW d, NEW br
    PROVE  Same(t, Three!CommitBatch(t, b, d, br).turn)
<1> QED BY BudgetAssumption
    DEF Same, IsTurn, TurnFields, Phases, ToolNodes, Three!CommitBatch, Three!CompleteStep, Three!Goes

LEMMA CommitTwo ==
    ASSUME NEW t, IsTurn(t), NEW b, NEW d, NEW br
    PROVE  Same(t, Two!CommitBatch(t, b, d, br).turn)
<1> QED BY BudgetAssumption
    DEF Same, IsTurn, TurnFields, Phases, ToolNodes, Two!CommitBatch, Two!Goes

LEMMA CommitBase ==
    ASSUME NEW t, IsTurn(t), NEW d
    PROVE  Same(t, Base!AcceptMove(t, d).turn)
<1> QED BY BudgetAssumption
    DEF Same, IsTurn, TurnFields, Phases, ToolNodes, Base!AcceptMove, Base!Goes

\* A report opens the next phase, whose passes are still to come.
LEMMA CommitOne ==
    ASSUME NEW t, IsTurn(t), NEW b, NEW d, harness = "one"
    PROVE  Settles(t, One!CommitCall(t, b, d))
<1> DEFINE u == One!CommitCall(t, b, d).turn
           later == IF t.phase = "defense" THEN "attack" ELSE "synthesis"
<1> USE BudgetAssumption DEF IsTurn, TurnFields, Phases, ToolNodes
<1>1. CASE t.pending[1].tool # One!TerminalTool(t.phase) \/ t.phase = "synthesis"
  <2>1. Same(t, u)
    BY <1>1 DEF Same, One!CommitCall, One!Goes
  <2> HIDE DEF u
  <2>2. Spent(u) = Spent(t) /\ Spent(t) \in Int
    BY <2>1, SameSettles
  <2>3. IsTurn(u) /\ u.next \notin ToolNodes
    BY <2>1 DEF Same
  <2> QED BY <2>2, <2>3 DEF Settles, u
<1>2. CASE t.pending[1].tool = One!TerminalTool(t.phase) /\ t.phase # "synthesis"
  <2>1. u = [One!PhaseState(later) EXCEPT !.reports = t.reports \cup {t.phase}]
    BY <1>2 DEF One!CommitCall, One!Goes
  <2>2. /\ DOMAIN u = TurnFields /\ u.phase = later /\ u.next = later /\ u.modelCalls = 0
    BY <2>1 DEF One!PhaseState
  <2> HIDE DEF u
  <2>3. t.modelCalls \in Int /\ t.modelCalls <= MaxModelCalls
    OBVIOUS
  <2>4. Spent(u) >= Spent(t)
    BY <1>2, <2>2, <2>3 DEF Spent
  <2>5. IsTurn(u) /\ u.next \notin ToolNodes
    BY <2>2
  <2> QED BY <2>4, <2>5 DEF Settles, u
<1> QED BY <1>1, <1>2

LEMMA SettlesIf ==
    ASSUME NEW t, NEW p, IsTurn(t), Same(t, p.turn)
    PROVE  Settles(t, p)
<1>1. Spent(p.turn) = Spent(t) /\ Spent(t) \in Int
  BY SameSettles
<1> QED BY <1>1 DEF Settles, Same

LEMMA RejectSettles ==
    ASSUME IsTurn(work.turn), Reject.tag # "raised"
    PROVE  Settles(work.turn, Reject)
<1>1. Same(work.turn, Reject.turn)
  BY RejectThree, RejectTwo, RejectOne, RejectBase DEF Reject
<1> QED BY <1>1, SettlesIf

LEMMA CommitSettles ==
    ASSUME IsTurn(work.turn)
    PROVE  Settles(work.turn, Commit)
<1>1. CASE harness = "one"
  BY <1>1, CommitOne DEF Commit
<1>2. CASE harness # "one"
  <2>1. Same(work.turn, Commit.turn)
    BY <1>2, CommitThree, CommitTwo, CommitBase DEF Commit
  <2> QED BY <2>1, SettlesIf
<1> QED BY <1>1, <1>2

----------------------------------------------------------------------------
(* The graphs.                                                             *)

LEMMA TwoOrMore ==
    ASSUME NEW S, IsFiniteSet(S), NEW x \in S, NEW y \in S, x # y
    PROVE  Cardinality(S) # 1
<1> QED BY FS_Singleton

LEMMA ThreeElements ==
    ASSUME NEW x, NEW y, NEW z
    PROVE  IsFiniteSet({x, y, z}) /\ IsFiniteSet({x, y})
<1>1. IsFiniteSet({}) /\ IsFiniteSet({x}) /\ IsFiniteSet({x} \cup {y})
  BY FS_EmptySet, FS_Singleton, FS_AddElement
<1>2. {x} \cup {y} = {x, y} /\ {x, y} \cup {z} = {x, y, z}
  OBVIOUS
<1> QED BY <1>1, <1>2, FS_AddElement

\* A phase chooses among its edges, a tool node leads back to phases.
LEMMA Graphs ==
    ASSUME NEW n \in DOMAIN Edges
    PROVE  /\ n # "end"
           /\ n \in ToolNodes => Edges[n] \cap ToolNodes = {}
           /\ n \notin ToolNodes => Cardinality(Edges[n]) # 1
           /\ Edges[n] \subseteq DOMAIN Edges \cup {"end"}
<1>1. CASE harness \in {"two", "three"}
  <2>1. /\ DOMAIN Edges = {"synthesis", "synthesis_tools"}
        /\ Edges["synthesis"] = {"synthesis", "synthesis_tools", "end"}
        /\ Edges["synthesis_tools"] = {"synthesis"}
    BY <1>1 DEF Edges, Two!Edges, Three!Edges
  <2>2. Cardinality(Edges["synthesis"]) # 1
    BY <2>1, TwoOrMore, ThreeElements
  <2> QED BY <2>1, <2>2 DEF ToolNodes
<1>2. CASE harness = "one"
  <2>1. /\ DOMAIN Edges = {"defense", "defense_tools", "attack", "attack_tools",
                           "synthesis", "synthesis_tools"}
        /\ Edges["defense"] = {"defense", "defense_tools", "attack"}
        /\ Edges["defense_tools"] = {"defense"}
        /\ Edges["attack"] = {"attack", "attack_tools", "synthesis"}
        /\ Edges["attack_tools"] = {"attack"}
        /\ Edges["synthesis"] = {"synthesis", "synthesis_tools", "end"}
        /\ Edges["synthesis_tools"] = {"synthesis"}
    BY <1>2 DEF Edges, One!Edges
  <2>2. /\ Cardinality(Edges["synthesis"]) # 1
        /\ Cardinality(Edges["attack"]) # 1
        /\ Cardinality(Edges["defense"]) # 1
    BY <2>1, TwoOrMore, ThreeElements
  <2> QED BY <2>1, <2>2 DEF ToolNodes
<1>3. CASE harness \notin {"one", "two", "three"}
  <2>1. /\ DOMAIN Edges = {"decide", "validate_submission"}
        /\ Edges["decide"] = {"decide", "validate_submission"}
        /\ Edges["validate_submission"] = {"decide", "end"}
    BY <1>3 DEF Edges, Base!Edges
  <2>2. Cardinality(Edges["decide"]) # 1
    BY <2>1, TwoOrMore, ThreeElements
  <2> QED BY <2>1, <2>2 DEF ToolNodes
<1> QED BY <1>1, <1>2, <1>3

\* Where a node that returned leads.
LEMMA ReturnLeads ==
    ASSUME node \in DOMAIN Edges, NEW after, Returns(node, after)
    PROVE  /\ pc' \in {"node", "done"} /\ outcome' \in {outcome, "broken"} /\ work' = NoWork
           /\ outcome = "interrupted" => pc' = "done" /\ UNCHANGED turn
           /\ turn' \in {turn, after}
           /\ pc' = "node" => /\ turn' = after
                              /\ node' \in DOMAIN Edges \cup {"end"}
                              /\ node' \in ToolNodes => node' = after.next /\ node \notin ToolNodes
                              /\ node \notin ToolNodes => node' = after.next
<1>1. CASE outcome = "interrupted"
  BY <1>1 DEF Returns
<1>2. CASE outcome # "interrupted"
  <2> DEFINE only == CHOOSE n \in Edges[node] : TRUE
             to   == IF Cardinality(Edges[node]) = 1 THEN only ELSE after.next
  <2>1. /\ turn' = after /\ node' = to /\ work' = NoWork
        /\ IF to \in Edges[node] THEN pc' = "node" /\ UNCHANGED outcome
                                 ELSE pc' = "done" /\ outcome' = "broken"
    BY <1>2 DEF Returns
  <2>2. node \notin ToolNodes => to = after.next
    BY Graphs
  <2> HIDE DEF to
  <2> QED BY <1>2, <2>1, <2>2, Graphs
<1> QED BY <1>1, <1>2

----------------------------------------------------------------------------
(* What the recorder does to the row of a pass.                            *)

IsRow(r) ==
    /\ DOMAIN r = {"number", "phase", "status", "finished", "calls", "exchange"}
    /\ r.number \in Nat
    /\ r.finished \in BOOLEAN

\* A call, a response or a snapshot leaves the state of the row alone.
Notes(r, s) ==
    IsRow(s) /\ s.number = r.number /\ s.finished = r.finished /\ s.status = r.status

LEMMA NoteCalls ==
    ASSUME NEW r, IsRow(r), NEW calls, NEW call, NEW i, NEW b
    PROVE  /\ Notes(r, r)
           /\ Notes(r, CaptureInput(r)) /\ Notes(r, CaptureOutput(r))
           /\ Notes(r, Listed(r, calls))
           /\ Notes(r, ToolStarted(r, call)) /\ Notes(r, ToolFinished(r, i, b))
<1>1. Notes(r, r) /\ Notes(r, CaptureInput(r)) /\ Notes(r, CaptureOutput(r))
  BY DEF IsRow, Notes, CaptureInput, CaptureOutput
<1>2. Notes(r, Listed(r, calls))
  BY DEF IsRow, Notes, Listed
<1>3. Notes(r, ToolStarted(r, call))
  BY DEF IsRow, Notes, ToolStarted
<1>4. Notes(r, ToolFinished(r, i, b))
  BY DEF IsRow, Notes, ToolFinished
<1> QED BY <1>1, <1>2, <1>3, <1>4

LEMMA NoteTwice ==
    ASSUME NEW r, NEW s, NEW t, Notes(r, s), Notes(s, t)
    PROVE  Notes(r, t)
<1> QED BY DEF Notes

LEMMA BeginOpens ==
    ASSUME NEW r, IsRow(r), NEW phase
    PROVE  /\ IsRow(Begin(r, phase)) /\ ~Begin(r, phase).finished
           /\ Begin(r, phase).number = r.number + 1
<1> QED BY DEF IsRow, Begin

LEMMA FailCloses ==
    ASSUME NEW r, IsRow(r), NEW rollback
    PROVE  /\ IsRow(Fail(r, rollback)) /\ Fail(r, rollback).number = r.number
           /\ r.number = 0 \/ r.finished => Fail(r, rollback) = r
           /\ r.number # 0 => Fail(r, rollback).finished
           /\ r.number # 0 /\ ~r.finished => Fail(r, rollback).status = "failed"
<1> QED BY DEF IsRow, Fail

LEMMA SaveCloses ==
    ASSUME NEW r, IsRow(r), NEW retried, NEW undone, NEW failing, NEW pending \in BOOLEAN
    PROVE  LET s == StateSaved(r, retried, undone, failing, pending)
           IN  /\ IsRow(s) /\ s.number = r.number
               /\ r.number = 0 => s = r
               /\ r.finished => s.finished
               /\ r.finished /\ r.status = "failed" => s.status = "failed"
               /\ pending /\ ~r.finished => ~s.finished
<1> QED BY DEF IsRow, StateSaved

----------------------------------------------------------------------------
(* The invariant.                                                          *)

\* The supersteps taken are paid for by passes.
LoopOK ==
    /\ IsTurn(turn)
    /\ pc \in {"node", "waiting", "batch", "done"}
    /\ outcome # "recursion"
    /\ steps \in Nat
    /\ pc = "node" => /\ node \in DOMAIN Edges \cup {"end"}
                      /\ steps <= Spent(turn)
                      /\ node \in ToolNodes => steps < Spent(turn)
    /\ pc = "waiting" => /\ node \in DOMAIN Edges \ ToolNodes
                         /\ MayAsk
                         /\ steps <= Spent(turn) + 1
    /\ pc = "batch" => /\ node \in DOMAIN Edges
                       /\ IsTurn(work.turn)
                       /\ steps <= Spent(work.turn)

\* Only an interruption closes a row that calls are still written to.
RecordOK ==
    /\ IsRow(row)
    /\ row.number = 0 \/ ~Recording => ~row.finished
    /\ pc = "waiting" => ~row.finished
    /\ pc = "node" /\ node \in ToolNodes /\ turn.pending # <<>> => ~row.finished
    /\ pc = "batch" /\ row.finished => row.status = "failed"

\* One step of ClosedPassStaysClosed.
StaysClosed ==
    row.finished => \/ row'.number = row.number + 1
                    \/ row'.number = row.number /\ row'.finished /\ row'.status = row.status

Kept == LoopOK' /\ RecordOK' /\ StaysClosed

LEMMA Room ==
    ASSUME NEW t, IsTurn(t)
    PROVE  Spent(t) \in Nat /\ Spent(t) + 1 < RecursionLimit /\ RecursionLimit \in Nat
<1>1. t.modelCalls \in Nat /\ t.modelCalls <= MaxModelCalls /\ MaxModelCalls \in Nat
  BY BudgetAssumption DEF IsTurn
<1>2. RecursionLimit = IF harness \in {"two", "three"} THEN 2 * MaxModelCalls + 4
                       ELSE IF harness = "one" THEN 6 * MaxModelCalls + 10
                       ELSE 2 * MaxModelCalls + 10
  BY DEF RecursionLimit, Two!RecursionLimit, Three!RecursionLimit, One!RecursionLimit,
         Base!RecursionLimit
<1> QED BY <1>1, <1>2 DEF Spent

LEMMA AbortKeeps ==
    ASSUME LoopOK, RecordOK, NEW reason, reason # "recursion", NEW after, Notes(row, after),
           NEW rollback, Aborts(reason, after, rollback), steps' \in Nat, UNCHANGED <<harness, host>>
    PROVE  Kept
<1>1. LoopOK'
  BY DEF LoopOK, Aborts, IsTurn
<1>2. RecordOK' /\ StaysClosed
  <2>1. IsRow(after)
    BY DEF Notes
  <2>2. CASE Recording
    <3>1. row' = Fail(after, rollback) /\ pc' = "done"
      BY <2>2 DEF Aborts, Saves
    <3> QED BY <2>1, <2>2, <3>1, FailCloses DEF RecordOK, StaysClosed, Notes, Recording
  <2>3. CASE ~Recording
    BY <2>3 DEF Aborts, Saves, RecordOK, StaysClosed, Recording
  <2> QED BY <2>2, <2>3
<1> QED BY <1>1, <1>2 DEF Kept

\* A node that returned into a phase, or into tools that are still to run.
LEMMA ReturnKeeps ==
    ASSUME LoopOK, node \in DOMAIN Edges, UNCHANGED <<harness, host, steps>>,
           NEW after, IsTurn(after), Returns(node, after),
           after.next \in ToolNodes => steps < Spent(after), steps <= Spent(after)
    PROVE  LoopOK'
<1>1. IsTurn(turn') /\ (pc' = "node" => turn' = after)
  BY ReturnLeads DEF LoopOK
<1>2. Edges' = Edges
  BY DEF Edges
<1>3. pc' = "node" => Spent(turn)' = Spent(after)
  BY <1>1 DEF Spent
<1>4. pc' = "node" => /\ node' \in DOMAIN Edges' \cup {"end"}
                      /\ steps' <= Spent(turn)'
                      /\ node' \in ToolNodes => steps' < Spent(turn)'
  BY <1>1, <1>2, <1>3, ReturnLeads
<1> QED BY <1>1, <1>2, <1>4, ReturnLeads DEF LoopOK, IsTurn

----------------------------------------------------------------------------
(* The steps.                                                              *)

LEMMA RequestKeeps ==
    ASSUME LoopOK, RecordOK, RequestPass
    PROVE  Kept
<1>1. /\ pc = "node" /\ node \in DOMAIN Edges \ ToolNodes /\ steps <= Spent(turn)
      /\ UNCHANGED <<harness, host, cancelled>>
  BY DEF RequestPass, LoopOK, ToolNodes
<1>2. ~OutOfSteps /\ steps' = steps + 1 /\ steps' \in Nat
  BY <1>1, Room DEF RequestPass, OutOfSteps, Superstep, LoopOK
<1>3. Notes(row, row)
  BY NoteCalls DEF RecordOK
<1>4. CASE cancelled \/ ~MayAsk \/ PromptRaises
  <2>1. \E reason \in {"cancelled", "failed", "broken"} : Aborts(reason, row, FALSE)
    BY <1>2, <1>4 DEF RequestPass
  <2> QED BY <1>1, <1>2, <1>3, <2>1, AbortKeeps
<1>5. CASE ~cancelled /\ MayAsk /\ ~PromptRaises
  <2>1. /\ pc' = "waiting" /\ UNCHANGED <<node, turn, work, outcome>>
        /\ Saves(Recorded(CaptureInput(Begin(row, turn.phase))))
    BY <1>2, <1>5 DEF RequestPass
  <2>2. MayAsk' /\ Spent(turn)' = Spent(turn) /\ Edges' = Edges /\ Recording' = Recording
    BY <1>1, <1>5, <2>1 DEF MayAsk, Spent, Edges, Recording
  <2>3. LoopOK'
    BY <1>1, <1>2, <2>1, <2>2, Room DEF LoopOK, IsTurn
  <2>4. CASE Recording
    <3>1. row' = CaptureInput(Begin(row, turn.phase))
      BY <2>1, <2>4 DEF Saves, Recorded
    <3>2. /\ IsRow(Begin(row, turn.phase)) /\ ~Begin(row, turn.phase).finished
          /\ Begin(row, turn.phase).number = row.number + 1
      BY BeginOpens DEF RecordOK
    <3>3. Notes(Begin(row, turn.phase), row')
      BY <3>1, <3>2, NoteCalls
    <3>4. IsRow(row') /\ ~row'.finished /\ row'.number = row.number + 1
      BY <3>2, <3>3 DEF Notes
    <3> QED BY <2>1, <2>2, <2>3, <2>4, <3>4 DEF Kept, RecordOK, StaysClosed, Recording
  <2>5. CASE ~Recording
    BY <2>1, <2>2, <2>3, <2>5 DEF Kept, RecordOK, StaysClosed, Saves, Recorded
  <2> QED BY <2>4, <2>5
<1> QED BY <1>4, <1>5

\* What ReceiveAnswer has noted before it looks at the answer.
LEMMA HeardNotes ==
    ASSUME RecordOK, NEW answer
    PROVE  Notes(row, Recorded(Listed(Exchanged(answer), answer.calls)))
<1>1. IsRow(row) /\ Notes(row, row) /\ Notes(row, CaptureOutput(row))
  BY NoteCalls DEF RecordOK
<1>2. Notes(row, Exchanged(answer))
  BY <1>1 DEF Exchanged
<1>3. Notes(Exchanged(answer), Listed(Exchanged(answer), answer.calls))
  BY <1>2, NoteCalls DEF Notes
<1> QED BY <1>1, <1>2, <1>3, NoteTwice DEF Recorded

LEMMA ReceiveKeeps ==
    ASSUME LoopOK, RecordOK, NEW answer, ReceiveAnswer(answer)
    PROVE  Kept
<1> DEFINE heard  == Recorded(Listed(Exchanged(answer), answer.calls))
           passed == ModelPass(answer)
<1>1. /\ pc = "waiting" /\ node \in DOMAIN Edges \ ToolNodes /\ ~row.finished
      /\ UNCHANGED <<harness, host, cancelled, steps>> /\ steps' \in Nat
      /\ steps <= Spent(turn) + 1
  BY DEF ReceiveAnswer, LoopOK, RecordOK
<1>2. Notes(row, heard)
  BY HeardNotes
<1>3. Counts(turn, passed)
  BY <1>1, PassCounts DEF LoopOK
<1>4. Spent(passed.turn) = Spent(turn) + 2 /\ Spent(turn) \in Nat
  <2>1. Spent(turn) \in Nat
    BY Room DEF LoopOK
  <2>2. turn.modelCalls \in Nat /\ MaxModelCalls \in Nat
    BY BudgetAssumption DEF LoopOK, IsTurn
  <2> QED BY <1>3, <2>1, <2>2 DEF Counts, Spent
<1>5. CASE \E reason \in {"cancelled", "failed"} : Aborts(reason, heard, FALSE)
  BY <1>1, <1>2, <1>5, AbortKeeps
<1>6. CASE /\ Returns(node, passed.turn)
           /\ Saves(Recorded(StateSaved(heard, passed.retried, {}, {},
                                        passed.turn.pending # <<>>)))
  <2>1. LoopOK'
    <3>1. IsTurn(passed.turn)
      BY <1>3 DEF Counts
    <3>2. steps < Spent(passed.turn) /\ steps <= Spent(passed.turn)
      BY <1>1, <1>4 DEF LoopOK
    <3> QED BY <1>1, <1>6, <3>1, <3>2, ReturnKeeps
  <2>2. /\ pc' \in {"node", "done"}
        /\ pc' = "node" => turn' = passed.turn
    BY <1>1, <1>6, ReturnLeads
  <2>3. Recording' = Recording
    BY <1>1 DEF Recording
  <2>4. CASE Recording
    <3> DEFINE pending == passed.turn.pending # <<>>
    <3>1. row' = StateSaved(heard, passed.retried, {}, {}, pending)
      BY <1>6, <2>4 DEF Saves, Recorded
    <3>2. IsRow(heard) /\ heard.number = row.number /\ heard.finished = row.finished
      BY <1>2 DEF Notes
    <3>3. pending \in BOOLEAN
      OBVIOUS
    <3> HIDE DEF pending, heard
    <3>4. /\ IsRow(row') /\ row'.number = row.number
          /\ heard.number = 0 => row' = heard
          /\ pending => ~row'.finished
      BY <1>1, <3>1, <3>2, <3>3, SaveCloses
    <3>5. pc' = "node" => (turn'.pending # <<>> <=> pending)
      BY <2>2 DEF pending
    <3> QED BY <1>1, <2>1, <2>2, <2>3, <2>4, <3>2, <3>4, <3>5
            DEF Kept, RecordOK, StaysClosed
  <2>5. CASE ~Recording
    BY <1>1, <1>6, <2>1, <2>2, <2>3, <2>5 DEF Kept, RecordOK, StaysClosed, Saves, Recorded
  <2> QED BY <2>4, <2>5
<1>7. CASE /\ pc' = "batch" /\ work' = StartWork(passed.turn, TRUE)
           /\ Saves(heard)
           /\ UNCHANGED <<node, turn, outcome>>
  <2>1. work'.turn = passed.turn
    BY <1>7 DEF StartWork
  <2>2. Edges' = Edges /\ Recording' = Recording
    BY <1>1 DEF Edges, Recording
  <2>3. LoopOK'
    <3>1. (Spent(work.turn))' = Spent(passed.turn)
      BY <1>1, <2>1 DEF Spent
    <3>2. IsTurn(work'.turn) /\ steps <= Spent(passed.turn)
      BY <1>1, <1>3, <1>4, <2>1 DEF Counts, LoopOK
    <3> QED BY <1>1, <1>7, <2>2, <3>1, <3>2 DEF LoopOK, IsTurn
  <2>4. row' = heard
    BY <1>7 DEF Saves
  <2> HIDE DEF heard
  <2> QED BY <1>1, <1>2, <1>7, <2>2, <2>3, <2>4 DEF Kept, RecordOK, StaysClosed, Notes
<1>8. <1>5!1 \/ <1>6!1 \/ <1>7!1
  BY <1>3 DEF ReceiveAnswer, Counts
<1> QED BY <1>5, <1>6, <1>7, <1>8

LEMMA RunKeeps ==
    ASSUME LoopOK, RecordOK, RunTools
    PROVE  Kept
<1>1. /\ pc = "node" /\ node \in DOMAIN Edges /\ node \in ToolNodes /\ steps < Spent(turn)
      /\ UNCHANGED <<harness, host, cancelled>>
  BY DEF RunTools, LoopOK, ToolNodes
<1>2. ~OutOfSteps /\ steps' = steps + 1 /\ steps' \in Nat /\ steps' <= Spent(turn)
  BY <1>1, Room DEF RunTools, OutOfSteps, Superstep, LoopOK
<1>3. Notes(row, row)
  BY NoteCalls DEF RecordOK
<1>4. CASE cancelled \/ turn.pending = <<>>
  <2>1. \E reason \in {"cancelled", "broken"} :
            Aborts(reason, row, Batched /\ turn.pending # <<>>)
    BY <1>2, <1>4 DEF RunTools
  <2> QED BY <1>1, <1>2, <1>3, <2>1, AbortKeeps
<1>5. CASE ~cancelled /\ turn.pending # <<>>
  <2>1. /\ pc' = "batch" /\ work' = StartWork(turn, FALSE)
        /\ UNCHANGED <<node, turn, outcome, row, replayed>>
    BY <1>2, <1>5 DEF RunTools
  <2>2. work'.turn = turn
    BY <2>1 DEF StartWork
  <2>3. Edges' = Edges /\ Recording' = Recording /\ (Spent(work.turn))' = Spent(turn)
    BY <1>1, <2>2 DEF Edges, Recording, Spent
  <2>4. LoopOK'
    BY <1>1, <1>2, <2>1, <2>2, <2>3 DEF LoopOK, IsTurn
  <2> QED BY <1>1, <1>5, <2>1, <2>3, <2>4 DEF Kept, RecordOK, StaysClosed
<1> QED BY <1>4, <1>5


\* A batch that ends, refused or accepted, closes its row.
LEMMA SettleKeeps ==
    ASSUME LoopOK, RecordOK, pc = "batch", UNCHANGED <<harness, host, steps>>,
           NEW passed, Settles(work.turn, passed), Returns(node, passed.turn),
           NEW seen, Notes(row, seen), NEW undone, NEW failing,
           Saves(Recorded(StateSaved(seen, FALSE, undone, failing, FALSE)))
    PROVE  Kept
<1>1. /\ node \in DOMAIN Edges /\ IsTurn(work.turn) /\ steps <= Spent(work.turn) /\ steps \in Nat
      /\ Recording' = Recording
  BY DEF LoopOK, Recording
<1>2. IsTurn(passed.turn) /\ steps <= Spent(passed.turn) /\ passed.turn.next \notin ToolNodes
  <2>1. Spent(work.turn) \in Nat /\ Spent(passed.turn) \in Nat
    BY <1>1, Room DEF Settles
  <2> QED BY <1>1, <2>1 DEF Settles
<1>3. LoopOK'
  BY <1>1, <1>2, ReturnKeeps
<1>4. pc' \in {"node", "done"} /\ (pc' = "node" => node' \notin ToolNodes)
  BY <1>1, <1>2, ReturnLeads
<1>5. CASE Recording
  <2>1. row' = StateSaved(seen, FALSE, undone, failing, FALSE)
    BY <1>5 DEF Saves, Recorded
  <2>2. /\ IsRow(seen) /\ seen.number = row.number /\ seen.finished = row.finished
        /\ seen.status = row.status
    BY DEF Notes
  <2>3. /\ IsRow(row') /\ row'.number = row.number
        /\ seen.number = 0 => row' = seen
        /\ seen.finished => row'.finished
        /\ seen.finished /\ seen.status = "failed" => row'.status = "failed"
    BY <2>1, <2>2, SaveCloses
  <2> QED BY <1>1, <1>3, <1>4, <1>5, <2>2, <2>3 DEF Kept, RecordOK, StaysClosed
<1>6. CASE ~Recording
  BY <1>1, <1>3, <1>4, <1>6 DEF Kept, RecordOK, StaysClosed, Saves, Recorded
<1> QED BY <1>5, <1>6

LEMMA CallKeeps ==
    ASSUME LoopOK, RecordOK, CallTool
    PROVE  Kept
<1> DEFINE item   == Head(work.left)
           result == Execute(item.call, work.board)
           seen   == Recorded(ToolFinished(ToolStarted(row, item.call), Sought(row, item.call),
                                           result.verdict # "ok"))
<1>1. /\ pc = "batch" /\ UNCHANGED <<harness, host, cancelled, steps>> /\ steps' \in Nat
      /\ IsTurn(work.turn)
  BY DEF CallTool, LoopOK
<1>2. Notes(row, seen)
  <2>1. Notes(row, row) /\ Notes(row, ToolStarted(row, item.call))
    BY NoteCalls DEF RecordOK
  <2>2. Notes(ToolStarted(row, item.call),
              ToolFinished(ToolStarted(row, item.call), Sought(row, item.call),
                           result.verdict # "ok"))
    <3>1. IsRow(ToolStarted(row, item.call))
      BY <2>1 DEF Notes
    <3> QED BY <3>1, NoteCalls
  <2> QED BY <2>1, <2>2, NoteTwice DEF Recorded
<1>3. CASE \E reason \in {"broken", "failed", "cancelled"} : Aborts(reason, seen, Batched)
  <2> HIDE DEF seen
  <2> QED BY <1>1, <1>2, <1>3, AbortKeeps
<1>4. CASE /\ Reject.tag # "raised"
           /\ Returns(node, Reject.turn)
           /\ Saves(Recorded(StateSaved(seen, FALSE, work.ran, Failing(item.index), FALSE)))
  <2>1. Settles(work.turn, Reject)
    BY <1>1, <1>4, RejectSettles
  <2> HIDE DEF seen, item
  <2> QED BY <1>1, <1>2, <1>4, <2>1, SettleKeeps
<1>5. CASE /\ work'.turn = work.turn
           /\ Saves(seen)
           /\ UNCHANGED <<pc, node, turn, outcome>>
  <2>1. Edges' = Edges /\ Recording' = Recording /\ (Spent(work.turn))' = Spent(work.turn)
    BY <1>1, <1>5 DEF Edges, Recording, Spent
  <2>2. LoopOK'
    BY <1>1, <1>5, <2>1 DEF LoopOK, IsTurn
  <2>3. row' = seen
    BY <1>5 DEF Saves
  <2> HIDE DEF seen
  <2> QED BY <1>1, <1>2, <1>5, <2>1, <2>2, <2>3 DEF Kept, RecordOK, StaysClosed, Notes
<1>6. CASE result.verdict = "raised"
  <2>1. Aborts("broken", seen, Batched)
    BY <1>6 DEF CallTool
  <2> QED BY <1>3, <2>1
<1>7. CASE result.verdict = "rejected"
  <2>1. CASE Reject.tag = "raised"
    <3>1. Aborts("failed", seen, Batched)
      BY <1>7, <2>1 DEF CallTool
    <3> QED BY <1>3, <3>1
  <2>2. CASE Reject.tag # "raised"
    <3>1. <1>4!1
      BY <1>7, <2>2 DEF CallTool
    <3> QED BY <1>4, <3>1
  <2> QED BY <2>1, <2>2
<1>8. CASE result.verdict = "ok" /\ cancelled
  <2>1. Aborts("cancelled", seen, Batched)
    BY <1>8 DEF CallTool
  <2> QED BY <1>3, <2>1
<1>9. CASE result.verdict \notin {"raised", "rejected"} /\ ~(result.verdict = "ok" /\ cancelled)
  <2> DEFINE submit == item.call.tool = "submit_move"
  <2>1. /\ work' = [work EXCEPT !.left = Tail(@), !.ran = @ \cup {item.index},
                                !.board = result.board,
                                !.decision = IF submit THEN item.call.move ELSE @,
                                !.branch = IF submit THEN item.call.branch ELSE @]
        /\ Saves(seen)
        /\ UNCHANGED <<pc, node, turn, outcome>>
    BY <1>9 DEF CallTool
  <2> HIDE DEF seen, result, item, submit
  <2>2. work'.turn = work.turn
    BY <2>1
  <2> QED BY <1>5, <2>1, <2>2
<1> QED BY <1>6, <1>7, <1>8, <1>9

LEMMA FinishKeeps ==
    ASSUME LoopOK, RecordOK, FinishBatch
    PROVE  Kept
<1>1. /\ pc = "batch" /\ IsTurn(work.turn) /\ UNCHANGED <<harness, host, steps>>
      /\ Returns(node, Commit.turn)
      /\ Saves(Recorded(StateSaved(row, FALSE, {}, {}, FALSE)))
  BY DEF FinishBatch, LoopOK
<1>2. Settles(work.turn, Commit) /\ Notes(row, row)
  BY <1>1, CommitSettles, NoteCalls DEF RecordOK
<1> QED BY <1>1, <1>2, SettleKeeps

LEMMA EndKeeps ==
    ASSUME LoopOK, RecordOK, EndTurn
    PROVE  Kept
<1>1. UNCHANGED <<harness, host, cancelled, steps>> /\ steps' \in Nat /\ Notes(row, row)
  BY NoteCalls DEF EndTurn, LoopOK, RecordOK
<1>2. CASE Aborts("failed", row, FALSE)
  BY <1>1, <1>2, AbortKeeps
<1>3. CASE pc' = "done" /\ outcome' = "moved" /\ UNCHANGED <<node, turn, work, row, replayed>>
  BY <1>1, <1>3 DEF Kept, LoopOK, RecordOK, StaysClosed, IsTurn, Recording
<1> QED BY <1>2, <1>3 DEF EndTurn

LEMMA InterruptKeeps ==
    ASSUME LoopOK, RecordOK, Interrupt
    PROVE  Kept
<1>1. /\ UNCHANGED <<harness, host, node, turn, work, cancelled, steps>>
      /\ outcome' = "interrupted" /\ pc' = IF pc = "batch" THEN pc ELSE "done"
      /\ Edges' = Edges /\ Recording' = Recording /\ (Spent(work.turn))' = Spent(work.turn)
  BY DEF Interrupt, Edges, Recording, Spent
<1>2. LoopOK'
  BY <1>1 DEF LoopOK, IsTurn
<1>3. CASE Recording
  <2>1. row' = Fail(row, FALSE)
    BY <1>3 DEF Interrupt, Saves, Recorded
  <2>2. /\ IsRow(row') /\ row'.number = row.number
        /\ row.number = 0 \/ row.finished => row' = row
        /\ row.number # 0 /\ ~row.finished => row'.status = "failed"
    BY <2>1, FailCloses DEF RecordOK
  <2>3. pc' \in {"batch", "done"} /\ (pc' = "batch" => pc = "batch")
    BY <1>1
  <2>4. RecordOK'
    BY <1>1, <1>3, <2>2, <2>3 DEF RecordOK
  <2>5. StaysClosed
    BY <1>3, <2>2 DEF RecordOK, StaysClosed
  <2> QED BY <1>2, <2>4, <2>5 DEF Kept
<1>4. CASE ~Recording
  BY <1>1, <1>2, <1>4 DEF Kept, RecordOK, StaysClosed, Interrupt, Saves, Recorded
<1> QED BY <1>3, <1>4

LEMMA StillKeeps ==
    ASSUME LoopOK, RecordOK,
           UNCHANGED <<harness, host, pc, node, turn, work, row, outcome, steps>>
    PROVE  Kept
<1>1. Edges' = Edges /\ Recording' = Recording
      /\ (Spent(work.turn))' = Spent(work.turn) /\ (Spent(turn))' = Spent(turn)
      /\ MayAsk' = MayAsk
  BY DEF Edges, Recording, Spent, MayAsk
<1> QED BY <1>1 DEF Kept, LoopOK, RecordOK, StaysClosed, IsTurn

LEMMA InitKeeps ==
    ASSUME Init
    PROVE  LoopOK /\ RecordOK
<1>1. /\ turn = PhaseState(turn.phase) /\ turn.phase \in Phases /\ node = turn.phase
      /\ turn.phase \in DOMAIN Edges \ ToolNodes
  <2> DEFINE first == IF harness \in {"two", "three"} THEN "synthesis"
                      ELSE IF harness = "one" THEN "defense" ELSE "decide"
  <2>1. InitialTurn(harness) = PhaseState(first)
    BY DEF InitialTurn, Three!InitialTurn, Two!InitialTurn, One!InitialTurn,
           Base!InitialTurn, PhaseState, Three!PhaseState, Two!PhaseState,
           One!PhaseState, Base!PhaseState, Root, Three!Root, Two!Root, One!Root, Base!Root
  <2>2. PhaseState(first).phase = first
    BY DEF PhaseState
  <2>3. first \in Phases /\ first \in DOMAIN Edges \ ToolNodes
    BY DEF Phases, Edges, Three!Edges, Two!Edges, One!Edges, Base!Edges, ToolNodes
  <2> QED BY <2>1, <2>2, <2>3 DEF Init
<1>2. IsTurn(turn)
  BY <1>1, BudgetAssumption DEF PhaseState, IsTurn, TurnFields
<1>3. Spent(turn) \in Nat /\ pc = "node" /\ outcome = "running" /\ steps = 0
  BY <1>2, Room DEF Init
<1> QED BY <1>1, <1>2, <1>3 DEF Init, LoopOK, RecordOK, NoRow, IsRow

LEMMA StepKeeps ==
    ASSUME LoopOK, RecordOK, [Next]_vars
    PROVE  Kept
<1>1. CASE RequestPass
  BY <1>1, RequestKeeps
<1>2. CASE \E answer \in Answers : ReceiveAnswer(answer)
  BY <1>2, ReceiveKeeps
<1>3. CASE RunTools
  BY <1>3, RunKeeps
<1>4. CASE CallTool
  BY <1>4, CallKeeps
<1>5. CASE FinishBatch
  BY <1>5, FinishKeeps
<1>6. CASE EndTurn
  BY <1>6, EndKeeps
<1>7. CASE Cancel \/ UNCHANGED vars
  BY <1>7, StillKeeps DEF Cancel, vars
<1>8. CASE Interrupt
  BY <1>8, InterruptKeeps
<1> QED BY <1>1, <1>2, <1>3, <1>4, <1>5, <1>6, <1>7, <1>8 DEF Next

----------------------------------------------------------------------------
(* The theorems.                                                           *)

\* No turn of any player runs into the recursion limit of its graph: two
\* supersteps are paid for by each pass, and the budgets leave room.
THEOREM StepsArePaidFor == Spec => []LimitNeverReached
<1>1. Init => LoopOK /\ RecordOK
  BY InitKeeps
<1>2. LoopOK /\ RecordOK /\ [Next]_vars => (LoopOK /\ RecordOK)'
  BY StepKeeps DEF Kept
<1>3. LoopOK => LimitNeverReached
  BY DEF LoopOK, LimitNeverReached
<1> QED BY <1>1, <1>2, <1>3, PTL DEF Spec

\* A row of a pass that has been closed stays as it was closed until the next
\* pass begins, whoever calls the recorder late.
THEOREM ClosedPassesStayClosed == Spec => ClosedPassStaysClosed
<1>1. Init => LoopOK /\ RecordOK
  BY InitKeeps
<1>2. LoopOK /\ RecordOK /\ [Next]_vars => (LoopOK /\ RecordOK)'
  BY StepKeeps DEF Kept
<1>3. LoopOK /\ RecordOK /\ [Next]_vars =>
        [row.finished => \/ row'.number = row.number + 1
                         \/ /\ row'.number = row.number
                            /\ row'.finished /\ row'.status = row.status]_vars
  BY StepKeeps DEF Kept, StaysClosed
<1> QED BY <1>1, <1>2, <1>3, PTL DEF Spec, ClosedPassStaysClosed

----------------------------------------------------------------------------
(* The history that player 3 replays.                                      *)

Outputs(ids) == Three!Outputs(ids)
Calls(ids)   == Three!Calls(ids)

IsSeq(s) == \E S : s \in Seq(S)

Places(h, type, id) == {k \in DOMAIN h : h[k] = [type |-> type, id |-> id]}

\* One call and, after it, one output.
Answered(h, id) ==
    \E c, o \in DOMAIN h : /\ c < o
                           /\ Places(h, "function_call", id) = {c}
                           /\ Places(h, "function_call_output", id) = {o}

Whole(h) == IsSeq(h) /\ \A k \in DOMAIN h : Answered(h, h[k].id)

\* The last call has no output yet.
Open(t) == Whole(t.history \o Outputs(<<t.callId>>))

LEMMA SeqDomain ==
    ASSUME NEW s, IsSeq(s)
    PROVE  Len(s) \in Nat /\ DOMAIN s = 1 .. Len(s)
<1> QED BY LenProperties DEF IsSeq

LEMMA Joined ==
    ASSUME NEW s, IsSeq(s), NEW t, IsSeq(t)
    PROVE  /\ IsSeq(s \o t) /\ Len(s \o t) = Len(s) + Len(t)
           /\ DOMAIN (s \o t) = 1 .. Len(s) + Len(t)
           /\ \A i \in 1 .. Len(s) + Len(t) :
                 (s \o t)[i] = IF i <= Len(s) THEN s[i] ELSE t[i - Len(s)]
<1>1. PICK S, T : s \in Seq(S) /\ t \in Seq(T)
  BY DEF IsSeq
<1>2. S \subseteq S \cup T /\ T \subseteq S \cup T
  OBVIOUS
<1>3. s \in Seq(S \cup T) /\ t \in Seq(S \cup T)
  BY <1>1, <1>2, SeqMonotonic
<1>4. s \o t \in Seq(S \cup T)
  BY <1>3, ConcatProperties
<1> QED BY <1>3, <1>4, ConcatProperties, LenProperties DEF IsSeq

LEMMA Items ==
    ASSUME NEW ids, IsSeq(ids)
    PROVE  /\ IsSeq(Calls(ids)) /\ Len(Calls(ids)) = Len(ids)
           /\ IsSeq(Outputs(ids)) /\ Len(Outputs(ids)) = Len(ids)
           /\ \A i \in 1 .. Len(ids) :
                 /\ Calls(ids)[i] = [type |-> "function_call", id |-> ids[i]]
                 /\ Outputs(ids)[i] = [type |-> "function_call_output", id |-> ids[i]]
<1>1. PICK S : ids \in Seq(S)
  BY DEF IsSeq
<1>2. Len(ids) \in Nat /\ DOMAIN ids = 1 .. Len(ids) /\ \A i \in 1 .. Len(ids) : ids[i] \in S
  BY <1>1, LenProperties, ElementOfSeq
<1> DEFINE T == [type : {"function_call", "function_call_output"}, id : S]
<1>3. Calls(ids) \in Seq(T) /\ Len(Calls(ids)) = Len(ids)
  BY <1>2 DEF Calls, Three!Calls
<1>4. Outputs(ids) \in Seq(T) /\ Len(Outputs(ids)) = Len(ids)
  BY <1>2 DEF Outputs, Three!Outputs
<1> QED BY <1>2, <1>3, <1>4 DEF IsSeq, Calls, Outputs, Three!Calls, Three!Outputs

\* An answered exchange is added whole, when none of its ids was used before.
LEMMA ExchangeKeepsWhole ==
    ASSUME NEW h, Whole(h), NEW ids, IsSeq(ids), Three!Distinct(ids),
           \A i \in DOMAIN ids, k \in DOMAIN h :
               h[k] # [type |-> "function_call", id |-> ids[i]]
    PROVE  Whole((h \o Calls(ids)) \o Outputs(ids))
<1> DEFINE n == Len(h)
           m == Len(ids)
           g == (h \o Calls(ids)) \o Outputs(ids)
           call(id) == [type |-> "function_call", id |-> id]
           output(id) == [type |-> "function_call_output", id |-> id]
<1>1. n \in Nat /\ m \in Nat /\ DOMAIN h = 1 .. n /\ DOMAIN ids = 1 .. m /\ IsSeq(h)
  BY SeqDomain DEF Whole
<1>2. /\ IsSeq(g) /\ DOMAIN g = 1 .. n + m + m
      /\ \A i \in 1 .. n : g[i] = h[i]
      /\ \A i \in 1 .. m : g[n + i] = call(ids[i]) /\ g[n + m + i] = output(ids[i])
  <2> DEFINE b == h \o Calls(ids)
  <2>1. /\ IsSeq(b) /\ Len(b) = n + m
        /\ \A i \in 1 .. n + m : b[i] = IF i <= n THEN h[i] ELSE Calls(ids)[i - n]
    <3>1. IsSeq(Calls(ids)) /\ Len(Calls(ids)) = m
      BY Items
    <3> DEFINE t == Calls(ids)
    <3>2. IsSeq(h) /\ IsSeq(t) /\ Len(t) = m
      BY <1>1, <3>1
    <3> HIDE DEF t, n, m
    <3>3. /\ IsSeq(h \o t) /\ Len(h \o t) = Len(h) + Len(t)
          /\ \A i \in 1 .. Len(h) + Len(t) :
                 (h \o t)[i] = IF i <= Len(h) THEN h[i] ELSE t[i - Len(h)]
      BY <3>2, Joined
    <3> QED BY <3>2, <3>3 DEF n, t
  <2> HIDE DEF b
  <2>2. /\ IsSeq(b \o Outputs(ids)) /\ DOMAIN (b \o Outputs(ids)) = 1 .. n + m + m
        /\ \A i \in 1 .. n + m + m :
              (b \o Outputs(ids))[i] = IF i <= n + m THEN b[i] ELSE Outputs(ids)[i - (n + m)]
    <3>1. IsSeq(Outputs(ids)) /\ Len(Outputs(ids)) = m
      BY Items
    <3> DEFINE t == Outputs(ids)
    <3>3. IsSeq(b) /\ IsSeq(t) /\ Len(t) = m /\ Len(b) = n + m
      BY <2>1, <3>1
    <3> HIDE DEF t, n, m
    <3>4. /\ IsSeq(b \o t) /\ DOMAIN (b \o t) = 1 .. Len(b) + Len(t)
          /\ \A i \in 1 .. Len(b) + Len(t) :
                 (b \o t)[i] = IF i <= Len(b) THEN b[i] ELSE t[i - Len(b)]
      BY <3>3, Joined
    <3> QED BY <3>3, <3>4 DEF t
  <2>3. g = b \o Outputs(ids)
    BY DEF b
  <2> HIDE DEF g, n, m
  <2>4. \A i \in 1 .. n : g[i] = h[i]
    BY <1>1, <2>1, <2>2, <2>3
  <2>5. ASSUME NEW i \in 1 .. m
        PROVE  g[n + i] = call(ids[i]) /\ g[n + m + i] = output(ids[i])
    <3>1. /\ n + i \in 1 .. n + m /\ ~(n + i <= n) /\ n + i - n = i
          /\ n + m + i \in 1 .. n + m + m /\ ~(n + m + i <= n + m) /\ n + m + i - (n + m) = i
      BY <1>1
    <3>2. g[n + i] = Calls(ids)[i] /\ g[n + m + i] = Outputs(ids)[i]
      BY <1>1, <2>1, <2>2, <2>3, <3>1
    <3> QED BY <3>2, Items DEF m
  <2> QED BY <2>2, <2>3, <2>4, <2>5
<1> HIDE DEF g, n, m
<1>3. \A k \in 1 .. n + m + m : \/ k \in 1 .. n
                                \/ \E i \in 1 .. m : k = n + i
                                \/ \E i \in 1 .. m : k = n + m + i
  <2>1. TAKE k \in 1 .. n + m + m
  <2>2. CASE k <= n
    BY <1>1, <2>1, <2>2
  <2>3. CASE n < k /\ k <= n + m
    <3>1. k - n \in 1 .. m /\ k = n + (k - n)
      BY <1>1, <2>1, <2>3
    <3> QED BY <3>1
  <2>4. CASE n + m < k
    <3>1. k - (n + m) \in 1 .. m /\ k = n + m + (k - (n + m))
      BY <1>1, <2>1, <2>4
    <3> QED BY <3>1
  <2> QED BY <1>1, <2>1, <2>2, <2>3, <2>4
\* An id of the exchange was in no item of the history.
<1>4. \A k \in 1 .. n, i \in 1 .. m : h[k].id # ids[i]
  <2>1. \A k \in 1 .. n : \E c \in 1 .. n : h[c] = call(h[k].id)
    <3>1. TAKE k \in 1 .. n
    <3>2. Answered(h, h[k].id)
      BY <1>1 DEF Whole
    <3> QED BY <1>1, <3>2 DEF Answered, Places
  <2>2. \A i \in 1 .. m, c \in 1 .. n : h[c] # call(ids[i])
    BY <1>1
  <2> QED BY <2>1, <2>2
<1>5. ASSUME NEW k \in 1 .. n
      PROVE  Answered(g, h[k].id)
  <2> DEFINE id == h[k].id
  <2>1. PICK c \in 1 .. n, o \in 1 .. n :
            /\ c < o
            /\ Places(h, "function_call", id) = {c}
            /\ Places(h, "function_call_output", id) = {o}
    BY <1>1 DEF Whole, Answered
  <2>2. /\ \A j \in 1 .. n : (h[j] = call(id) <=> j = c) /\ (h[j] = output(id) <=> j = o)
        /\ \A i \in 1 .. m : call(ids[i]) # call(id) /\ output(ids[i]) # output(id)
                             /\ call(ids[i]) # output(id) /\ output(ids[i]) # call(id)
    BY <1>1, <1>4, <2>1 DEF Places
  <2> HIDE DEF call, output, id
  <2>3. \A j \in 1 .. n + m + m : (g[j] = call(id) <=> j = c) /\ (g[j] = output(id) <=> j = o)
    <3>1. TAKE j \in 1 .. n + m + m
    <3>2. CASE j \in 1 .. n
      BY <1>2, <2>2, <3>2
    <3>3. CASE \E i \in 1 .. m : j = n + i \/ j = n + m + i
      <4>1. PICK i \in 1 .. m : j = n + i \/ j = n + m + i
        BY <3>3
      <4>2. j # c /\ j # o
        BY <1>1, <4>1
      <4>3. g[j] = call(ids[i]) \/ g[j] = output(ids[i])
        BY <1>2, <4>1
      <4> QED BY <2>2, <4>2, <4>3
    <3> QED BY <1>3, <3>1, <3>2, <3>3
  <2>4. {j \in DOMAIN g : g[j] = call(id)} = {c} /\ {j \in DOMAIN g : g[j] = output(id)} = {o}
    BY <1>1, <1>2, <2>3
  <2>5. c \in DOMAIN g /\ o \in DOMAIN g
    BY <1>1, <1>2
  <2> QED BY <2>1, <2>4, <2>5 DEF Answered, Places, call, output, id
<1>6. ASSUME NEW i \in 1 .. m
      PROVE  Answered(g, ids[i])
  <2> DEFINE id == ids[i]
             c == n + i
             o == n + m + i
  <2>1. /\ \A j \in 1 .. n : h[j] # call(id) /\ h[j] # output(id)
        /\ \A j \in 1 .. m : /\ call(ids[j]) = call(id) <=> j = i
                             /\ output(ids[j]) = output(id) <=> j = i
                             /\ call(ids[j]) # output(id) /\ output(ids[j]) # call(id)
    BY <1>1, <1>4 DEF Three!Distinct
  <2> HIDE DEF call, output, id
  <2> HIDE DEF c, o
  <2>2. \A j \in 1 .. n + m + m : (g[j] = call(id) <=> j = c) /\ (g[j] = output(id) <=> j = o)
    <3>1. TAKE j \in 1 .. n + m + m
    <3>2. CASE j \in 1 .. n
      <4>1. j # c /\ j # o
        BY <1>1, <3>2 DEF c, o
      <4> QED BY <1>2, <2>1, <3>2, <4>1
    <3>3. CASE \E p \in 1 .. m : j = n + p
      <4>1. PICK p \in 1 .. m : j = n + p
        BY <3>3
      <4>2. j # o /\ (j = c <=> p = i)
        BY <1>1, <1>6, <4>1 DEF c, o
      <4>3. g[j] = call(ids[p])
        BY <1>2, <4>1
      <4> QED BY <2>1, <4>2, <4>3
    <3>4. CASE \E p \in 1 .. m : j = n + m + p
      <4>1. PICK p \in 1 .. m : j = n + m + p
        BY <3>4
      <4>2. j # c /\ (j = o <=> p = i)
        BY <1>1, <1>6, <4>1 DEF c, o
      <4>3. g[j] = output(ids[p])
        BY <1>2, <4>1
      <4> QED BY <2>1, <4>2, <4>3
    <3> QED BY <1>3, <3>1, <3>2, <3>3, <3>4
  <2>3. c \in DOMAIN g /\ o \in DOMAIN g /\ c < o
    BY <1>1, <1>2 DEF c, o
  <2>4. {j \in DOMAIN g : g[j] = call(id)} = {c} /\ {j \in DOMAIN g : g[j] = output(id)} = {o}
    BY <1>1, <1>2, <2>2, <2>3
  <2> QED BY <2>3, <2>4 DEF Answered, Places, call, output, id
<1>7. ASSUME NEW k \in DOMAIN g
      PROVE  Answered(g, g[k].id)
  <2>1. CASE k \in 1 .. n
    BY <1>2, <1>5, <2>1
  <2>2. CASE \E i \in 1 .. m : k = n + i \/ k = n + m + i
    <3>1. PICK i \in 1 .. m : k = n + i \/ k = n + m + i
      BY <2>2
    <3>2. g[k].id = ids[i]
      <4>1. g[k] = call(ids[i]) \/ g[k] = output(ids[i])
        BY <1>2, <3>1
      <4> QED BY <4>1 DEF call, output
    <3> QED BY <1>6, <3>2
  <2> QED BY <1>2, <1>3, <2>1, <2>2
<1> QED BY <1>2, <1>7 DEF Whole, g

\* Where the history stands: whole when the model is asked, open while the
\* batch of its last call waits or runs, and empty for every other player.
HistoryOK ==
    IF harness = "three"
    THEN /\ pc = "waiting" => Whole(turn.history)
         /\ pc = "node" => IF node \in ToolNodes THEN Open(turn) ELSE Whole(turn.history)
         /\ pc = "batch" => Open(work.turn)
    ELSE /\ turn.history = <<>>
         /\ pc = "batch" => work.turn.history = <<>>

LEMMA ThreeAnswers ==
    ASSUME harness = "three", NEW answer \in Answers
    PROVE  IsSeq(answer.ids)
<1>1. answer \in NativeAnswers
  BY DEF Answers
<1>2. \/ answer.ids = <<>>
      \/ \E a : answer.ids = <<a>>
      \/ \E a, b : answer.ids = <<a, b>>
  BY <1>1 DEF NativeAnswers, Answer
<1>3. \A a : <<>> \in Seq({}) /\ <<a>> \in Seq({a})
  OBVIOUS
<1>4. CASE answer.ids = <<>>
  BY <1>3, <1>4 DEF IsSeq
<1>5. CASE \E a : answer.ids = <<a>>
  <2>1. PICK a : answer.ids = <<a>>
    BY <1>5
  <2> QED BY <1>3, <2>1 DEF IsSeq
<1>6. CASE \E a, b : answer.ids = <<a, b>>
  <2>1. PICK a, b : answer.ids = <<a, b>>
    BY <1>6
  <2>2. <<a, b>> \in Seq({a, b})
    OBVIOUS
  <2> QED BY <2>1, <2>2 DEF IsSeq
<1> QED BY <1>2, <1>4, <1>5, <1>6

\* An accepted answer leaves its call open; a refused one is answered at once,
\* when it can be replayed, and not kept otherwise.
LEMMA ThreeHears ==
    ASSUME NEW t, IsTurn(t), Whole(t.history), NEW answer, IsSeq(answer.ids)
    PROVE  LET passed == Three!ModelPass(t, answer)
           IN  /\ passed.tag = "submits" => Open(passed.turn)
               /\ passed.tag = "goes" =>
                     \/ passed.turn.next = "synthesis_tools" /\ Open(passed.turn)
                     \/ passed.turn.next = t.phase /\ Whole(passed.turn.history)
<1> DEFINE counted == [t EXCEPT !.modelCalls = @ + 1,
                                !.forcedRetries = IF t.forced THEN @ + 1 ELSE @]
           replay  == Three!Replayable(answer) /\ ~Three!Repeated(t, answer)
           heard   == IF replay THEN [counted EXCEPT !.history = @ \o Calls(answer.ids)] ELSE counted
           refused == IF replay THEN [heard EXCEPT !.history = @ \o Outputs(answer.ids)] ELSE heard
           pending == [heard EXCEPT !.pending = answer.calls, !.callId = answer.ids[1],
                                    !.toolCalls = @ + Len(answer.calls)]
           passed  == Three!ModelPass(t, answer)
<1>1. counted.history = t.history /\ "history" \in DOMAIN counted /\ "callId" \in DOMAIN counted
      /\ DOMAIN counted = DOMAIN t /\ counted.phase = t.phase
  BY DEF IsTurn, TurnFields
<1>2. replay => Whole((t.history \o Calls(answer.ids)) \o Outputs(answer.ids))
  <2>1. SUFFICES ASSUME replay
                 PROVE  Whole((t.history \o Calls(answer.ids)) \o Outputs(answer.ids))
    OBVIOUS
  <2>2. /\ Three!Distinct(answer.ids)
        /\ \A i \in DOMAIN answer.ids, k \in DOMAIN t.history :
              t.history[k] # [type |-> "function_call", id |-> answer.ids[i]]
    BY <2>1 DEF Three!Replayable, Three!Repeated
  <2> QED BY <2>2, ExchangeKeepsWhole
<1>3. Whole(refused.history) /\ DOMAIN refused = DOMAIN t /\ refused.phase = t.phase
  BY <1>1, <1>2
<1>4. Three!Parsed(answer) /\ ~Three!Repeated(t, answer) => Open(pending)
  <2>1. SUFFICES ASSUME Three!Parsed(answer), ~Three!Repeated(t, answer)
                 PROVE  Open(pending)
    OBVIOUS
  <2>2. /\ answer.status = "completed" /\ Len(answer.ids) = 1 /\ answer.ids[1] # NoId
        /\ DOMAIN answer.ids = 1 .. 1
    BY <2>1, SeqDomain DEF Three!Parsed
  <2>3. replay
    BY <2>1, <2>2 DEF Three!Replayable, Three!Distinct
  <2>4. Outputs(<<answer.ids[1]>>) = Outputs(answer.ids)
    BY <2>2 DEF Outputs, Three!Outputs
  <2>5. /\ pending.history = t.history \o Calls(answer.ids)
        /\ pending.callId = answer.ids[1]
    BY <1>1, <2>3
  <2> QED BY <1>2, <2>3, <2>4, <2>5 DEF Open
<1>5. \/ passed.tag = "raised"
      \/ passed.tag = "goes" /\ passed.turn.next = t.phase /\ passed.turn.history = refused.history
      \/ /\ Three!Parsed(answer) /\ ~Three!Repeated(t, answer)
         /\ \/ passed.tag = "submits" /\ passed.turn = pending
            \/ passed.tag = "goes" /\ passed.turn = [pending EXCEPT !.next = "synthesis_tools"]
  BY <1>3 DEF Three!ModelPass, Three!Retry, Three!Raised, Three!Goes, Three!Retries,
              Three!Submits, Calls, Outputs, IsTurn, TurnFields
<1>6. LET sent == [pending EXCEPT !.next = "synthesis_tools"]
      IN  /\ sent.next = "synthesis_tools" /\ sent.history = pending.history
          /\ sent.callId = pending.callId
  BY <1>1 DEF IsTurn, TurnFields
<1> HIDE DEF pending, refused, passed
<1>7. passed.tag = "submits" => Open(passed.turn)
  BY <1>4, <1>5
<1>8. passed.tag = "goes" => \/ passed.turn.next = "synthesis_tools" /\ Open(passed.turn)
                             \/ passed.turn.next = t.phase /\ Whole(passed.turn.history)
  BY <1>3, <1>4, <1>5, <1>6 DEF Open
<1> QED BY <1>7, <1>8 DEF passed

\* A batch that ends is answered.
LEMMA ThreeSettles ==
    ASSUME NEW t, IsTurn(t), Open(t), NEW b, NEW d, NEW br
    PROVE  /\ Three!RejectBatch(t).tag # "raised" => Whole(Three!RejectBatch(t).turn.history)
           /\ Whole(Three!CommitBatch(t, b, d, br).turn.history)
<1>1. Three!CompleteStep(t).history = t.history \o Outputs(<<t.callId>>)
      /\ DOMAIN Three!CompleteStep(t) = DOMAIN t
  BY DEF Three!CompleteStep, Outputs, IsTurn, TurnFields
<1>2. Whole(Three!CompleteStep(t).history)
  BY <1>1 DEF Open
<1> QED BY <1>1, <1>2 DEF Three!RejectBatch, Three!CommitBatch, Three!Goes, Three!Raised, IsTurn, TurnFields

\* The other players keep no history.
LEMMA NoHistory ==
    ASSUME NEW t, IsTurn(t), t.history = <<>>, NEW answer, NEW b, NEW d, NEW br
    PROVE  /\ Two!ModelPass(t, answer).turn.history = <<>>
           /\ One!ModelPass(t, answer).turn.history = <<>>
           /\ Base!Decide(t, answer).turn.history = <<>>
           /\ Two!RejectBatch(t).turn.history = <<>>
           /\ One!RejectCall(t).turn.history = <<>>
           /\ Base!RejectMove(t).turn.history = <<>>
           /\ Two!CommitBatch(t, b, d, br).turn.history = <<>>
           /\ One!CommitCall(t, b, d).turn.history = <<>>
           /\ Base!AcceptMove(t, d).turn.history = <<>>
<1> USE DEF IsTurn, TurnFields
<1>1. Two!ModelPass(t, answer).turn.history = <<>>
  BY DEF Two!ModelPass, Two!Retry, Two!Raised, Two!Goes, Two!Retries, Two!Submits
<1>2. One!ModelPass(t, answer).turn.history = <<>>
  BY DEF One!ModelPass, One!Retry, One!Raised, One!Goes, One!Retries, One!Submits
<1>3. Base!Decide(t, answer).turn.history = <<>>
  BY DEF Base!Decide, Base!Raised, Base!Goes, Base!Retries
<1>4. /\ Two!RejectBatch(t).turn.history = <<>>
      /\ One!RejectCall(t).turn.history = <<>>
      /\ Base!RejectMove(t).turn.history = <<>>
  BY DEF Two!RejectBatch, One!RejectCall, Base!RejectMove, Two!Raised, Two!Goes, One!Raised,
         One!Goes, Base!Raised, Base!Goes
<1>5. /\ Two!CommitBatch(t, b, d, br).turn.history = <<>>
      /\ Base!AcceptMove(t, d).turn.history = <<>>
  BY DEF Two!CommitBatch, Two!Goes, Base!AcceptMove, Base!Goes
<1>6. One!CommitCall(t, b, d).turn.history = <<>>
  BY DEF One!CommitCall, One!Goes, One!PhaseState
<1> QED BY <1>1, <1>2, <1>3, <1>4, <1>5, <1>6

LEMMA HistoryStands ==
    ASSUME HistoryOK, UNCHANGED <<harness, turn, work>>,
           pc' = "done" \/ (pc' = "batch" /\ pc = "batch") \/ UNCHANGED <<pc, node>>
    PROVE  HistoryOK'
<1>1. (Open(turn))' = Open(turn) /\ (Open(work.turn))' = Open(work.turn)
  BY DEF Open, Whole, IsSeq, Answered, Places, Outputs, Three!Outputs
<1>2. (Whole(turn.history))' = Whole(turn.history)
  BY DEF Whole, IsSeq, Answered, Places
<1> QED BY <1>1, <1>2 DEF HistoryOK, ToolNodes

\* A turn that is over has no history to keep, but what an empty one was.
LEMMA HistoryOver ==
    ASSUME HistoryOK, UNCHANGED harness, pc' = "done", harness # "three" => turn'.history = <<>>
    PROVE  HistoryOK'
<1> QED BY DEF HistoryOK

\* Where a model node or a batch of player 3 leads.
LEMMA HistoryReturns ==
    ASSUME LoopOK, HistoryOK, UNCHANGED harness, node \in DOMAIN Edges,
           NEW after, Returns(node, after),
           harness = "three" =>
               \/ after.next \notin ToolNodes /\ Whole(after.history)
               \/ after.next \in ToolNodes /\ node \notin ToolNodes /\ Open(after),
           harness # "three" => after.history = <<>>
    PROVE  HistoryOK'
<1>1. pc' \in {"node", "done"} /\ turn' \in {turn, after}
  BY ReturnLeads
<1>2. CASE pc' = "done"
  BY <1>1, <1>2, HistoryOver DEF HistoryOK
<1>3. CASE pc' = "node" /\ harness # "three"
  BY <1>3, ReturnLeads DEF HistoryOK
<1>4. CASE pc' = "node" /\ harness = "three"
  <2>1. turn' = after /\ (node' \in ToolNodes => node' = after.next)
        /\ (node \notin ToolNodes => node' = after.next)
    BY <1>4, ReturnLeads
  <2>2. IF node' \in ToolNodes THEN Open(after) ELSE Whole(after.history)
    BY <1>4, <2>1
  <2>3. Open(turn)' = Open(after) /\ Whole(turn.history)' = Whole(after.history)
    BY <2>1 DEF Open, Whole, IsSeq, Answered, Places, Outputs, Three!Outputs
  <2> QED BY <1>4, <2>2, <2>3 DEF HistoryOK
<1> QED BY <1>1, <1>2, <1>3, <1>4

LEMMA HistoryStarts ==
    ASSUME UNCHANGED harness, pc' = "batch", NEW t, work'.turn = t,
           IF harness = "three" THEN Open(t) ELSE t.history = <<>> /\ turn'.history = <<>>
    PROVE  HistoryOK'
<1>1. (Open(work.turn))' = Open(t)
  BY DEF Open, Whole, IsSeq, Answered, Places, Outputs, Three!Outputs
<1> QED BY <1>1 DEF HistoryOK

LEMMA AbortOver ==
    ASSUME HistoryOK, UNCHANGED harness, NEW reason, NEW after, NEW rollback,
           Aborts(reason, after, rollback)
    PROVE  HistoryOK'
<1> QED BY HistoryOver DEF HistoryOK, Aborts

LEMMA HistoryReceives ==
    ASSUME LoopOK, HistoryOK, NEW answer \in Answers, ReceiveAnswer(answer)
    PROVE  HistoryOK'
<1> DEFINE heard  == Recorded(Listed(Exchanged(answer), answer.calls))
           passed == ModelPass(answer)
<1>1. /\ pc = "waiting" /\ node \in DOMAIN Edges \ ToolNodes /\ UNCHANGED harness
      /\ IsTurn(turn)
  BY DEF ReceiveAnswer, LoopOK
<1>2. harness = "three" =>
          /\ passed.tag = "submits" => Open(passed.turn)
          /\ passed.tag = "goes" =>
                \/ passed.turn.next = "synthesis_tools" /\ Open(passed.turn)
                \/ passed.turn.next = turn.phase /\ Whole(passed.turn.history)
  <2>1. SUFFICES ASSUME harness = "three"
                 PROVE  <1>2!2
    OBVIOUS
  <2>2. Whole(turn.history) /\ IsSeq(answer.ids)
    BY <1>1, <2>1, ThreeAnswers DEF HistoryOK
  <2>3. passed = Three!ModelPass(turn, answer)
    BY <2>1 DEF ModelPass
  <2> QED BY <1>1, <2>2, <2>3, ThreeHears
<1>3. harness # "three" => turn.history = <<>> /\ passed.turn.history = <<>>
  BY <1>1, NoHistory DEF HistoryOK, ModelPass
<1>4. turn.phase \notin ToolNodes /\ "synthesis_tools" \in ToolNodes
  BY <1>1 DEF IsTurn, Phases, ToolNodes
<1>5. CASE \E reason : Aborts(reason, heard, FALSE)
  <2> HIDE DEF heard
  <2> QED BY <1>1, <1>5, AbortOver
<1>6. CASE passed.tag = "goes" /\ Returns(node, passed.turn)
  <2> HIDE DEF passed
  <2> QED BY <1>1, <1>2, <1>3, <1>4, <1>6, HistoryReturns
<1>7. CASE passed.tag = "submits" /\ pc' = "batch" /\ work' = StartWork(passed.turn, TRUE) /\ UNCHANGED turn
  <2>1. work'.turn = passed.turn
    BY <1>7 DEF StartWork
  <2> HIDE DEF passed
  <2> QED BY <1>1, <1>2, <1>3, <1>7, <2>1, HistoryStarts
<1>8. passed.tag \in {"raised", "goes", "submits"}
  BY <1>1, PassCounts DEF LoopOK, Counts
<1> QED BY <1>5, <1>6, <1>7, <1>8 DEF ReceiveAnswer

LEMMA HistoryCalls ==
    ASSUME LoopOK, HistoryOK, CallTool
    PROVE  HistoryOK'
<1>1. pc = "batch" /\ UNCHANGED harness /\ IsTurn(work.turn) /\ node \in DOMAIN Edges
  BY DEF CallTool, LoopOK
<1>2. CASE \E reason, after, rollback : Aborts(reason, after, rollback)
  BY <1>1, <1>2, AbortOver
<1>3. CASE Reject.tag # "raised" /\ Returns(node, Reject.turn)
  <2>1. Reject.turn.next \notin ToolNodes
    BY <1>1, <1>3, RejectSettles DEF Settles
  <2>2. harness = "three" => Whole(Reject.turn.history)
    BY <1>1, <1>3, ThreeSettles DEF HistoryOK, Reject
  <2>3. harness # "three" => Reject.turn.history = <<>>
    BY <1>1, NoHistory DEF HistoryOK, Reject
  <2> QED BY <1>1, <1>3, <2>1, <2>2, <2>3, HistoryReturns
<1>4. CASE work'.turn = work.turn /\ UNCHANGED <<pc, node, turn>>
  <2>1. IF harness = "three" THEN Open(work.turn) ELSE work.turn.history = <<>> /\ turn'.history = <<>>
    BY <1>1, <1>4 DEF HistoryOK
  <2> DEFINE t == work.turn
  <2>2. pc' = "batch" /\ work'.turn = t
    BY <1>1, <1>4
  <2>3. IF harness = "three" THEN Open(t) ELSE t.history = <<>> /\ turn'.history = <<>>
    BY <2>1
  <2> HIDE DEF t
  <2> QED BY <1>1, <2>2, <2>3, HistoryStarts
<1> DEFINE item   == Head(work.left)
           result == Execute(item.call, work.board)
<1>5. CASE result.verdict = "raised" \/ (result.verdict = "ok" /\ cancelled)
  BY <1>2, <1>5 DEF CallTool
<1>6. CASE result.verdict = "rejected"
  BY <1>2, <1>3, <1>6 DEF CallTool
<1>7. CASE result.verdict \notin {"raised", "rejected"} /\ ~(result.verdict = "ok" /\ cancelled)
  <2> DEFINE submit == item.call.tool = "submit_move"
  <2>1. /\ work' = [work EXCEPT !.left = Tail(@), !.ran = @ \cup {item.index},
                                !.board = result.board,
                                !.decision = IF submit THEN item.call.move ELSE @,
                                !.branch = IF submit THEN item.call.branch ELSE @]
        /\ UNCHANGED <<pc, node, turn, outcome>>
    BY <1>7 DEF CallTool
  <2> HIDE DEF result, item, submit
  <2>2. work'.turn = work.turn
    BY <2>1
  <2> QED BY <1>4, <2>1, <2>2
<1> QED BY <1>5, <1>6, <1>7

LEMMA HistoryFinishes ==
    ASSUME LoopOK, HistoryOK, FinishBatch
    PROVE  HistoryOK'
<1>1. /\ pc = "batch" /\ UNCHANGED harness /\ IsTurn(work.turn) /\ node \in DOMAIN Edges
      /\ Returns(node, Commit.turn)
  BY DEF FinishBatch, LoopOK
<1>2. Commit.turn.next \notin ToolNodes
  BY <1>1, CommitSettles DEF Settles
<1>3. harness = "three" => Whole(Commit.turn.history)
  BY <1>1, ThreeSettles DEF HistoryOK, Commit
<1>4. harness # "three" => Commit.turn.history = <<>>
  BY <1>1, NoHistory DEF HistoryOK, Commit
<1> QED BY <1>1, <1>2, <1>3, <1>4, HistoryReturns

LEMMA HistoryKept ==
    ASSUME LoopOK, HistoryOK, [Next]_vars
    PROVE  HistoryOK'
<1>1. CASE RequestPass
  <2>1. pc = "node" /\ node \notin ToolNodes /\ UNCHANGED harness
    BY <1>1 DEF RequestPass
  <2>2. CASE \E reason, after, rollback : Aborts(reason, after, rollback)
    BY <2>1, <2>2, AbortOver
  <2>3. CASE pc' = "waiting" /\ UNCHANGED <<node, turn, work, outcome>>
    <3>1. Whole(turn.history)' = Whole(turn.history)
      BY <2>3 DEF Whole, IsSeq, Answered, Places
    <3> QED BY <2>1, <2>3, <3>1 DEF HistoryOK
  <2> QED BY <1>1, <2>2, <2>3 DEF RequestPass
<1>2. CASE \E answer \in Answers : ReceiveAnswer(answer)
  BY <1>2, HistoryReceives
<1>3. CASE RunTools
  <2>1. pc = "node" /\ node \in ToolNodes /\ UNCHANGED harness
    BY <1>3 DEF RunTools
  <2>2. CASE \E reason, after, rollback : Aborts(reason, after, rollback)
    BY <2>1, <2>2, AbortOver
  <2>3. CASE pc' = "batch" /\ work' = StartWork(turn, FALSE) /\ UNCHANGED turn
    <3>1. work'.turn = turn
      BY <2>3 DEF StartWork
    <3> QED BY <2>1, <2>3, <3>1, HistoryStarts DEF HistoryOK
  <2> QED BY <1>3, <2>2, <2>3 DEF RunTools
<1>4. CASE CallTool
  BY <1>4, HistoryCalls
<1>5. CASE FinishBatch
  BY <1>5, HistoryFinishes
<1>6. CASE EndTurn
  <2>1. UNCHANGED harness
    BY <1>6 DEF EndTurn
  <2>2. CASE \E reason, after, rollback : Aborts(reason, after, rollback)
    BY <2>1, <2>2, AbortOver
  <2>3. CASE pc' = "done" /\ UNCHANGED <<turn, work>>
    BY <2>1, <2>3, HistoryStands
  <2> QED BY <1>6, <2>2, <2>3 DEF EndTurn
<1>7. CASE Cancel \/ UNCHANGED vars
  BY <1>7, HistoryStands DEF Cancel, vars
<1>8. CASE Interrupt
  BY <1>8, HistoryStands DEF Interrupt
<1> QED BY <1>1, <1>2, <1>3, <1>4, <1>5, <1>6, <1>7, <1>8 DEF Next

LEMMA HistoryBegins ==
    ASSUME Init
    PROVE  HistoryOK
<1>1. turn.history = <<>>
  BY DEF Init, InitialTurn, Three!InitialTurn, Two!InitialTurn, One!InitialTurn,
         Base!InitialTurn, PhaseState, Three!PhaseState, Two!PhaseState,
         One!PhaseState, Base!PhaseState
<1>2. Whole(<<>>)
  BY DEF Whole, IsSeq
<1>3. pc = "node" /\ node \notin ToolNodes
  BY InitKeeps DEF Init, InitialTurn, Three!InitialTurn, Two!InitialTurn, One!InitialTurn,
         Base!InitialTurn, Three!PhaseState, Two!PhaseState, One!PhaseState, Base!PhaseState,
         ToolNodes
<1> QED BY <1>1, <1>2, <1>3 DEF HistoryOK

\* When player 3 asks the model again, every function call of the history it
\* replays has one output after it, whatever identifiers the model repeats.
THEOREM HistoriesAreAnswered == Spec => []HistoryIsAnswered
<1>1. Init => LoopOK /\ RecordOK /\ HistoryOK
  BY InitKeeps, HistoryBegins
<1>2. LoopOK /\ RecordOK /\ HistoryOK /\ [Next]_vars => (LoopOK /\ RecordOK /\ HistoryOK)'
  BY StepKeeps, HistoryKept DEF Kept
<1>3. HistoryOK => HistoryIsAnswered
  BY DEF HistoryOK, HistoryIsAnswered, Whole, Answered, Places
<1> QED BY <1>1, <1>2, <1>3, PTL DEF Spec

----------------------------------------------------------------------------
(* The move that ends a turn.                                              *)

NodeFields == {"id", "parent", "move", "terminal", "note"}

IsTree(nodes) == \A n \in nodes : NodeFields \subseteq DOMAIN n

IsBoard(b) == DOMAIN b = {"nodes", "active", "scratch"} /\ IsTree(b.nodes)

\* A base branch with a tested reply, or one that ended the game.
VerifiedBase(nodes, id, move) ==
    \E n \in nodes : /\ n.id = id /\ n.parent = Root /\ n.move = move
                     /\ n.terminal \/ ChildNodes(nodes, n.id) # {}

Verified(move, branch, nodes) ==
    move # NoMove => /\ RequireLegalSan(<<>>, move)
                     /\ Batched => VerifiedBase(nodes, branch, move)

\* Player 1 decides in its last phase only, which two reports have opened.
ReportsOK(t) ==
    harness = "one" => /\ t.phase \in {"defense", "attack", "synthesis"}
                       /\ t.phase = "defense" => t.reports = {}
                       /\ t.phase = "attack" => t.reports = {"defense"}
                       /\ t.phase = "synthesis" => t.reports = {"defense", "attack"}
                       /\ t.decision # NoMove => t.phase = "synthesis"

Decides(t) == IsTree(t.nodes) /\ Verified(t.decision, t.branch, t.nodes) /\ ReportsOK(t)

WorkFields == {"turn", "board", "decision", "branch"}

DecisionOK ==
    /\ Decides(turn)
    /\ pc = "batch" => /\ WorkFields \subseteq DOMAIN work
                       /\ Decides(work.turn)
                       /\ IsBoard(work.board)
                       /\ Verified(work.decision, work.branch, work.board.nodes)
    /\ outcome = "moved" => pc = "done" /\ turn.decision # NoMove

\* A tree that grows, or gets a note, keeps what was verified on it.
Grows(nodes, after) ==
    \A n \in nodes : \E m \in after : /\ m.id = n.id /\ m.parent = n.parent
                                      /\ m.move = n.move /\ m.terminal = n.terminal

LEMMA GrownKeepsVerified ==
    ASSUME NEW nodes, NEW after, Grows(nodes, after), NEW move, NEW branch,
           Verified(move, branch, nodes)
    PROVE  Verified(move, branch, after)
<1>1. SUFFICES ASSUME VerifiedBase(nodes, branch, move)
               PROVE  VerifiedBase(after, branch, move)
  BY DEF Verified
<1>2. PICK n \in nodes : /\ n.id = branch /\ n.parent = Root /\ n.move = move
                         /\ n.terminal \/ ChildNodes(nodes, n.id) # {}
  BY <1>1 DEF VerifiedBase
<1>3. PICK m \in after : /\ m.id = n.id /\ m.parent = n.parent
                         /\ m.move = n.move /\ m.terminal = n.terminal
  BY DEF Grows
<1>4. ChildNodes(nodes, n.id) # {} => ChildNodes(after, m.id) # {}
  BY <1>3 DEF ChildNodes, Grows
<1> QED BY <1>2, <1>3, <1>4 DEF VerifiedBase

\* What a tool makes of the tree.
Tooled(call, board, result) ==
    /\ IsBoard(result.board)
    /\ Grows(board.nodes, result.board.nodes)
    /\ (call.tool = "submit_move" /\ result.verdict = "ok") =>
          /\ RequireLegalSan(<<>>, call.move)
          /\ VerifiedBase(result.board.nodes, call.branch, call.move)

LEMMA ThreeTools ==
    ASSUME NEW call, NEW board, IsBoard(board)
    PROVE  Tooled(call, board, Three!ExecuteTool(call, board))
<1> DEFINE result == Three!ExecuteTool(call, board)
<1>1. Grows(board.nodes, board.nodes)
  BY DEF Grows
<1>2. CASE result.board = board /\ result.verdict # "ok"
  BY <1>1, <1>2 DEF Tooled
<1>3. CASE result = Three!SubmitMove(call, board)
  <2>1. result.board = board
    BY <1>3 DEF Three!SubmitMove, Three!Result
  <2>2. ASSUME result.verdict = "ok"
        PROVE  RequireLegalSan(<<>>, call.move) /\ VerifiedBase(board.nodes, call.branch, call.move)
    <3> DEFINE found == Three!FindNode(board.nodes, call.branch)
               n     == Three!The(found)
    <3>1. /\ Three!RequireLegalSan(<<>>, call.move) /\ found # {} /\ n.parent = Three!Root
          /\ n.move = call.move /\ Three!BaseVerificationDone(board.nodes, call.branch)
      BY <1>3, <2>2 DEF Three!SubmitMove, Three!Result
    <3>2. n \in found
      BY <3>1 DEF Three!The
    <3>3. n \in board.nodes /\ n.id = call.branch
      BY <3>2 DEF Three!FindNode
    <3>4. n.terminal \/ ChildNodes(board.nodes, n.id) # {}
      BY <3>1, <3>3 DEF Three!BaseVerificationDone, Three!ChildNodes, ChildNodes
    <3> QED BY <3>1, <3>3, <3>4 DEF VerifiedBase, RequireLegalSan, Three!RequireLegalSan, Root, Three!Root
  <2> QED BY <1>1, <2>1, <2>2 DEF Tooled
<1>4. CASE call.tool # "submit_move" /\ result = Three!PlayMove(call, board)
  <2>1. CASE result.board = board
    BY <1>1, <1>4, <2>1 DEF Tooled
  <2>2. CASE \E branch, active, scratch :
                /\ result.board = [nodes |-> board.nodes \cup {branch}, active |-> active,
                                   scratch |-> scratch]
                /\ branch \in board.nodes \/ NodeFields \subseteq DOMAIN branch
    <3>1. PICK branch, active, scratch :
                /\ result.board = [nodes |-> board.nodes \cup {branch}, active |-> active,
                                   scratch |-> scratch]
                /\ branch \in board.nodes \/ NodeFields \subseteq DOMAIN branch
      BY <2>2
    <3>2. IsBoard(result.board)
      BY <3>1 DEF IsBoard, IsTree
    <3>3. Grows(board.nodes, result.board.nodes)
      BY <3>1 DEF Grows
    <3> QED BY <1>4, <3>2, <3>3 DEF Tooled
  <2>3. ASSUME result.board # board
        PROVE  <2>2!1
    <3> DEFINE move   == Spelling[call.move]
               line   == Append(board.scratch, move)
               child  == Three!FindChild(board.nodes, board.active, move)
               fresh  == [id |-> Three!NextBranchId(board.nodes, board.active),
                          parent |-> board.active, ply |-> Len(line), move |-> move,
                          fen |-> line, terminal |-> line \in Over, note |-> FALSE]
               branch == IF child # {} THEN Three!The(child) ELSE fresh
               nodes  == board.nodes \cup {branch}
    <3>1. result.board = [nodes |-> nodes, active |-> branch.id,
                          scratch |-> Three!MovesToBranch(nodes, branch.id)]
      BY <1>4, <2>3 DEF Three!PlayMove, Three!Result
    <3>2. child # {} => branch \in board.nodes
      BY DEF Three!The, Three!FindChild
    <3>3. NodeFields \subseteq DOMAIN fresh
      BY DEF NodeFields
    <3>4. branch \in board.nodes \/ NodeFields \subseteq DOMAIN branch
      BY <3>2, <3>3
    <3> HIDE DEF branch
    <3> QED BY <3>1, <3>4
  <2> QED BY <2>1, <2>2, <2>3
<1>5. CASE call.tool # "submit_move" /\ result \in {Three!UndoMove(board), Three!ResetBoard(board),
                                                    Three!InspectSquare(call, board)}
  <2>1. \/ result.board = board
        \/ \E active, scratch :
              result.board = [board EXCEPT !.active = active, !.scratch = scratch]
    <3> HIDE DEF result
    <3>1. CASE result = Three!UndoMove(board)
      BY <3>1 DEF Three!UndoMove, Three!Result
    <3>2. CASE result = Three!ResetBoard(board)
      BY <3>2 DEF Three!ResetBoard, Three!Result
    <3>3. CASE result = Three!InspectSquare(call, board)
      BY <3>3 DEF Three!InspectSquare, Three!Result
    <3> QED BY <1>5, <3>1, <3>2, <3>3
  <2>2. DOMAIN result.board = DOMAIN board /\ result.board.nodes = board.nodes
    BY <2>1 DEF IsBoard
  <2> QED BY <1>1, <1>5, <2>2 DEF Tooled, IsBoard
<1>6. CASE call.tool # "submit_move" /\ result = Three!AnnotateBranch(call, board)
  <2> DEFINE found == Three!FindNode(board.nodes, call.branch)
  <2>1. CASE result.board = board
    BY <1>1, <1>6, <2>1 DEF Tooled
  <2>2. CASE result.board = [board EXCEPT !.nodes =
                 (@ \ found) \cup {[n EXCEPT !.note = TRUE] : n \in found}]
    <3>1. /\ DOMAIN result.board = DOMAIN board
          /\ result.board.nodes =
                 (board.nodes \ found) \cup {[n EXCEPT !.note = TRUE] : n \in found}
      BY <2>2 DEF IsBoard
    <3>2. found \subseteq board.nodes
      BY DEF Three!FindNode
    <3>3. \A n \in found : LET m == [n EXCEPT !.note = TRUE]
                           IN  /\ DOMAIN m = DOMAIN n /\ m.id = n.id /\ m.parent = n.parent
                               /\ m.move = n.move /\ m.terminal = n.terminal
      BY <3>2 DEF IsBoard, IsTree, NodeFields
    <3> HIDE DEF found
    <3>4. IsBoard(result.board)
      BY <3>1, <3>2, <3>3 DEF IsBoard, IsTree
    <3>5. Grows(board.nodes, result.board.nodes)
      BY <3>1, <3>3 DEF Grows
    <3> QED BY <1>6, <3>4, <3>5 DEF Tooled
  <2> QED BY <1>6, <2>1, <2>2 DEF Three!AnnotateBranch, Three!Result
<1> HIDE DEF result
<1>7. \/ <1>2!1 \/ <1>3!1 \/ <1>4!1 \/ <1>5!1 \/ <1>6!1
  BY DEF result, Three!ExecuteTool, Three!Result
<1> QED BY <1>2, <1>3, <1>4, <1>5, <1>6, <1>7 DEF result

\* tools.py of the two players is the same text.
LEMMA TwoIsThree ==
    ASSUME NEW call, NEW board
    PROVE  Two!ExecuteCall(call, board) = Three!ExecuteTool(call, board)
<1>1. ASSUME NEW nodes, NEW id
      PROVE  /\ Two!FindNode(nodes, id) = Three!FindNode(nodes, id)
             /\ Two!ChildNodes(nodes, id) = Three!ChildNodes(nodes, id)
             /\ Two!Lineage(nodes, id) = Three!Lineage(nodes, id)
  <2>1. /\ Two!FindNode(nodes, id) = Three!FindNode(nodes, id)
        /\ Two!ChildNodes(nodes, id) = Three!ChildNodes(nodes, id)
    BY DEF Two!FindNode, Two!ChildNodes, Three!FindNode, Three!ChildNodes
  <2>2. Two!Lineage(nodes, id) = Three!Lineage(nodes, id)
    <3>1. Two!Cardinality(nodes) = Three!Cardinality(nodes)
      BY Zenon DEF Two!Cardinality, Three!Cardinality, Two!IsFiniteSet, Three!IsFiniteSet
    <3> QED BY <3>1, Zenon DEF Two!Lineage, Two!The, Two!FindNode, Three!Lineage, Three!The, Three!FindNode
  <2> QED BY <2>1, <2>2
<1>2. ASSUME NEW nodes, NEW id
      PROVE  /\ Two!LineageRaises(nodes, id) <=> Three!LineageRaises(nodes, id)
             /\ Two!MovesToBranch(nodes, id) = Three!MovesToBranch(nodes, id)
             /\ Two!NextBranchId(nodes, id) = Three!NextBranchId(nodes, id)
             /\ Two!BaseVerificationDone(nodes, id) <=> Three!BaseVerificationDone(nodes, id)
             /\ \A move : Two!FindChild(nodes, id, move) = Three!FindChild(nodes, id, move)
  <2>1. Two!LineageRaises(nodes, id) <=> Three!LineageRaises(nodes, id)
    BY <1>1 DEF Two!LineageRaises, Two!Root, Three!LineageRaises, Three!Root
  <2>2. Two!MovesToBranch(nodes, id) = Three!MovesToBranch(nodes, id)
    BY <1>1 DEF Two!MovesToBranch, Three!MovesToBranch
  <2>3. Two!NextBranchId(nodes, id) = Three!NextBranchId(nodes, id)
    BY <1>1, Zenon DEF Two!NextBranchId, Two!ChildNodes, Three!NextBranchId, Three!ChildNodes
  <2>4. Two!BaseVerificationDone(nodes, id) <=> Three!BaseVerificationDone(nodes, id)
    BY <1>1 DEF Two!BaseVerificationDone, Two!The, Three!BaseVerificationDone, Three!The
  <2>5. \A move : Two!FindChild(nodes, id, move) = Three!FindChild(nodes, id, move)
    BY DEF Two!FindChild, Three!FindChild
  <2> QED BY <2>1, <2>2, <2>3, <2>4, <2>5
<1>3. \A line, text : Two!RequireLegalSan(line, text) <=> Three!RequireLegalSan(line, text)
  BY DEF Two!RequireLegalSan, Three!RequireLegalSan
<1>4. Two!SubmitMove(call, board) = Three!SubmitMove(call, board)
  BY <1>1, <1>2, <1>3 DEF Two!SubmitMove, Two!Result, Two!The, Two!Root,
                          Three!SubmitMove, Three!Result, Three!The, Three!Root
<1>5. Two!PlayMove(call, board) = Three!PlayMove(call, board)
  <2> DEFINE active == Two!FindNode(board.nodes, board.active)
             move   == Spelling[call.move]
             child  == Two!FindChild(board.nodes, board.active, move)
  <2>1. /\ active = Three!FindNode(board.nodes, board.active)
        /\ child = Three!FindChild(board.nodes, board.active, move)
        /\ Two!NextBranchId(board.nodes, board.active) = Three!NextBranchId(board.nodes, board.active)
    BY <1>1, <1>2
  <2>2. Two!The(active) = Three!The(active) /\ Two!The(child) = Three!The(child)
    BY Zenon DEF Two!The, Three!The
  <2>3. \A nodes, id : Two!MovesToBranch(nodes, id) = Three!MovesToBranch(nodes, id)
    BY <1>2
  <2> QED BY <1>3, <2>1, <2>2, <2>3 DEF Two!PlayMove, Two!Result, Three!PlayMove, Three!Result
<1>6. /\ Two!UndoMove(board) = Three!UndoMove(board)
      /\ Two!ResetBoard(board) = Three!ResetBoard(board)
      /\ Two!AnnotateBranch(call, board) = Three!AnnotateBranch(call, board)
      /\ Two!InspectSquare(call, board) = Three!InspectSquare(call, board)
  BY <1>1, <1>2 DEF Two!UndoMove, Two!ResetBoard, Two!AnnotateBranch, Two!InspectSquare, Two!Result,
                    Two!The, Two!Root, Three!UndoMove, Three!ResetBoard, Three!AnnotateBranch,
                    Three!InspectSquare, Three!Result, Three!The, Three!Root
<1>7. Two!ExecuteCall(call, board) = Three!ExecuteTool(call, board)
  BY <1>2, <1>4, <1>5, <1>6 DEF Two!ExecuteCall, Two!ExecuteTool, Two!Result,
                                Three!ExecuteTool, Three!Result
<1> QED BY <1>7

LEMMA TwoTools ==
    ASSUME NEW call, NEW board, IsBoard(board)
    PROVE  Tooled(call, board, Two!ExecuteCall(call, board))
<1> QED BY ThreeTools, TwoIsThree

\* The turn as far as the decision and what it rests on go.
SameChoice(t, u) ==
    /\ u.nodes = t.nodes /\ u.decision = t.decision /\ u.branch = t.branch
    /\ u.reports = t.reports /\ u.phase = t.phase

LEMMA SameChoiceDecides ==
    ASSUME NEW t, NEW u, SameChoice(t, u), Decides(t)
    PROVE  Decides(u)
<1> QED BY DEF SameChoice, Decides, ReportsOK

LEMMA PassChoosesNothing ==
    ASSUME IsTurn(turn), Decides(turn), NEW answer
    PROVE  Decides(ModelPass(answer).turn)
<1> USE DEF IsTurn, TurnFields, SameChoice
<1>1. SameChoice(turn, Three!ModelPass(turn, answer).turn)
  BY DEF Three!ModelPass, Three!Retry, Three!Raised, Three!Goes, Three!Retries, Three!Submits
<1>2. SameChoice(turn, Two!ModelPass(turn, answer).turn)
  BY DEF Two!ModelPass, Two!Retry, Two!Raised, Two!Goes, Two!Retries, Two!Submits
<1>3. SameChoice(turn, One!ModelPass(turn, answer).turn)
  BY DEF One!ModelPass, One!Retry, One!Raised, One!Goes, One!Retries, One!Submits
<1>4. SameChoice(turn, Base!Decide(turn, answer).turn)
  BY DEF Base!Decide, Base!Raised, Base!Goes, Base!Retries
<1>5. SameChoice(turn, ModelPass(answer).turn)
  <2> HIDE DEF SameChoice
  <2> QED BY <1>1, <1>2, <1>3, <1>4 DEF ModelPass
<1> QED BY <1>5, SameChoiceDecides

LEMMA RejectChoosesNothing ==
    ASSUME IsTurn(work.turn), Decides(work.turn)
    PROVE  Decides(Reject.turn)
<1> DEFINE t == work.turn
<1> USE DEF IsTurn, TurnFields, SameChoice
<1>1. SameChoice(t, Three!RejectBatch(t).turn)
  BY DEF Three!RejectBatch, Three!CompleteStep, Three!Raised, Three!Goes
<1>2. SameChoice(t, Two!RejectBatch(t).turn)
  BY DEF Two!RejectBatch, Two!Raised, Two!Goes
<1>3. SameChoice(t, One!RejectCall(t).turn)
  BY DEF One!RejectCall, One!Raised, One!Goes
<1>4. SameChoice(t, Base!RejectMove(t).turn)
  BY DEF Base!RejectMove, Base!Raised, Base!Goes
<1>5. SameChoice(t, Reject.turn)
  <2> HIDE DEF SameChoice
  <2> QED BY <1>1, <1>2, <1>3, <1>4 DEF Reject
<1> QED BY <1>5, SameChoiceDecides

\* What a batch commits was verified on the board it commits.
LEMMA CommitDecides ==
    ASSUME NEW t, IsTurn(t), Decides(t), NEW b, IsBoard(b), NEW d, NEW br, Verified(d, br, b.nodes)
    PROVE  /\ harness = "three" => Decides(Three!CommitBatch(t, b, d, br).turn)
           /\ harness = "two" => Decides(Two!CommitBatch(t, b, d, br).turn)
           /\ harness = "one" => Decides(One!CommitCall(t, b, d).turn)
           /\ harness \notin {"one", "two", "three"} => Decides(Base!AcceptMove(t, d).turn)
<1> USE DEF IsTurn, TurnFields
<1>1. ASSUME harness = "three"
      PROVE  Decides(Three!CommitBatch(t, b, d, br).turn)
  <2> DEFINE u == Three!CommitBatch(t, b, d, br).turn
  <2>1. u.nodes = b.nodes /\ u.decision = d /\ u.branch = br
    BY DEF Three!CommitBatch, Three!CompleteStep, Three!Goes
  <2> HIDE DEF u
  <2> QED BY <1>1, <2>1 DEF Decides, ReportsOK, IsBoard, u
<1>2. ASSUME harness = "two"
      PROVE  Decides(Two!CommitBatch(t, b, d, br).turn)
  <2> DEFINE u == Two!CommitBatch(t, b, d, br).turn
  <2>1. u.nodes = b.nodes /\ u.decision = d /\ u.branch = br
    BY DEF Two!CommitBatch, Two!Goes
  <2> HIDE DEF u
  <2> QED BY <1>2, <2>1 DEF Decides, ReportsOK, IsBoard, u
<1>3. ASSUME harness = "one"
      PROVE  Decides(One!CommitCall(t, b, d).turn)
  <2> DEFINE u == One!CommitCall(t, b, d).turn
             later == IF t.phase = "defense" THEN "attack" ELSE "synthesis"
             report == t.pending[1].tool = One!TerminalTool(t.phase)
  <2>1. CASE ~report
    <3>1. SameChoice(t, u)
      BY <2>1 DEF SameChoice, One!CommitCall, One!Goes
    <3> QED BY <3>1, SameChoiceDecides
  <2>2. CASE report /\ t.phase = "synthesis"
    <3>1. /\ u.nodes = t.nodes /\ u.decision = d /\ u.phase = t.phase /\ u.reports = t.reports
      BY <2>2 DEF One!CommitCall, One!Goes
    <3> HIDE DEF u
    <3> QED BY <1>3, <2>2, <3>1 DEF Decides, ReportsOK, Verified, Batched, u
  <2>3. CASE report /\ t.phase # "synthesis"
    <3>1. u = [One!PhaseState(later) EXCEPT !.reports = t.reports \cup {t.phase}]
      BY <2>3 DEF One!CommitCall, One!Goes
    <3>2. /\ u.nodes = {} /\ u.decision = NoMove /\ u.phase = later
          /\ u.reports = t.reports \cup {t.phase}
      BY <3>1 DEF One!PhaseState
    <3> HIDE DEF u
    <3> QED BY <1>3, <2>3, <3>2 DEF Decides, ReportsOK, Verified, IsTree, u
  <2> QED BY <2>1, <2>2, <2>3
<1>4. ASSUME harness \notin {"one", "two", "three"}
      PROVE  Decides(Base!AcceptMove(t, d).turn)
  <2> DEFINE u == Base!AcceptMove(t, d).turn
  <2>1. u.nodes = t.nodes /\ u.decision = d
    BY DEF Base!AcceptMove, Base!Goes
  <2> HIDE DEF u
  <2> QED BY <1>4, <2>1 DEF Decides, ReportsOK, Verified, Batched, u
<1> QED BY <1>1, <1>2, <1>3, <1>4

\* A tool keeps what was decided verified, and accepts only verified moves.
LEMMA ToolsVerify ==
    ASSUME NEW call, NEW board, IsBoard(board), NEW move, NEW branch,
           Verified(move, branch, board.nodes)
    PROVE  LET result == Execute(call, board)
           IN  /\ IsBoard(result.board)
               /\ Verified(move, branch, result.board.nodes)
               /\ call.tool = "submit_move" /\ result.verdict = "ok" =>
                     Verified(call.move, call.branch, result.board.nodes)
<1> DEFINE result == Execute(call, board)
<1>1. CASE Batched
  <2>1. Tooled(call, board, result)
    BY <1>1, ThreeTools, TwoTools DEF Execute, Batched
  <2> HIDE DEF result
  <2>2. Verified(move, branch, result.board.nodes)
    BY <2>1, GrownKeepsVerified DEF Tooled
  <2> QED BY <2>1, <2>2 DEF Tooled, Verified, result
<1>2. CASE harness = "one"
  <2>1. /\ DOMAIN result.board = DOMAIN board /\ result.board.nodes = board.nodes
        /\ call.tool = "submit_move" /\ result.verdict = "ok" => One!RequireLegalSan(<<>>, call.move)
    BY <1>2 DEF Execute, One!ExecuteTool, IsBoard
  <2> HIDE DEF result
  <2> QED BY <1>2, <2>1 DEF IsBoard, Verified, Batched, RequireLegalSan, One!RequireLegalSan, result
<1>3. CASE harness \notin {"one", "two", "three"}
  <2>1. /\ result.board = board
        /\ result.verdict = "ok" => Base!RequireLegalSan(<<>>, call.move)
    BY <1>3 DEF Execute, Base!SubmitMove
  <2> HIDE DEF result
  <2> QED BY <1>3, <2>1 DEF Verified, Batched, RequireLegalSan, Base!RequireLegalSan, result
<1> QED BY <1>1, <1>2, <1>3 DEF Batched

LEMMA VerdictsKnown ==
    ASSUME NEW call, NEW board
    PROVE  Execute(call, board).verdict \in {"ok", "rejected", "raised"}
<1>1. Three!ExecuteTool(call, board).verdict \in {"ok", "rejected", "raised"}
  BY DEF Three!ExecuteTool, Three!SubmitMove, Three!PlayMove, Three!UndoMove, Three!ResetBoard,
         Three!AnnotateBranch, Three!InspectSquare, Three!Result
<1>2. Two!ExecuteCall(call, board).verdict \in {"ok", "rejected", "raised"}
  BY DEF Two!ExecuteCall, Two!ExecuteTool, Two!SubmitMove, Two!PlayMove, Two!UndoMove,
         Two!ResetBoard, Two!AnnotateBranch, Two!InspectSquare, Two!Result
<1>3. One!ExecuteTool(call, board).verdict \in {"ok", "rejected", "raised"}
  BY DEF One!ExecuteTool
<1>4. Base!SubmitMove(call, board).verdict \in {"ok", "rejected", "raised"}
  BY DEF Base!SubmitMove
<1> QED BY <1>1, <1>2, <1>3, <1>4 DEF Execute

\* A state in which no batch runs and nothing was moved keeps its choice.
LEMMA DecisionRests ==
    ASSUME UNCHANGED harness, NEW t, Decides(t), turn' = t, pc' # "batch",
           outcome' = "moved" => pc' = "done" /\ t.decision # NoMove
    PROVE  DecisionOK'
<1>1. Decides(turn)' = Decides(t)
  BY DEF Decides, IsTree, Verified, Batched, ReportsOK
<1> QED BY <1>1 DEF DecisionOK

LEMMA DecisionBatch ==
    ASSUME UNCHANGED <<harness, turn>>, Decides(turn), outcome' # "moved",
           NEW t, Decides(t), NEW b, IsBoard(b), NEW d, NEW br, Verified(d, br, b.nodes),
           WorkFields \subseteq DOMAIN work',
           work'.turn = t, work'.board = b, work'.decision = d, work'.branch = br
    PROVE  DecisionOK'
<1>1. Decides(turn)' = Decides(turn)
  BY DEF Decides, IsTree, Verified, Batched, ReportsOK
<1>2. Decides(work.turn)' = Decides(t)
  BY DEF Decides, IsTree, Verified, Batched, ReportsOK
<1>3. IsBoard(work.board)' = IsBoard(b)
  BY DEF IsBoard, IsTree
<1>4. Verified(work.decision, work.branch, work.board.nodes)' = Verified(d, br, b.nodes)
  BY DEF Verified, Batched
<1> QED BY <1>1, <1>2, <1>3, <1>4 DEF DecisionOK

LEMMA DecisionStarts ==
    ASSUME UNCHANGED <<harness, turn>>, Decides(turn), outcome' # "moved",
           NEW t, Decides(t), NEW inline, work' = StartWork(t, inline)
    PROVE  DecisionOK'
<1> DEFINE b == Board(t)
<1>1. IsBoard(b) /\ Verified(NoMove, Root, b.nodes)
  BY DEF Board, IsBoard, Decides, Verified
<1>2. /\ work'.turn = t /\ work'.board = b
      /\ work'.decision = NoMove /\ work'.branch = Root
      /\ WorkFields \subseteq DOMAIN work'
  BY DEF StartWork, WorkFields
<1> HIDE DEF b
<1> QED BY <1>1, <1>2, DecisionBatch

LEMMA AbortDecides ==
    ASSUME DecisionOK, UNCHANGED harness, pc # "done", NEW reason, reason # "moved",
           NEW after, NEW rollback, Aborts(reason, after, rollback)
    PROVE  DecisionOK'
<1>1. Decides(turn) /\ outcome # "moved"
  BY DEF DecisionOK
<1>2. turn' = turn /\ pc' = "done" /\ outcome' # "moved"
  BY <1>1 DEF Aborts
<1> DEFINE t == turn
<1>3. Decides(t) /\ turn' = t
  BY <1>1, <1>2
<1> HIDE DEF t
<1> QED BY <1>2, <1>3, DecisionRests

LEMMA ReturnDecides ==
    ASSUME DecisionOK, UNCHANGED harness, pc # "done", node \in DOMAIN Edges,
           NEW after, Decides(after), Returns(node, after)
    PROVE  DecisionOK'
<1>1. Decides(turn) /\ outcome # "moved"
  BY DEF DecisionOK
<1>2. turn' \in {turn, after} /\ pc' \in {"node", "done"} /\ outcome' \in {outcome, "broken"}
  BY ReturnLeads
<1>3. CASE turn' = after
  BY <1>1, <1>2, <1>3, DecisionRests
<1>4. CASE turn' = turn
  <2> DEFINE t == turn
  <2>1. Decides(t) /\ turn' = t
    BY <1>1, <1>4
  <2> HIDE DEF t
  <2> QED BY <1>1, <1>2, <2>1, DecisionRests
<1> QED BY <1>2, <1>3, <1>4

LEMMA CallDecides ==
    ASSUME LoopOK, DecisionOK, CallTool
    PROVE  DecisionOK'
<1> DEFINE item   == Head(work.left)
           result == Execute(item.call, work.board)
<1>1. /\ pc = "batch" /\ UNCHANGED harness /\ node \in DOMAIN Edges /\ IsTurn(work.turn)
      /\ Decides(turn) /\ Decides(work.turn) /\ IsBoard(work.board)
      /\ Verified(work.decision, work.branch, work.board.nodes) /\ outcome # "moved"
  BY DEF CallTool, LoopOK, DecisionOK
<1>2. CASE \E reason, after, rollback : reason # "moved" /\ Aborts(reason, after, rollback)
  BY <1>1, <1>2, AbortDecides
<1>3. CASE result.verdict = "raised" \/ (result.verdict = "ok" /\ cancelled)
  BY <1>2, <1>3 DEF CallTool
<1>4. CASE result.verdict = "rejected"
  <2>1. CASE Reject.tag = "raised"
    BY <1>2, <1>4, <2>1 DEF CallTool
  <2>2. CASE Reject.tag # "raised"
    <3>1. Returns(node, Reject.turn)
      BY <1>4, <2>2 DEF CallTool
    <3> QED BY <1>1, <3>1, RejectChoosesNothing, ReturnDecides
  <2> QED BY <2>1, <2>2
<1>5. CASE result.verdict = "ok" /\ ~cancelled
  <2> DEFINE submit == item.call.tool = "submit_move"
             d      == IF submit THEN item.call.move ELSE work.decision
             br     == IF submit THEN item.call.branch ELSE work.branch
             t      == work.turn
  <2>1. /\ work' = [work EXCEPT !.left = Tail(@), !.ran = @ \cup {item.index},
                                !.board = result.board,
                                !.decision = IF submit THEN item.call.move ELSE @,
                                !.branch = IF submit THEN item.call.branch ELSE @]
        /\ UNCHANGED <<pc, node, turn, outcome>>
    BY <1>5 DEF CallTool
  <2>2. IsBoard(result.board) /\ Verified(d, br, result.board.nodes)
    BY <1>1, <1>5, ToolsVerify
  <2>3. WorkFields \subseteq DOMAIN work
    BY <1>1 DEF DecisionOK
  <2> HIDE DEF result, item
  <2>4. /\ work'.turn = t /\ work'.board = result.board
        /\ work'.decision = d /\ work'.branch = br
        /\ WorkFields \subseteq DOMAIN work'
    BY <2>1, <2>3 DEF WorkFields
  <2>5. Decides(t) /\ outcome' # "moved"
    BY <1>1, <2>1
  <2> HIDE DEF t, d, br
  <2> QED BY <1>1, <2>1, <2>2, <2>4, <2>5, DecisionBatch
<1>6. result.verdict \in {"ok", "rejected", "raised"}
  BY VerdictsKnown
<1> QED BY <1>3, <1>4, <1>5, <1>6

LEMMA ReceiveDecides ==
    ASSUME LoopOK, DecisionOK, NEW answer \in Answers, ReceiveAnswer(answer)
    PROVE  DecisionOK'
<1> DEFINE heard  == Recorded(Listed(Exchanged(answer), answer.calls))
           passed == ModelPass(answer)
<1>1. /\ pc = "waiting" /\ UNCHANGED harness /\ node \in DOMAIN Edges /\ IsTurn(turn) /\ MayAsk
      /\ Decides(turn) /\ outcome # "moved"
  BY DEF ReceiveAnswer, LoopOK, DecisionOK
<1>2. Decides(passed.turn)
  BY <1>1, PassChoosesNothing
<1>3. CASE \E reason : reason # "moved" /\ Aborts(reason, heard, FALSE)
  <2> HIDE DEF heard
  <2> QED BY <1>1, <1>3, AbortDecides
<1>4. CASE Returns(node, passed.turn)
  <2> HIDE DEF passed
  <2> QED BY <1>1, <1>2, <1>4, ReturnDecides
<1>5. CASE work' = StartWork(passed.turn, TRUE) /\ UNCHANGED <<turn, outcome>>
  <2> HIDE DEF passed
  <2> QED BY <1>1, <1>2, <1>5, DecisionStarts
<1>6. passed.tag \in {"raised", "goes", "submits"}
  BY <1>1, PassCounts DEF Counts
<1> QED BY <1>3, <1>4, <1>5, <1>6 DEF ReceiveAnswer

LEMMA DecisionKept ==
    ASSUME LoopOK, DecisionOK, [Next]_vars
    PROVE  DecisionOK'
<1>1. CASE RequestPass
  <2>1. pc = "node" /\ UNCHANGED harness /\ Decides(turn) /\ outcome # "moved"
    BY <1>1 DEF RequestPass, DecisionOK
  <2>2. CASE \E reason, after, rollback : reason # "moved" /\ Aborts(reason, after, rollback)
    BY <2>1, <2>2, AbortDecides
  <2>3. CASE pc' = "waiting" /\ UNCHANGED <<turn, outcome>>
    <3> DEFINE t == turn
    <3>1. Decides(t) /\ turn' = t
      BY <2>1, <2>3
    <3> HIDE DEF t
    <3> QED BY <2>1, <2>3, <3>1, DecisionRests
  <2> QED BY <1>1, <2>2, <2>3 DEF RequestPass
<1>2. CASE \E answer \in Answers : ReceiveAnswer(answer)
  BY <1>2, ReceiveDecides
<1>3. CASE RunTools
  <2>1. pc = "node" /\ UNCHANGED harness /\ Decides(turn) /\ outcome # "moved"
    BY <1>3 DEF RunTools, DecisionOK
  <2>2. CASE \E reason, after, rollback : reason # "moved" /\ Aborts(reason, after, rollback)
    BY <2>1, <2>2, AbortDecides
  <2>3. CASE work' = StartWork(turn, FALSE) /\ UNCHANGED <<turn, outcome>>
    BY <2>1, <2>3, DecisionStarts
  <2>4. IF OutOfSteps THEN Aborts("recursion", row, FALSE)
        ELSE IF cancelled \/ turn.pending = <<>>
        THEN Aborts(IF cancelled THEN "cancelled" ELSE "broken", row, Batched /\ turn.pending # <<>>)
        ELSE <2>3!1
    BY <1>3 DEF RunTools
  <2> QED BY <2>2, <2>3, <2>4
<1>4. CASE CallTool
  BY <1>4, CallDecides
<1>5. CASE FinishBatch
  <2>1. /\ pc = "batch" /\ UNCHANGED harness /\ Returns(node, Commit.turn)
        /\ node \in DOMAIN Edges /\ IsTurn(work.turn)
    BY <1>5 DEF FinishBatch, LoopOK
  <2>2. Decides(Commit.turn)
    BY <2>1, CommitDecides DEF Commit, DecisionOK
  <2> QED BY <2>1, <2>2, ReturnDecides
<1>6. CASE EndTurn
  <2>1. pc = "node" /\ UNCHANGED harness /\ Decides(turn)
    BY <1>6 DEF EndTurn, DecisionOK
  <2>2. CASE turn.decision = NoMove
    BY <1>6, <2>1, <2>2, AbortDecides DEF EndTurn
  <2>3. CASE turn.decision # NoMove
    <3> DEFINE t == turn
    <3>1. Decides(t) /\ turn' = t /\ pc' = "done" /\ t.decision # NoMove
      BY <1>6, <2>1, <2>3 DEF EndTurn
    <3> HIDE DEF t
    <3> QED BY <2>1, <3>1, DecisionRests
  <2> QED BY <2>2, <2>3
<1>7. CASE Cancel \/ UNCHANGED vars \/ Interrupt
  <2>1. /\ UNCHANGED <<harness, turn, work>>
        /\ pc' = "batch" => pc = "batch"
        /\ outcome' = "moved" => outcome = "moved" /\ UNCHANGED pc
    BY <1>7 DEF Cancel, vars, Interrupt
  <2>2. Decides(turn)' = Decides(turn) /\ Decides(work.turn)' = Decides(work.turn)
    BY <2>1 DEF Decides, IsTree, Verified, Batched, ReportsOK
  <2>3. IsBoard(work.board)' = IsBoard(work.board)
    BY <2>1 DEF IsBoard, IsTree
  <2>4. Verified(work.decision, work.branch, work.board.nodes)'
           = Verified(work.decision, work.branch, work.board.nodes)
    BY <2>1 DEF Verified, Batched
  <2>5. (WorkFields \subseteq DOMAIN work)' <=> WorkFields \subseteq DOMAIN work
    BY <2>1 DEF WorkFields
  <2> QED BY <2>1, <2>2, <2>3, <2>4, <2>5 DEF DecisionOK
<1> QED BY <1>1, <1>2, <1>3, <1>4, <1>5, <1>6, <1>7 DEF Next

LEMMA DecisionBegins ==
    ASSUME Init
    PROVE  DecisionOK
<1>1. turn.nodes = {} /\ turn.decision = NoMove /\ turn.reports = {}
  BY DEF Init, InitialTurn, Three!InitialTurn, Two!InitialTurn, One!InitialTurn,
         Base!InitialTurn, PhaseState, Three!PhaseState, Two!PhaseState,
         One!PhaseState, Base!PhaseState
<1>2. harness = "one" => turn.phase = "defense"
  BY DEF Init, InitialTurn, One!InitialTurn, One!PhaseState
<1>3. Decides(turn)
  BY <1>1, <1>2 DEF Decides, IsTree, Verified, ReportsOK
<1> QED BY <1>3 DEF Init, DecisionOK

\* A turn that ends with a move ends with a legal one: players 2 and 3 have
\* tested a reply to it, or ended the game by it, in the tree they committed,
\* and player 1 has written both of its reports.
THEOREM DecisionsAreVerified == Spec => []DecisionIsVerified
<1>1. Init => LoopOK /\ RecordOK /\ DecisionOK
  BY InitKeeps, DecisionBegins
<1>2. LoopOK /\ RecordOK /\ DecisionOK /\ [Next]_vars => (LoopOK /\ RecordOK /\ DecisionOK)'
  BY StepKeeps, DecisionKept DEF Kept
<1>3. DecisionOK => DecisionIsVerified
  BY DEF DecisionOK, DecisionIsVerified, Decides, Verified, VerifiedBase, ReportsOK
<1> QED BY <1>1, <1>2, <1>3, PTL DEF Spec


----------------------------------------------------------------------------
(* The boards of a turn, and where its nodes lead.                         *)

\* Player 1 keeps a stack of moves: every part of it can be played.
PlayedLine(s) == s \in Seq(Moves) /\ \A i \in 0 .. Len(s) : SubSeq(s, 1, i) \in Plays

GoodBoard(b) ==
    IF Batched THEN SoundBoard(b)
    ELSE /\ DOMAIN b = {"nodes", "active", "scratch"}
         /\ b.nodes = {} /\ b.active = Root /\ PlayedLine(b.scratch)

Budgeted(t) ==
    /\ t.toolCalls \in 0 .. MaxToolCalls
    /\ t.rejected \in 0 .. MaxFailedTools - 1
    /\ t.errors \in 0 .. MaxProtocolRetries

Homes == IF Batched THEN {"synthesis"}
         ELSE IF harness = "one" THEN {"defense", "attack", "synthesis"}
         ELSE {"decide"}

ToolsOf(phase) == CASE phase = "defense"   -> "defense_tools"
                    [] phase = "attack"    -> "attack_tools"
                    [] phase = "synthesis" -> "synthesis_tools"
                    [] OTHER               -> "validate_submission"

\* A tool node has a batch to run; player 1 ends a phase in the phase itself.
HasTools(t) ==
    /\ t.pending # <<>>
    /\ harness = "one" => t.pending[1].tool # One!TerminalTool(t.phase)

Fit(t) == IsTurn(t) /\ GoodBoard(Board(t)) /\ Budgeted(t) /\ t.phase \in Homes

PlaysOK ==
    /\ Fit(turn)
    /\ outcome # "broken"
    /\ pc = "node" => \/ node \in {"end", turn.phase}
                      \/ node = ToolsOf(turn.phase) /\ HasTools(turn)
    /\ pc = "waiting" => node = turn.phase
    /\ pc = "batch" => /\ DOMAIN work = {"turn", "left", "ran", "board", "decision", "branch", "inline"}
                       /\ Fit(work.turn)
                       /\ GoodBoard(work.board)
                       /\ \/ node = work.turn.phase /\ (Batched \/ harness = "one")
                          \/ node = ToolsOf(work.turn.phase) /\ HasTools(work.turn)


----------------------------------------------------------------------------
(* The tools and the prompt of players 2 and 3.                            *)

\* ChessTools, taken twice, is ChessTools.
LEMMA SameTools ==
    ASSUME NEW call, NEW board
    PROVE  /\ Two!ExecuteCall(call, board) = ExecuteTool(call, board)
           /\ Three!ExecuteTool(call, board) = ExecuteTool(call, board)
<1>1. ASSUME NEW nodes, NEW id
      PROVE  /\ FindNode(nodes, id) = Three!FindNode(nodes, id)
             /\ ChildNodes(nodes, id) = Three!ChildNodes(nodes, id)
             /\ Lineage(nodes, id) = Three!Lineage(nodes, id)
  <2>1. /\ FindNode(nodes, id) = Three!FindNode(nodes, id)
        /\ ChildNodes(nodes, id) = Three!ChildNodes(nodes, id)
    BY DEF FindNode, ChildNodes, Three!FindNode, Three!ChildNodes
  <2>2. Lineage(nodes, id) = Three!Lineage(nodes, id)
    <3>1. Cardinality(nodes) = Three!Cardinality(nodes)
      BY Zenon DEF Cardinality, Three!Cardinality, IsFiniteSet, Three!IsFiniteSet
    <3> QED BY <3>1, Zenon DEF Lineage, The, FindNode, Three!Lineage, Three!The, Three!FindNode
  <2> QED BY <2>1, <2>2
<1>2. ASSUME NEW nodes, NEW id
      PROVE  /\ LineageRaises(nodes, id) <=> Three!LineageRaises(nodes, id)
             /\ MovesToBranch(nodes, id) = Three!MovesToBranch(nodes, id)
             /\ NextBranchId(nodes, id) = Three!NextBranchId(nodes, id)
             /\ BaseVerificationDone(nodes, id) <=> Three!BaseVerificationDone(nodes, id)
             /\ \A move : FindChild(nodes, id, move) = Three!FindChild(nodes, id, move)
  <2>1. LineageRaises(nodes, id) <=> Three!LineageRaises(nodes, id)
    BY <1>1 DEF LineageRaises, Root, Three!LineageRaises, Three!Root
  <2>2. MovesToBranch(nodes, id) = Three!MovesToBranch(nodes, id)
    BY <1>1 DEF MovesToBranch, Three!MovesToBranch
  <2>3. NextBranchId(nodes, id) = Three!NextBranchId(nodes, id)
    BY <1>1, Zenon DEF NextBranchId, ChildNodes, Three!NextBranchId, Three!ChildNodes
  <2>4. BaseVerificationDone(nodes, id) <=> Three!BaseVerificationDone(nodes, id)
    BY <1>1 DEF BaseVerificationDone, The, Three!BaseVerificationDone, Three!The
  <2>5. \A move : FindChild(nodes, id, move) = Three!FindChild(nodes, id, move)
    BY DEF FindChild, Three!FindChild
  <2> QED BY <2>1, <2>2, <2>3, <2>4, <2>5
<1>3. \A line, text : RequireLegalSan(line, text) <=> Three!RequireLegalSan(line, text)
  BY DEF RequireLegalSan, Three!RequireLegalSan
<1>4. SubmitMove(call, board) = Three!SubmitMove(call, board)
  BY <1>1, <1>2, <1>3 DEF SubmitMove, Result, The, Root,
                          Three!SubmitMove, Three!Result, Three!The, Three!Root
<1>5. PlayMove(call, board) = Three!PlayMove(call, board)
  <2> DEFINE active == FindNode(board.nodes, board.active)
             move   == Spelling[call.move]
             child  == FindChild(board.nodes, board.active, move)
  <2>1. /\ active = Three!FindNode(board.nodes, board.active)
        /\ child = Three!FindChild(board.nodes, board.active, move)
        /\ NextBranchId(board.nodes, board.active) = Three!NextBranchId(board.nodes, board.active)
    BY <1>1, <1>2
  <2>2. The(active) = Three!The(active) /\ The(child) = Three!The(child)
    BY Zenon DEF The, Three!The
  <2>3. \A nodes, id : MovesToBranch(nodes, id) = Three!MovesToBranch(nodes, id)
    BY <1>2
  <2> QED BY <1>3, <2>1, <2>2, <2>3 DEF PlayMove, Result, Three!PlayMove, Three!Result
<1>6. /\ UndoMove(board) = Three!UndoMove(board)
      /\ ResetBoard(board) = Three!ResetBoard(board)
      /\ AnnotateBranch(call, board) = Three!AnnotateBranch(call, board)
      /\ InspectSquare(call, board) = Three!InspectSquare(call, board)
  BY <1>1, <1>2 DEF UndoMove, ResetBoard, AnnotateBranch, InspectSquare, Result,
                    The, Root, Three!UndoMove, Three!ResetBoard, Three!AnnotateBranch,
                    Three!InspectSquare, Three!Result, Three!The, Three!Root
<1>7. ExecuteTool(call, board) = Three!ExecuteTool(call, board)
  BY <1>2, <1>4, <1>5, <1>6 DEF ExecuteTool, Result,
                                Three!ExecuteTool, Three!Result
<1>8. Two!ExecuteCall(call, board) = Three!ExecuteTool(call, board)
  BY TwoIsThree
<1> QED BY <1>7, <1>8

\* Two is TurnPrompt too.
LEMMA PromptStands ==
    ASSUME NEW t, SoundBoard(Board(t))
    PROVE  ~BuildPromptRaises(t) /\ ~Two!PromptRaises(t)
<1> DEFINE b == Board(t)
<1>1. SoundTree(t.nodes) /\ t.scratch \in Plays
  <2>1. b.nodes = t.nodes /\ b.scratch = t.scratch
    BY DEF Board
  <2>2. SoundTree(b.nodes) /\ b.scratch \in Plays
    <3> HIDE DEF b
    <3>1. SoundBoard(b)
      BY DEF b
    <3> QED BY <3>1, ScratchIsLine, GameAssumption DEF SoundBoard
  <2> QED BY <2>1, <2>2
<1>2. ~PreorderRaises(t.nodes)
  BY <1>1, SoundLines
<1>3. ~BuildPromptRaises(t)
  BY <1>1, <1>2 DEF BuildPromptRaises, BoardStateRaises, BoardForSourceRaises, SectionShown,
                    TestedLinesRaise, ForcedRetryRaises
<1>4. \A nodes, id : Two!Lineage(nodes, id) = Lineage(nodes, id)
  <2> SUFFICES ASSUME NEW nodes, NEW id
               PROVE  Two!Lineage(nodes, id) = Lineage(nodes, id)
    OBVIOUS
  <2>1. Two!Cardinality(nodes) = Cardinality(nodes)
    BY Zenon DEF Two!Cardinality, Cardinality, Two!IsFiniteSet, IsFiniteSet
  <2> QED BY <2>1, Zenon DEF Two!Lineage, Two!The, Two!FindNode, Lineage, The, FindNode
<1>5. ~Two!PreorderRaises(t.nodes)
  BY <1>2, <1>4 DEF PreorderRaises, Two!PreorderRaises, Root, Two!Root
<1>6. ~Two!PromptRaises(t)
  BY <1>1, <1>5 DEF Two!PromptRaises, Two!BuildPromptRaises, Two!BoardStateRaises,
                    Two!BoardForSourceRaises, Two!SectionShown, Two!TestedLinesRaise,
                    Two!ForcedRetryRaises
<1> QED BY <1>3, <1>6

LEMMA EmptyLine == PlayedLine(<<>>)
<1>1. SubSeq(<<>>, 1, 0) = <<>>
  OBVIOUS
<1>2. \A i \in 0 .. Len(<<>>) : SubSeq(<<>>, 1, i) \in Plays
  <2>1. \A i \in 0 .. Len(<<>>) : i = 0
    OBVIOUS
  <2> QED BY <1>1, <2>1, GameAssumption
<1> QED BY <1>2 DEF PlayedLine

\* A line one move shorter, or one move longer, is a line of the game.
LEMMA LinesOfOne ==
    ASSUME NEW s, PlayedLine(s)
    PROVE  /\ s \in Plays /\ PlayedLine(<<>>)
           /\ \A move \in Moves : Append(s, move) \in Plays => PlayedLine(Append(s, move))
           /\ s # <<>> => PlayedLine(SubSeq(s, 1, Len(s) - 1))
<1>1. s \in Seq(Moves) /\ Len(s) \in Nat /\ \A i \in 0 .. Len(s) : SubSeq(s, 1, i) \in Plays
  BY DEF PlayedLine
<1>2. s \in Plays
  <2>1. SubSeq(s, 1, Len(s)) = s
    BY <1>1
  <2>2. Len(s) \in 0 .. Len(s)
    BY <1>1
  <2>3. SubSeq(s, 1, Len(s)) \in Plays
    BY <1>1, <2>2
  <2> QED BY <2>1, <2>3
<1>3. PlayedLine(<<>>)
  BY EmptyLine
<1>4. ASSUME NEW move \in Moves, Append(s, move) \in Plays
      PROVE  PlayedLine(Append(s, move))
  <2> DEFINE r == Append(s, move)
  <2>1. r \in Seq(Moves) /\ Len(r) = Len(s) + 1 /\ \A i \in 1 .. Len(s) : r[i] = s[i]
    BY <1>1, AppendProperties
  <2>2. ASSUME NEW i \in 0 .. Len(s)
        PROVE  SubSeq(r, 1, i) = SubSeq(s, 1, i)
    <3> HIDE DEF r
    <3> QED BY <1>1, <2>1
  <2>3. SubSeq(r, 1, Len(s) + 1) = r
    <3> HIDE DEF r
    <3> QED BY <1>1, <2>1
  <2>4. r \in Plays
    BY <1>4
  <2> HIDE DEF r
  <2>5. ASSUME NEW i \in 0 .. Len(r)
        PROVE  SubSeq(r, 1, i) \in Plays
    <3>1. CASE i = Len(s) + 1
      BY <2>3, <2>4, <3>1
    <3>2. CASE i \in 0 .. Len(s)
      BY <1>1, <2>2, <3>2
    <3> QED BY <1>1, <2>1, <3>1, <3>2
  <2>6. PlayedLine(r)
    BY <2>1, <2>5 DEF PlayedLine
  <2> QED BY <2>6 DEF r
<1>5. ASSUME s # <<>>
      PROVE  PlayedLine(SubSeq(s, 1, Len(s) - 1))
  <2> DEFINE r == SubSeq(s, 1, Len(s) - 1)
  <2>1. Len(s) \in Nat \ {0}
    BY <1>1, <1>5
  <2>2. r \in Seq(Moves) /\ Len(r) = Len(s) - 1 /\ \A i \in 1 .. Len(s) - 1 : r[i] = s[i]
    <3>1. \A i \in 1 .. Len(s) - 1 : s[i] \in Moves
      BY <1>1, <2>1
    <3> DEFINE k == Len(s) - 1
    <3>2. k \in Nat /\ \A i \in 1 .. k : s[i] \in Moves
      BY <2>1, <3>1
    <3> HIDE DEF k
    <3>3. k \in Int /\ (IF 1 <= k THEN k - 1 + 1 ELSE 0) = k /\ k - 1 + 1 = k
      BY <3>2
    <3>4. /\ SubSeq(s, 1, k) \in Seq(Moves)
          /\ Len(SubSeq(s, 1, k)) = k
          /\ \A i \in 1 .. k : SubSeq(s, 1, k)[i] = s[1 + i - 1]
      BY <3>2, <3>3, SubSeqProperties
    <3>5. \A i \in 1 .. k : s[1 + i - 1] = s[i]
      BY <3>2
    <3>6. r = SubSeq(s, 1, k) /\ k = Len(s) - 1
      BY DEF k
    <3> QED BY <3>4, <3>5, <3>6
  <2>3. ASSUME NEW i \in 0 .. Len(s) - 1
        PROVE  SubSeq(r, 1, i) = SubSeq(s, 1, i)
    <3> HIDE DEF r
    <3> QED BY <1>1, <2>1, <2>2
  <2> HIDE DEF r
  <2>4. \A i \in 0 .. Len(r) : SubSeq(s, 1, i) \in Plays
    BY <1>1, <2>1, <2>2
  <2>5. PlayedLine(r)
    BY <2>2, <2>3, <2>4 DEF PlayedLine
  <2> QED BY <2>5 DEF r
<1> QED BY <1>2, <1>3, <1>4, <1>5


----------------------------------------------------------------------------
(* What the nodes do to the board and the budgets of a turn.               *)

\* What an answer lists can be counted, and a step is never empty.
LEMMA AnswersListCalls ==
    ASSUME NEW answer \in Answers
    PROVE  /\ Len(answer.calls) \in Nat
           /\ answer.body = "step" => answer.calls # <<>>
<1>1. ASSUME NEW calls \in Batches
      PROVE  Len(calls) \in Nat /\ calls # <<>>
  <2> DEFINE S == {calls[i] : i \in DOMAIN calls}
  <2>1. calls # <<>> /\ calls \in Seq(S)
    BY BatchAssumption
  <2> HIDE DEF S
  <2> QED BY <2>1
<1>2. Len(<<>>) \in Nat
  OBVIOUS
<1>3. CASE harness = "three"
  <2> DEFINE any == CHOOSE calls \in Batches : TRUE
  <2>1. any \in Batches
    BY BatchAssumption
  <2> HIDE DEF any
  <2>2. answer \in NativeAnswers
    BY <1>3 DEF Answers
  <2>3. \/ answer.calls \in Batches
        \/ answer.calls = <<>> /\ answer.body = "malformed"
    BY <2>1, <2>2 DEF NativeAnswers, Answer, any
  <2> QED BY <1>1, <1>2, <2>3
<1>4. CASE harness = "two"
  <2>1. answer \in TextAnswers(Batches)
    BY <1>4 DEF Answers
  <2>2. answer.calls \in Batches \/ (answer.calls = <<>> /\ answer.body # "step")
    BY <2>1 DEF TextAnswers, Answer
  <2> QED BY <1>1, <1>2, <2>2
<1>5. CASE harness \notin {"two", "three"}
  <2>1. answer \in TextAnswers({<<call>> : call \in Steps})
    BY <1>5 DEF Answers
  <2>2. (\E call \in Steps : answer.calls = <<call>>) \/ (answer.calls = <<>> /\ answer.body # "step")
    BY <2>1 DEF TextAnswers, Answer
  <2> QED BY <1>2, <2>2
<1> QED BY <1>3, <1>4, <1>5

\* The part of the turn that a pass and a rejection leave alone.
SameBoard(t, u) ==
    u.nodes = t.nodes /\ u.active = t.active /\ u.scratch = t.scratch /\ u.phase = t.phase

LEMMA SameBoardFits ==
    ASSUME NEW t, NEW u, SameBoard(t, u), Fit(t), IsTurn(u), Budgeted(u)
    PROVE  Fit(u)
<1>1. Board(u) = Board(t)
  BY DEF SameBoard, Board
<1> QED BY <1>1 DEF Fit, SameBoard

\* What a pass leaves the graph to do: ask again, run tools, or submit.
Passes(t, passed) ==
    passed.tag # "raised" =>
       /\ SameBoard(t, passed.turn)
       /\ Budgeted(passed.turn)
       /\ passed.tag = "goes" => \/ passed.turn.next = t.phase
                                 \/ passed.turn.next = ToolsOf(t.phase) /\ HasTools(passed.turn)
       /\ passed.tag = "submits" => Batched \/ harness = "one"

LEMMA ThreePasses ==
    ASSUME NEW t, IsTurn(t), Budgeted(t), t.phase = "synthesis", harness = "three", NEW answer,
           Len(answer.calls) \in Nat, answer.body = "step" => answer.calls # <<>>
    PROVE  Passes(t, Three!ModelPass(t, answer))
<1> USE BudgetAssumption DEF IsTurn, TurnFields
<1> DEFINE counted  == [t EXCEPT !.modelCalls = @ + 1,
                                 !.forcedRetries = IF t.forced THEN @ + 1 ELSE @]
           replay   == Three!Replayable(answer) /\ ~Three!Repeated(t, answer)
           heard    == IF replay THEN [counted EXCEPT !.history = @ \o Three!Calls(answer.ids)] ELSE counted
           refused  == IF replay THEN [heard EXCEPT !.history = @ \o Three!Outputs(answer.ids)] ELSE heard
           valid    == /\ Three!Parsed(answer)
                       /\ ~Three!Repeated(t, answer)
                       /\ \A i \in DOMAIN answer.calls : Three!ValidateArguments(answer.calls[i])
                       /\ Three!ValidateToolBatch(answer.calls)
           pending  == [heard EXCEPT !.pending = answer.calls, !.callId = answer.ids[1],
                                     !.toolCalls = @ + Len(answer.calls)]
           Still(u) == /\ DOMAIN u = TurnFields /\ SameBoard(t, u) /\ u.toolCalls = t.toolCalls
                       /\ u.rejected = t.rejected /\ u.errors = t.errors
<1>1. Still(counted) /\ Still(heard) /\ Still(refused)
  BY DEF SameBoard
<1> HIDE DEF counted, replay, heard, refused
<1>2. ASSUME NEW e \in BOOLEAN
      PROVE  Passes(t, Three!Retry(refused, e))
  BY <1>1 DEF Passes, SameBoard, Budgeted, Three!Retry, Three!Raised, Three!Retries
<1>3. ASSUME valid, t.toolCalls + Len(answer.calls) <= MaxToolCalls
      PROVE  /\ Passes(t, Three!Submits(pending))
             /\ Passes(t, Three!Goes([pending EXCEPT !.next = "synthesis_tools"]))
  <2>1. answer.calls # <<>>
    BY <1>3 DEF Three!Parsed
  <2>2. /\ DOMAIN pending = TurnFields /\ SameBoard(t, pending)
        /\ pending.toolCalls = t.toolCalls + Len(answer.calls)
        /\ pending.rejected = t.rejected /\ pending.errors = t.errors /\ pending.pending = answer.calls
    BY <1>1 DEF SameBoard
  <2>3. t.toolCalls + Len(answer.calls) \in 0 .. MaxToolCalls
    BY <1>3 DEF Budgeted
  <2> HIDE DEF valid, pending
  <2>4. Passes(t, Three!Submits(pending))
    BY <2>2, <2>3 DEF Passes, SameBoard, Budgeted, Batched, Three!Submits
  <2>5. Passes(t, Three!Goes([pending EXCEPT !.next = "synthesis_tools"]))
    BY <2>1, <2>2, <2>3 DEF Passes, SameBoard, Budgeted, HasTools, ToolsOf, Three!Goes
  <2> QED BY <2>4, <2>5
<1>4. /\ Passes(t, Three!Raised(counted)) /\ Passes(t, Three!Raised(heard))
  BY DEF Passes, Three!Raised
<1>5. Three!ModelPass(t, answer) =
        IF answer.status = "failed" THEN Three!Raised(counted)
        ELSE IF ~valid THEN Three!Retry(refused, answer.status # "exhausted")
        ELSE IF t.toolCalls + Len(answer.calls) > MaxToolCalls THEN Three!Raised(heard)
        ELSE IF \E i \in DOMAIN answer.calls : answer.calls[i].tool = "submit_move"
        THEN Three!Submits(pending)
        ELSE Three!Goes([pending EXCEPT !.next = "synthesis_tools"])
  BY DEF Three!ModelPass, counted, replay, heard, refused
<1>6. t.toolCalls \in Nat
  BY DEF Budgeted
<1> HIDE DEF valid, pending
<1>7. CASE answer.status = "failed"
  BY <1>4, <1>5, <1>7
<1>8. CASE answer.status # "failed" /\ ~valid
  BY <1>2, <1>5, <1>8
<1>9. CASE answer.status # "failed" /\ valid
  BY <1>3, <1>4, <1>5, <1>6, <1>9
<1> QED BY <1>7, <1>8, <1>9

LEMMA TwoPasses ==
    ASSUME NEW t, IsTurn(t), Budgeted(t), t.phase = "synthesis", harness = "two", NEW answer,
           Len(answer.calls) \in Nat, answer.body = "step" => answer.calls # <<>>
    PROVE  Passes(t, Two!ModelPass(t, answer))
<1> USE BudgetAssumption DEF IsTurn, TurnFields
<1> DEFINE counted  == [t EXCEPT !.modelCalls = @ + 1,
                                 !.forcedRetries = IF t.forced THEN @ + 1 ELSE @]
           valid    == Two!Parsed(answer) /\ Two!BatchIsValid(answer.calls)
           pending  == [counted EXCEPT !.pending = answer.calls, !.toolCalls = @ + Len(answer.calls)]
<1>1. /\ DOMAIN counted = TurnFields /\ SameBoard(t, counted) /\ counted.toolCalls = t.toolCalls
      /\ counted.rejected = t.rejected /\ counted.errors = t.errors
  BY DEF SameBoard
<1> HIDE DEF counted
<1>2. ASSUME NEW e \in BOOLEAN
      PROVE  Passes(t, Two!Retry(counted, e))
  BY <1>1 DEF Passes, SameBoard, Budgeted, Two!Retry, Two!Raised, Two!Retries
<1>3. ASSUME valid, t.toolCalls + Len(answer.calls) <= MaxToolCalls
      PROVE  /\ Passes(t, Two!Submits(pending))
             /\ Passes(t, Two!Goes([pending EXCEPT !.next = "synthesis_tools"]))
  <2>1. answer.calls # <<>>
    BY <1>3 DEF Two!Parsed
  <2>2. /\ DOMAIN pending = TurnFields /\ SameBoard(t, pending)
        /\ pending.toolCalls = t.toolCalls + Len(answer.calls)
        /\ pending.rejected = t.rejected /\ pending.errors = t.errors /\ pending.pending = answer.calls
    BY <1>1 DEF SameBoard
  <2>3. t.toolCalls + Len(answer.calls) \in 0 .. MaxToolCalls
    BY <1>3 DEF Budgeted
  <2> HIDE DEF valid, pending
  <2>4. Passes(t, Two!Submits(pending))
    BY <2>2, <2>3 DEF Passes, SameBoard, Budgeted, Batched, Two!Submits
  <2>5. Passes(t, Two!Goes([pending EXCEPT !.next = "synthesis_tools"]))
    BY <2>1, <2>2, <2>3 DEF Passes, SameBoard, Budgeted, HasTools, ToolsOf, Two!Goes
  <2> QED BY <2>4, <2>5
<1>4. Passes(t, Two!Raised(counted))
  BY DEF Passes, Two!Raised
<1>5. Two!ModelPass(t, answer) =
        IF answer.status = "failed" THEN Two!Raised(counted)
        ELSE IF ~valid THEN Two!Retry(counted, ~Two!ReasoningOnly(answer))
        ELSE IF t.toolCalls + Len(answer.calls) > MaxToolCalls THEN Two!Raised(counted)
        ELSE IF \E i \in DOMAIN answer.calls : answer.calls[i].tool = "submit_move"
        THEN Two!Submits(pending)
        ELSE Two!Goes([pending EXCEPT !.next = "synthesis_tools"])
  BY DEF Two!ModelPass, counted
<1>6. t.toolCalls \in Nat
  BY DEF Budgeted
<1>7. Two!ReasoningOnly(answer) \in BOOLEAN
  BY DEF Two!ReasoningOnly
<1> HIDE DEF valid, pending
<1>8. CASE answer.status = "failed"
  BY <1>4, <1>5, <1>8
<1>9. CASE answer.status # "failed" /\ ~valid
  BY <1>2, <1>5, <1>7, <1>9
<1>10. CASE answer.status # "failed" /\ valid
  BY <1>3, <1>4, <1>5, <1>6, <1>10
<1> QED BY <1>8, <1>9, <1>10

LEMMA OnePasses ==
    ASSUME NEW t, IsTurn(t), Budgeted(t), t.phase \in {"defense", "attack", "synthesis"},
           harness = "one", NEW answer
    PROVE  Passes(t, One!ModelPass(t, answer))
<1> USE BudgetAssumption DEF IsTurn, TurnFields
<1> DEFINE counted  == [t EXCEPT !.modelCalls = @ + 1,
                                 !.forcedRetries = IF t.forced THEN @ + 1 ELSE @]
           pending  == [counted EXCEPT !.pending = answer.calls, !.toolCalls = @ + 1]
<1>1. /\ DOMAIN counted = TurnFields /\ SameBoard(t, counted) /\ counted.toolCalls = t.toolCalls
      /\ counted.rejected = t.rejected /\ counted.errors = t.errors
  BY DEF SameBoard
<1> HIDE DEF counted
<1>2. ASSUME NEW e \in BOOLEAN
      PROVE  Passes(t, One!Retry(counted, e))
  BY <1>1 DEF Passes, SameBoard, Budgeted, One!Retry, One!Raised, One!Retries
<1>3. ASSUME One!OneCall(answer), t.toolCalls < MaxToolCalls
      PROVE  /\ Passes(t, One!Submits(pending))
             /\ answer.calls[1].tool # One!TerminalTool(t.phase) =>
                   Passes(t, One!Goes([pending EXCEPT !.next = One!ToolNode(t.phase)]))
  <2>1. answer.calls # <<>>
    <3>1. Len(<<>>) = 0 /\ Len(answer.calls) = 1
      BY <1>3 DEF One!OneCall
    <3>2. Len(<<>>) # Len(answer.calls)
      BY <3>1
    <3> QED BY <3>2, Zenon
  <2>2. One!ToolNode(t.phase) = ToolsOf(t.phase)
    BY DEF One!ToolNode, ToolsOf
  <2>3. /\ DOMAIN pending = TurnFields /\ SameBoard(t, pending) /\ pending.toolCalls = t.toolCalls + 1
        /\ pending.rejected = t.rejected /\ pending.errors = t.errors /\ pending.pending = answer.calls
    BY <1>1 DEF SameBoard
  <2> HIDE DEF pending
  <2>4. Passes(t, One!Submits(pending))
    BY <1>3, <2>3 DEF Passes, SameBoard, Budgeted, One!Submits
  <2>5. ASSUME answer.calls[1].tool # One!TerminalTool(t.phase)
        PROVE  Passes(t, One!Goes([pending EXCEPT !.next = One!ToolNode(t.phase)]))
    BY <1>3, <2>1, <2>2, <2>3, <2>5 DEF Passes, SameBoard, Budgeted, HasTools, One!Goes
  <2> QED BY <2>4, <2>5
<1>4. Passes(t, One!Raised(counted))
  BY DEF Passes, One!Raised
<1>5. One!ModelPass(t, answer) =
        IF answer.status = "failed" THEN One!Raised(counted)
        ELSE IF ~One!OneCall(answer) THEN One!Retry(counted, answer.body # "prose")
        ELSE IF ~One!ValidateArguments(t.phase, answer.calls[1]) THEN One!Retry(counted, TRUE)
        ELSE IF t.toolCalls >= MaxToolCalls THEN One!Raised(counted)
        ELSE IF answer.calls[1].tool = One!TerminalTool(t.phase) THEN One!Submits(pending)
        ELSE One!Goes([pending EXCEPT !.next = One!ToolNode(t.phase)])
  BY DEF One!ModelPass, counted
<1>6. t.toolCalls \in Nat
  BY DEF Budgeted
<1> HIDE DEF pending
<1>7. CASE answer.status = "failed"
  BY <1>4, <1>5, <1>7
<1>8. CASE answer.status # "failed" /\ ~One!OneCall(answer)
  <2>1. (answer.body # "prose") \in BOOLEAN
    OBVIOUS
  <2> QED BY <1>2, <1>5, <1>8, <2>1
<1>9. CASE answer.status # "failed" /\ One!OneCall(answer) /\ ~One!ValidateArguments(t.phase, answer.calls[1])
  BY <1>2, <1>5, <1>9
<1>10. CASE answer.status # "failed" /\ One!OneCall(answer) /\ One!ValidateArguments(t.phase, answer.calls[1])
  <2>1. t.toolCalls >= MaxToolCalls \/ t.toolCalls < MaxToolCalls
    BY <1>6
  <2> QED BY <1>3, <1>4, <1>5, <1>10, <2>1
<1> QED BY <1>7, <1>8, <1>9, <1>10

LEMMA BasePasses ==
    ASSUME NEW t, IsTurn(t), Budgeted(t), t.phase = "decide",
           harness \notin {"one", "two", "three"}, NEW answer
    PROVE  Passes(t, Base!Decide(t, answer))
<1> USE BudgetAssumption DEF IsTurn, TurnFields
<1> DEFINE counted   == [t EXCEPT !.modelCalls = @ + 1,
                                  !.forcedRetries = IF t.forced THEN @ + 1 ELSE @]
           errors    == counted.errors + (IF answer.body = "prose" THEN 0 ELSE 1)
           goes      == [counted EXCEPT !.pending = answer.calls, !.next = "validate_submission"]
           retries   == [counted EXCEPT !.errors = errors, !.pending = <<>>,
                                        !.next = "decide", !.forced = TRUE]
<1>1. /\ DOMAIN counted = TurnFields /\ SameBoard(t, counted) /\ counted.toolCalls = t.toolCalls
      /\ counted.rejected = t.rejected /\ counted.errors = t.errors
  BY DEF SameBoard
<1>2. Passes(t, Base!Raised(counted))
  BY DEF Passes, Base!Raised
<1> HIDE DEF counted
<1>3. ASSUME Base!OneCall(answer)
      PROVE  Passes(t, Base!Goes(goes))
  <2>1. answer.calls # <<>>
    <3>1. Len(<<>>) = 0 /\ Len(answer.calls) = 1
      BY <1>3 DEF Base!OneCall
    <3>2. Len(<<>>) # Len(answer.calls)
      BY <3>1
    <3> QED BY <3>2, Zenon
  <2> QED BY <1>1, <2>1 DEF Passes, SameBoard, Budgeted, HasTools, ToolsOf, Base!Goes
<1>4. ASSUME errors <= MaxProtocolRetries
      PROVE  Passes(t, Base!Retries(retries))
  <2>1. errors \in Nat
    BY <1>1 DEF Budgeted
  <2>2. /\ DOMAIN retries = TurnFields /\ SameBoard(t, retries) /\ retries.toolCalls = t.toolCalls
        /\ retries.rejected = t.rejected /\ retries.errors = errors /\ retries.next = "decide"
    BY <1>1 DEF SameBoard
  <2> HIDE DEF retries, errors
  <2> QED BY <1>4, <2>1, <2>2 DEF Passes, Budgeted, Base!Retries
<1>5. \/ Base!Decide(t, answer) = Base!Raised(counted)
      \/ Base!OneCall(answer) /\ Base!Decide(t, answer) = Base!Goes(goes)
      \/ ~(errors > MaxProtocolRetries) /\ Base!Decide(t, answer) = Base!Retries(retries)
  BY DEF Base!Decide, counted
<1>6. errors \in Int
  BY <1>1 DEF Budgeted
<1> HIDE DEF goes, retries, errors
<1> QED BY <1>2, <1>3, <1>4, <1>5, <1>6


LEMMA ModelPasses ==
    ASSUME Fit(turn), NEW answer \in Answers
    PROVE  Passes(turn, ModelPass(answer))
<1>1. IsTurn(turn) /\ Budgeted(turn) /\ turn.phase \in Homes
  BY DEF Fit
<1>2. Len(answer.calls) \in Nat /\ (answer.body = "step" => answer.calls # <<>>)
  BY AnswersListCalls
<1>3. CASE harness = "three"
  BY <1>1, <1>2, <1>3, ThreePasses DEF ModelPass, Homes, Batched
<1>4. CASE harness = "two"
  BY <1>1, <1>2, <1>4, TwoPasses DEF ModelPass, Homes, Batched
<1>5. CASE harness = "one"
  BY <1>1, <1>5, OnePasses DEF ModelPass, Homes, Batched
<1>6. CASE harness \notin {"one", "two", "three"}
  BY <1>1, <1>6, BasePasses DEF ModelPass, Homes, Batched
<1> QED BY <1>3, <1>4, <1>5, <1>6

\* A rejected batch leaves the turn in its phase, on the board it had.
LEMMA RejectFits ==
    ASSUME Fit(work.turn), Reject.tag # "raised"
    PROVE  Fit(Reject.turn) /\ Reject.turn.phase = work.turn.phase /\ Reject.turn.next = work.turn.phase
<1> DEFINE t == work.turn
           Counted(u) == /\ SameBoard(t, u) /\ IsTurn(u) /\ Budgeted(u) /\ u.next = t.phase
<1>1. IsTurn(t) /\ Budgeted(t) /\ t.phase \in Homes
  BY DEF Fit
<1>2. ASSUME harness = "three", Three!RejectBatch(t).tag # "raised"
      PROVE  Counted(Three!RejectBatch(t).turn)
  BY <1>1, <1>2, BudgetAssumption
  DEF IsTurn, TurnFields, Budgeted, SameBoard, Three!RejectBatch, Three!CompleteStep, Three!Raised, Three!Goes
<1>3. ASSUME harness = "two", Two!RejectBatch(t).tag # "raised"
      PROVE  Counted(Two!RejectBatch(t).turn)
  BY <1>1, <1>3, BudgetAssumption
  DEF IsTurn, TurnFields, Budgeted, SameBoard, Two!RejectBatch, Two!Raised, Two!Goes
<1>4. ASSUME harness = "one", One!RejectCall(t).tag # "raised"
      PROVE  Counted(One!RejectCall(t).turn)
  BY <1>1, <1>4, BudgetAssumption
  DEF IsTurn, TurnFields, Budgeted, SameBoard, One!RejectCall, One!Raised, One!Goes
<1>5. ASSUME harness \notin {"one", "two", "three"}, Base!RejectMove(t).tag # "raised"
      PROVE  Counted(Base!RejectMove(t).turn)
  <2>1. t.phase = "decide"
    BY <1>1, <1>5 DEF Homes, Batched
  <2> QED BY <1>1, <1>5, <2>1, BudgetAssumption
      DEF IsTurn, TurnFields, Budgeted, SameBoard, Base!RejectMove, Base!Raised, Base!Goes
<1>6. Counted(Reject.turn)
  <2> HIDE DEF Counted
  <2> QED BY <1>2, <1>3, <1>4, <1>5 DEF Reject
<1>7. Fit(Reject.turn)
  BY <1>6, SameBoardFits
<1> QED BY <1>6, <1>7 DEF SameBoard

\* Where a committed batch leads.
Settled(t, u) ==
    /\ Fit(u)
    /\ \/ u.phase = t.phase /\ u.next = t.phase
       \/ u.phase = t.phase /\ u.next = "end" /\ t.phase \in {"synthesis", "decide"}
       \/ /\ harness = "one" /\ ~HasTools(t) /\ u.next = u.phase
          /\ \/ t.phase = "defense" /\ u.phase = "attack"
             \/ t.phase = "attack" /\ u.phase = "synthesis"

LEMMA BoardFits ==
    ASSUME NEW t, IsTurn(t), Budgeted(t), t.phase \in Homes, NEW b, GoodBoard(b),
           t.nodes = b.nodes, t.active = b.active, t.scratch = b.scratch
    PROVE  Fit(t)
<1>1. DOMAIN b = {"nodes", "active", "scratch"}
  BY DEF GoodBoard, SoundBoard
<1>2. GoodBoard(Board(t))
  <2> DEFINE c == Board(t)
  <2>1. DOMAIN c = DOMAIN b /\ c.nodes = b.nodes /\ c.active = b.active /\ c.scratch = b.scratch
    BY <1>1 DEF Board
  <2> HIDE DEF c
  <2>2. GoodBoard(c)
    BY <2>1 DEF GoodBoard, SoundBoard
  <2> QED BY <2>2 DEF c
<1> QED BY <1>2 DEF Fit

LEMMA CommitFits ==
    ASSUME Fit(work.turn), GoodBoard(work.board)
    PROVE  Settled(work.turn, Commit.turn)
<1> DEFINE t == work.turn
           b == work.board
           Laid(u) == /\ IsTurn(u) /\ Budgeted(u) /\ u.phase = t.phase
                      /\ u.nodes = b.nodes /\ u.active = b.active /\ u.scratch = b.scratch
<1>1. IsTurn(t) /\ Budgeted(t) /\ t.phase \in Homes
  BY DEF Fit
<1>2. ASSUME NEW u, Laid(u)
      PROVE  Fit(u)
  BY <1>1, <1>2, BoardFits
<1>3. CASE harness = "three"
  <2> DEFINE u == Three!CommitBatch(t, b, work.decision, work.branch).turn
  <2>1. Laid(u) /\ u.next \in {"end", t.phase}
    BY <1>1 DEF IsTurn, TurnFields, Budgeted, Three!CommitBatch, Three!CompleteStep, Three!Goes
  <2>2. t.phase = "synthesis" /\ Commit.turn = u
    BY <1>1, <1>3 DEF Homes, Batched, Commit
  <2> HIDE DEF u, t
  <2> QED BY <1>2, <2>1, <2>2 DEF Settled, t
<1>4. CASE harness = "two"
  <2> DEFINE u == Two!CommitBatch(t, b, work.decision, work.branch).turn
  <2>1. Laid(u) /\ u.next \in {"end", t.phase}
    BY <1>1 DEF IsTurn, TurnFields, Budgeted, Two!CommitBatch, Two!Goes
  <2>2. t.phase = "synthesis" /\ Commit.turn = u
    BY <1>1, <1>4 DEF Homes, Batched, Commit
  <2> HIDE DEF u, t
  <2> QED BY <1>2, <2>1, <2>2 DEF Settled, t
<1>5. CASE harness = "one"
  <2> DEFINE u      == One!CommitCall(t, b, work.decision).turn
             later  == IF t.phase = "defense" THEN "attack" ELSE "synthesis"
             report == t.pending[1].tool = One!TerminalTool(t.phase)
  <2>1. t.phase \in {"defense", "attack", "synthesis"} /\ Commit.turn = u /\ ~Batched
    BY <1>1, <1>5 DEF Homes, Batched, Commit
  <2>2. GoodBoard(Board(t)) /\ t.nodes = {} /\ t.active = Root /\ b.nodes = {} /\ b.active = Root
    BY <2>1 DEF Fit, GoodBoard, Board
  <2>3. CASE ~report
    <3>1. Laid(u) /\ u.next = t.phase
      BY <1>1, <2>2, <2>3 DEF IsTurn, TurnFields, Budgeted, One!CommitCall, One!Goes
    <3> HIDE DEF u, t
    <3> QED BY <1>2, <2>1, <3>1 DEF Settled, t
  <2>4. CASE report /\ t.phase = "synthesis"
    <3>1. IsTurn(u) /\ Budgeted(u) /\ SameBoard(t, u) /\ u.next = "end" /\ u.phase = t.phase
      BY <1>1, <2>4 DEF IsTurn, TurnFields, Budgeted, SameBoard, One!CommitCall, One!Goes
    <3>2. Fit(u)
      <4> HIDE DEF u
      <4> QED BY <3>1, SameBoardFits
    <3> HIDE DEF u, t
    <3> QED BY <2>1, <2>4, <3>1, <3>2 DEF Settled, t
  <2>5. CASE report /\ t.phase # "synthesis"
    <3>1. u = [One!PhaseState(later) EXCEPT !.reports = t.reports \cup {t.phase}]
      BY <2>5 DEF One!CommitCall, One!Goes
    <3>2. /\ DOMAIN u = TurnFields /\ u.phase = later /\ u.next = later
          /\ u.nodes = {} /\ u.active = Root /\ u.scratch = <<>>
          /\ u.modelCalls = 0 /\ u.toolCalls = 0 /\ u.rejected = 0 /\ u.errors = 0
      BY <3>1 DEF One!PhaseState, TurnFields, Root, One!Root
    <3>3. later \in Homes /\ later \in Phases /\ ~HasTools(t)
      BY <1>5, <2>1, <2>5 DEF Homes, Batched, Phases, HasTools
    <3>4. IsTurn(u) /\ Budgeted(u)
      <4> HIDE DEF u, later
      <4> QED BY <3>2, <3>3, BudgetAssumption DEF IsTurn, Budgeted
    <3>5. GoodBoard(Board(u))
      <4>1. PlayedLine(<<>>)
        BY <2>1, <2>2, LinesOfOne DEF GoodBoard
      <4> HIDE DEF u, later
      <4> QED BY <2>1, <3>2, <4>1 DEF GoodBoard, Board
    <3>6. Fit(u)
      <4> HIDE DEF u, later
      <4> QED BY <3>2, <3>3, <3>4, <3>5 DEF Fit
    <3>7. \/ t.phase = "defense" /\ u.phase = "attack"
          \/ t.phase = "attack" /\ u.phase = "synthesis"
      BY <2>1, <2>5, <3>2
    <3> HIDE DEF u, t, later
    <3> QED BY <1>5, <2>1, <3>2, <3>3, <3>6, <3>7 DEF Settled, t
  <2> QED BY <2>3, <2>4, <2>5
<1>6. CASE harness \notin {"one", "two", "three"}
  <2> DEFINE u == Base!AcceptMove(t, work.decision).turn
  <2>1. IsTurn(u) /\ Budgeted(u) /\ SameBoard(t, u) /\ u.next = "end" /\ u.phase = t.phase
    BY <1>1 DEF IsTurn, TurnFields, Budgeted, SameBoard, Base!AcceptMove, Base!Goes
  <2>2. t.phase = "decide" /\ Commit.turn = u
    BY <1>1, <1>6 DEF Homes, Batched, Commit
  <2> HIDE DEF u
  <2>3. Fit(u)
    BY <2>1, SameBoardFits
  <2> HIDE DEF t
  <2> QED BY <2>1, <2>2, <2>3 DEF Settled, t
<1> QED BY <1>3, <1>4, <1>5, <1>6

\* No tool raises on a board that the player has built.
LEMMA ToolsStand ==
    ASSUME NEW call, NEW board, GoodBoard(board)
    PROVE  /\ Execute(call, board).verdict \in {"ok", "rejected"}
           /\ GoodBoard(Execute(call, board).board)
<1>1. Execute(call, board).verdict \in {"ok", "rejected", "raised"}
  BY VerdictsKnown
<1>2. CASE Batched
  <2>1. Execute(call, board) = ExecuteTool(call, board)
    BY <1>2, SameTools DEF Execute, Batched
  <2>2. SoundBoard(board)
    BY <1>2 DEF GoodBoard
  <2> QED BY <1>1, <1>2, <2>1, <2>2, ToolKeepsSound DEF GoodBoard
<1>3. CASE harness = "one"
  <2> DEFINE line   == board.scratch
             result == Execute(call, board)
             Laid(s) == result = [verdict |-> "ok", board |-> [board EXCEPT !.scratch = s]]
  <2>1. /\ ~Batched /\ PlayedLine(line) /\ DOMAIN board = {"nodes", "active", "scratch"}
        /\ board.nodes = {} /\ board.active = Root
    BY <1>3 DEF Batched, GoodBoard
  <2>2. ASSUME NEW s, PlayedLine(s), Laid(s)
        PROVE  result.verdict = "ok" /\ GoodBoard(result.board)
    <3> DEFINE after == [board EXCEPT !.scratch = s]
    <3>1. /\ DOMAIN after = {"nodes", "active", "scratch"} /\ after.nodes = {}
          /\ after.active = Root /\ after.scratch = s
      BY <2>1
    <3>2. result.verdict = "ok" /\ result.board = after
      BY <2>2
    <3> HIDE DEF after, result
    <3> QED BY <2>1, <2>2, <3>1, <3>2 DEF GoodBoard
  <2>3. /\ line \in Plays /\ PlayedLine(<<>>)
        /\ \A move \in Moves : Append(line, move) \in Plays => PlayedLine(Append(line, move))
        /\ line # <<>> => PlayedLine(SubSeq(line, 1, Len(line) - 1))
    BY <2>1, LinesOfOne
  <2>4. \A text : One!RequireLegalSan(line, text) =>
             /\ Append(line, Spelling[text]) \in Plays /\ Spelling[text] \in Moves
    BY DEF One!RequireLegalSan, Moves
  <2>5. PlayedLine(Append(line, Spelling[call.move])) \/ ~One!RequireLegalSan(line, call.move)
    BY <2>3, <2>4
  <2>6. result = One!ExecuteTool(call, board)
    BY <1>3 DEF Execute
  <2>7. \/ result = [verdict |-> "rejected", board |-> board]
        \/ Laid(line)
        \/ Laid(Append(line, Spelling[call.move])) /\ One!RequireLegalSan(line, call.move)
        \/ Laid(IF line = <<>> THEN <<>> ELSE SubSeq(line, 1, Len(line) - 1))
        \/ Laid(<<>>)
    BY <2>3, <2>6 DEF One!ExecuteTool
  <2>8. PlayedLine(IF line = <<>> THEN <<>> ELSE SubSeq(line, 1, Len(line) - 1))
    BY <2>3
  <2>9. CASE result = [verdict |-> "rejected", board |-> board]
    BY <2>9
  <2>10. CASE result # [verdict |-> "rejected", board |-> board]
    <3> HIDE DEF result, Laid, line
    <3>1. \E s : PlayedLine(s) /\ Laid(s)
      BY <2>1, <2>3, <2>5, <2>7, <2>8, <2>10
    <3>2. result.verdict = "ok" /\ GoodBoard(result.board)
      BY <2>2, <3>1
    <3> QED BY <3>2 DEF result
  <2> QED BY <2>9, <2>10
<1>4. CASE harness \notin {"one", "two", "three"}
  <2>1. Execute(call, board) = Base!SubmitMove(call, board)
    BY <1>4 DEF Execute
  <2> QED BY <2>1 DEF Base!SubmitMove
<1> QED BY <1>2, <1>3, <1>4 DEF Batched


----------------------------------------------------------------------------
(* Where the graph goes.                                                   *)

\* What a node may leave when it returns.
Leads(t, u) ==
    /\ node = t.phase =>
          \/ u.phase = t.phase /\ u.next = t.phase
          \/ u.phase = t.phase /\ u.next = ToolsOf(t.phase) /\ HasTools(u)
          \/ u.phase = t.phase /\ u.next = "end" /\ t.phase = "synthesis"
          \/ /\ harness = "one" /\ u.next = u.phase
             /\ \/ t.phase = "defense" /\ u.phase = "attack"
                \/ t.phase = "attack" /\ u.phase = "synthesis"
    /\ node = ToolsOf(t.phase) =>
          /\ u.phase = t.phase
          /\ u.next = t.phase \/ (u.next = "end" /\ t.phase \in {"synthesis", "decide"})

\* Every edge that a node asks for exists, and leads to its phase, to the
\* tools of its phase, or out of the graph.
LEMMA ReturnPlaces ==
    ASSUME NEW t, t.phase \in Homes, NEW u, Leads(t, u),
           node \in {t.phase, ToolsOf(t.phase)}, Returns(node, u)
    PROVE  /\ outcome' = outcome
           /\ outcome = "interrupted" => pc' = "done" /\ UNCHANGED <<node, turn>>
           /\ outcome # "interrupted" =>
                 /\ pc' = "node" /\ turn' = u
                 /\ \/ node' \in {"end", u.phase}
                    \/ node' = ToolsOf(u.phase) /\ HasTools(u)
<1>1. CASE outcome = "interrupted"
  BY <1>1 DEF Returns
<1>2. CASE outcome # "interrupted"
  <2> DEFINE only == CHOOSE n \in Edges[node] : TRUE
             to   == IF Cardinality(Edges[node]) = 1 THEN only ELSE u.next
  <2>1. /\ turn' = u /\ node' = to
        /\ IF to \in Edges[node] THEN pc' = "node" /\ UNCHANGED outcome
                                 ELSE pc' = "done" /\ outcome' = "broken"
    BY <1>2 DEF Returns
  <2>2. ASSUME NEW x, Edges[node] = {x}
        PROVE  to = x
    <3>1. Cardinality({x}) = 1
      BY FS_Singleton
    <3> QED BY <2>2, <3>1
  <2>3. ASSUME Cardinality(Edges[node]) # 1
        PROVE  to = u.next
    BY <2>3
  <2> HIDE DEF to
  <2>4. CASE Batched
    <3>1. t.phase = "synthesis" /\ ToolsOf(t.phase) = "synthesis_tools"
      BY <2>4 DEF Homes, ToolsOf
    <3>2. /\ Edges["synthesis"] = {"synthesis", "synthesis_tools", "end"}
          /\ Edges["synthesis_tools"] = {"synthesis"}
      BY <2>4 DEF Batched, Edges, Two!Edges, Three!Edges
    <3>3. Cardinality(Edges["synthesis"]) # 1
      BY <3>2, TwoOrMore, ThreeElements
    <3>4. CASE node = "synthesis"
      BY <1>2, <2>1, <2>3, <2>4, <3>1, <3>2, <3>3, <3>4 DEF Leads, Batched
    <3>5. CASE node = "synthesis_tools"
      BY <1>2, <2>1, <2>2, <3>1, <3>2, <3>5 DEF Leads
    <3> QED BY <3>1, <3>4, <3>5
  <2>5. CASE harness = "one"
    <3>1. /\ t.phase \in {"defense", "attack", "synthesis"}
          /\ t.phase = "defense" => ToolsOf(t.phase) = "defense_tools"
          /\ t.phase = "attack" => ToolsOf(t.phase) = "attack_tools"
          /\ t.phase = "synthesis" => ToolsOf(t.phase) = "synthesis_tools"
      BY <2>5 DEF Homes, Batched, ToolsOf
    <3>2. /\ Edges["defense"] = {"defense", "defense_tools", "attack"}
          /\ Edges["defense_tools"] = {"defense"}
          /\ Edges["attack"] = {"attack", "attack_tools", "synthesis"}
          /\ Edges["attack_tools"] = {"attack"}
          /\ Edges["synthesis"] = {"synthesis", "synthesis_tools", "end"}
          /\ Edges["synthesis_tools"] = {"synthesis"}
      BY <2>5 DEF Edges, One!Edges
    <3>3. /\ Cardinality(Edges["synthesis"]) # 1
          /\ Cardinality(Edges["attack"]) # 1
          /\ Cardinality(Edges["defense"]) # 1
      BY <3>2, TwoOrMore, ThreeElements
    <3>4. CASE node = t.phase
      <4>1. to = u.next
        BY <2>3, <3>1, <3>3, <3>4
      <4>2. u.phase = t.phase => ToolsOf(u.phase) = ToolsOf(t.phase)
        OBVIOUS
      <4>3. u.next \in Edges[node]
        BY <3>1, <3>2, <3>4 DEF Leads
      <4>4. \/ u.next \in {"end", u.phase}
            \/ u.next = ToolsOf(u.phase) /\ HasTools(u)
        BY <3>4, <4>2 DEF Leads
      <4> QED BY <1>2, <2>1, <4>1, <4>3, <4>4
    <3>5. CASE node = ToolsOf(t.phase)
      <4>1. Edges[node] = {t.phase}
        BY <3>1, <3>2, <3>5
      <4>2. to = t.phase /\ u.phase = t.phase
        BY <2>2, <3>5, <4>1 DEF Leads
      <4> QED BY <1>2, <2>1, <4>1, <4>2
    <3> QED BY <3>4, <3>5
  <2>6. CASE harness \notin {"one", "two", "three"}
    <3>1. t.phase = "decide" /\ ToolsOf(t.phase) = "validate_submission"
      BY <2>6 DEF Homes, Batched, ToolsOf
    <3>2. /\ Edges["decide"] = {"decide", "validate_submission"}
          /\ Edges["validate_submission"] = {"decide", "end"}
      BY <2>6 DEF Edges, Base!Edges
    <3>3. Cardinality(Edges["decide"]) # 1 /\ Cardinality(Edges["validate_submission"]) # 1
      <4>1. Cardinality({"decide", "validate_submission"}) # 1
        BY TwoOrMore, ThreeElements
      <4>2. Cardinality({"decide", "end"}) # 1
        BY TwoOrMore, ThreeElements
      <4> QED BY <3>2, <4>1, <4>2
    <3>4. CASE node = "decide"
      BY <1>2, <2>1, <2>3, <2>6, <3>1, <3>2, <3>3, <3>4 DEF Leads
    <3>5. CASE node = "validate_submission"
      BY <1>2, <2>1, <2>3, <3>1, <3>2, <3>3, <3>5 DEF Leads
    <3> QED BY <3>1, <3>4, <3>5
  <2> QED BY <2>4, <2>5, <2>6 DEF Batched
<1> QED BY <1>1, <1>2

\* The same formulas read in the next state.
LEMMA FitNext ==
    ASSUME UNCHANGED harness, NEW t, Fit(t)
    PROVE  /\ turn' = t => Fit(turn)'
           /\ \A b : GoodBoard(b) /\ work'.board = b => GoodBoard(work.board)'
           /\ work'.turn = t => Fit(work.turn)'
<1>1. Batched' = Batched /\ Homes' = Homes
  BY DEF Batched, Homes
<1>2. ASSUME turn' = t
      PROVE  Fit(turn)'
  BY <1>1, <1>2 DEF Fit, IsTurn, GoodBoard, Board, Budgeted
<1>3. ASSUME NEW b, GoodBoard(b), work'.board = b
      PROVE  GoodBoard(work.board)'
  BY <1>1, <1>3 DEF GoodBoard
<1>4. ASSUME work'.turn = t
      PROVE  Fit(work.turn)'
  BY <1>1, <1>4 DEF Fit, IsTurn, GoodBoard, Board, Budgeted
<1> QED BY <1>2, <1>3, <1>4

LEMMA AbortFits ==
    ASSUME PlaysOK, UNCHANGED harness, NEW reason, reason # "broken",
           NEW after, NEW rollback, Aborts(reason, after, rollback)
    PROVE  PlaysOK'
<1> DEFINE t == turn
<1>1. turn' = t /\ Fit(t) /\ pc' = "done" /\ outcome' # "broken"
  BY DEF Aborts, PlaysOK
<1> HIDE DEF t
<1>2. Fit(turn)'
  BY <1>1, FitNext
<1> QED BY <1>1, <1>2 DEF PlaysOK

LEMMA ReturnFits ==
    ASSUME PlaysOK, UNCHANGED harness, NEW t, t.phase \in Homes, NEW u, Fit(u), Leads(t, u),
           node \in {t.phase, ToolsOf(t.phase)}, Returns(node, u)
    PROVE  PlaysOK'
<1>1. /\ outcome' = outcome /\ outcome # "broken"
      /\ outcome = "interrupted" => pc' = "done" /\ UNCHANGED <<node, turn>>
      /\ outcome # "interrupted" =>
            /\ pc' = "node" /\ turn' = u
            /\ \/ node' \in {"end", u.phase}
               \/ node' = ToolsOf(u.phase) /\ HasTools(u)
  BY ReturnPlaces DEF PlaysOK
<1>2. CASE outcome = "interrupted"
  <2> DEFINE s == turn
  <2>1. turn' = s /\ Fit(s) /\ pc' = "done"
    BY <1>1, <1>2 DEF PlaysOK
  <2> HIDE DEF s
  <2>2. Fit(turn)'
    BY <2>1, FitNext
  <2> QED BY <1>1, <2>1, <2>2 DEF PlaysOK
<1>3. CASE outcome # "interrupted"
  <2>1. Fit(turn)' /\ pc' = "node"
    BY <1>1, <1>3, FitNext
  <2>2. HasTools(u) => HasTools(turn)'
    BY <1>1, <1>3 DEF HasTools
  <2>3. node' \in {"end", turn'.phase} \/ (node' = ToolsOf(turn'.phase) /\ HasTools(turn)')
    BY <1>1, <1>3, <2>2
  <2> QED BY <1>1, <2>1, <2>3 DEF PlaysOK
<1> QED BY <1>2, <1>3

LEMMA BatchFits ==
    ASSUME PlaysOK, UNCHANGED <<harness, turn, node, outcome>>,
           NEW t, Fit(t), NEW b, GoodBoard(b), work'.turn = t, work'.board = b,
           DOMAIN work' = {"turn", "left", "ran", "board", "decision", "branch", "inline"}, pc' = "batch",
           \/ node = t.phase /\ (Batched \/ harness = "one")
           \/ node = ToolsOf(t.phase) /\ HasTools(t)
    PROVE  PlaysOK'
<1> DEFINE s == turn
<1>1. turn' = s /\ Fit(s)
  BY DEF PlaysOK
<1> HIDE DEF s
<1>2. Fit(turn)' /\ Fit(work.turn)' /\ GoodBoard(work.board)'
  BY <1>1, FitNext
<1>3. /\ node = t.phase /\ (Batched \/ harness = "one") => node' = work'.turn.phase /\ (Batched' \/ harness' = "one")
      /\ node = ToolsOf(t.phase) /\ HasTools(t) => node' = ToolsOf(work'.turn.phase) /\ HasTools(work.turn)'
  BY DEF Batched, HasTools
<1>4. outcome' # "broken"
  BY DEF PlaysOK
<1> QED BY <1>2, <1>3, <1>4 DEF PlaysOK


LEMMA StartFits ==
    ASSUME PlaysOK, UNCHANGED <<harness, turn, node, outcome>>,
           NEW t, Fit(t), NEW inline, work' = StartWork(t, inline), pc' = "batch",
           \/ node = t.phase /\ (Batched \/ harness = "one")
           \/ node = ToolsOf(t.phase) /\ HasTools(t)
    PROVE  PlaysOK'
<1> DEFINE b == Board(t)
<1>1. GoodBoard(b)
  BY DEF Fit
<1>2. /\ work'.turn = t /\ work'.board = b
      /\ DOMAIN work' = {"turn", "left", "ran", "board", "decision", "branch", "inline"}
  BY DEF StartWork
<1> HIDE DEF b
<1> QED BY <1>1, <1>2, BatchFits

LEMMA RequestFits ==
    ASSUME LoopOK, DecisionOK, PlaysOK, RequestPass
    PROVE  PlaysOK'
<1>1. /\ pc = "node" /\ node \notin ToolNodes \cup {"end"} /\ UNCHANGED harness
      /\ Fit(turn) /\ outcome # "broken" /\ turn.phase \in Homes
  BY DEF RequestPass, PlaysOK, Fit
<1>2. node = turn.phase
  <2>1. ToolsOf(turn.phase) \in ToolNodes
    BY <1>1 DEF ToolsOf, ToolNodes
  <2> QED BY <1>1, <2>1 DEF PlaysOK
<1>3. ~PromptRaises
  <2>1. CASE Batched
    <3>1. SoundBoard(Board(turn))
      BY <1>1, <2>1 DEF Fit, GoodBoard
    <3> QED BY <2>1, <3>1, PromptStands DEF PromptRaises, Batched
  <2>2. CASE harness = "one"
    <3>1. PlayedLine(turn.scratch)
      BY <1>1, <2>2 DEF Fit, GoodBoard, Batched, Board
    <3>2. turn.scratch \in Plays
      BY <3>1, LinesOfOne
    <3>3. turn.phase = "synthesis" => turn.reports = {"defense", "attack"}
      BY <2>2 DEF DecisionOK, Decides, ReportsOK
    <3> QED BY <2>2, <3>2, <3>3 DEF PromptRaises, BuildPhasePromptRaises, BoardStateRaises,
                                    BoardForSourceRaises, SectionShown, ForcedRetryRaises
  <2>3. CASE harness \notin {"one", "two", "three"}
    BY <2>3 DEF PromptRaises
  <2> QED BY <2>1, <2>2, <2>3 DEF Batched
<1>4. CASE \E reason \in {"recursion", "cancelled", "failed"} : Aborts(reason, row, FALSE)
  BY <1>1, <1>4, AbortFits
<1>5. CASE pc' = "waiting" /\ UNCHANGED <<node, turn, work, outcome>>
  <2> DEFINE t == turn
  <2>1. Fit(t) /\ turn' = t
    BY <1>1, <1>5
  <2> HIDE DEF t
  <2>2. Fit(turn)'
    BY <1>1, <2>1, FitNext
  <2> QED BY <1>1, <1>2, <1>5, <2>2 DEF PlaysOK
<1> QED BY <1>3, <1>4, <1>5 DEF RequestPass

LEMMA ReceiveFits ==
    ASSUME LoopOK, PlaysOK, NEW answer \in Answers, ReceiveAnswer(answer)
    PROVE  PlaysOK'
<1> DEFINE heard  == Recorded(Listed(Exchanged(answer), answer.calls))
           passed == ModelPass(answer)
           t      == turn
<1>1. /\ pc = "waiting" /\ UNCHANGED harness /\ IsTurn(turn) /\ MayAsk
      /\ Fit(t) /\ node = t.phase /\ outcome # "broken" /\ t.phase \in Homes
  BY DEF ReceiveAnswer, LoopOK, PlaysOK, Fit
<1>2. Passes(t, passed) /\ Counts(t, passed)
  BY <1>1, ModelPasses, PassCounts
<1>3. CASE \E reason \in {"cancelled", "failed"} : Aborts(reason, heard, FALSE)
  <2> HIDE DEF heard
  <2> QED BY <1>1, <1>3, AbortFits
<1> DEFINE u == passed.turn
<1>4. ASSUME passed.tag # "raised"
      PROVE  Fit(u) /\ u.phase = t.phase
  <2>1. SameBoard(t, u) /\ IsTurn(u) /\ Budgeted(u)
    BY <1>2, <1>4 DEF Passes, Counts
  <2> HIDE DEF u, t
  <2>2. Fit(u)
    BY <1>1, <2>1, SameBoardFits
  <2> QED BY <2>1, <2>2 DEF SameBoard
<1>5. CASE passed.tag = "goes" /\ Returns(node, u)
  <2>1. u.next = t.phase \/ (u.next = ToolsOf(t.phase) /\ HasTools(u))
    BY <1>2, <1>5 DEF Passes
  <2>2. Fit(u) /\ u.phase = t.phase
    BY <1>4, <1>5
  <2>3. Returns(node, u)
    BY <1>5
  <2>4. t.phase # ToolsOf(t.phase)
    BY <1>1 DEF ToolsOf, Homes
  <2> HIDE DEF u, t, passed
  <2>5. Leads(t, u)
    BY <1>1, <2>1, <2>2, <2>4 DEF Leads
  <2> QED BY <1>1, <2>2, <2>3, <2>5, ReturnFits
<1>6. CASE /\ passed.tag = "submits" /\ pc' = "batch" /\ work' = StartWork(u, TRUE)
           /\ UNCHANGED <<node, turn, outcome>>
  <2>1. Batched \/ harness = "one"
    BY <1>2, <1>6 DEF Passes
  <2>2. Fit(u) /\ u.phase = t.phase
    BY <1>4, <1>6
  <2>3. work' = StartWork(u, TRUE) /\ UNCHANGED <<node, turn, outcome>> /\ pc' = "batch"
    BY <1>6
  <2> HIDE DEF u, t
  <2> QED BY <1>1, <2>1, <2>2, <2>3, StartFits
<1>7. passed.tag \in {"raised", "goes", "submits"}
  BY <1>2 DEF Counts
<1> QED BY <1>3, <1>5, <1>6, <1>7 DEF ReceiveAnswer

LEMMA CallFits ==
    ASSUME LoopOK, PlaysOK, CallTool
    PROVE  PlaysOK'
<1> DEFINE item   == Head(work.left)
           result == Execute(item.call, work.board)
           t      == work.turn
<1>1. /\ pc = "batch" /\ UNCHANGED harness /\ Fit(t) /\ GoodBoard(work.board)
      /\ outcome # "broken" /\ t.phase \in Homes
      /\ DOMAIN work = {"turn", "left", "ran", "board", "decision", "branch", "inline"}
      /\ \/ node = t.phase /\ (Batched \/ harness = "one")
         \/ node = ToolsOf(t.phase) /\ HasTools(t)
  BY DEF CallTool, PlaysOK, Fit
<1>2. result.verdict \in {"ok", "rejected"} /\ GoodBoard(result.board)
  BY <1>1, ToolsStand
<1>3. CASE \E reason, after, rollback : reason # "broken" /\ Aborts(reason, after, rollback)
  BY <1>1, <1>3, AbortFits
<1>4. CASE result.verdict = "rejected" /\ Reject.tag # "raised"
  <2> DEFINE u == Reject.turn
  <2>1. Returns(node, u)
    BY <1>4 DEF CallTool
  <2>2. Fit(u) /\ u.phase = t.phase /\ u.next = t.phase
    BY <1>1, <1>4, RejectFits
  <2> HIDE DEF u, t
  <2>3. Leads(t, u)
    BY <2>2 DEF Leads
  <2> QED BY <1>1, <2>1, <2>2, <2>3, ReturnFits
<1>5. CASE result.verdict = "ok" /\ ~cancelled
  <2>1. /\ work' = [work EXCEPT !.left = Tail(@), !.ran = @ \cup {item.index},
                                !.board = result.board,
                                !.decision = IF item.call.tool = "submit_move" THEN item.call.move ELSE @,
                                !.branch = IF item.call.tool = "submit_move" THEN item.call.branch ELSE @]
        /\ UNCHANGED <<pc, node, turn, outcome>>
    BY <1>5 DEF CallTool
  <2> HIDE DEF item, result
  <2>2. /\ work'.turn = t /\ work'.board = result.board /\ DOMAIN work' = DOMAIN work
    BY <1>1, <2>1
  <2> HIDE DEF t
  <2> QED BY <1>1, <1>2, <2>1, <2>2, BatchFits
<1>6. CASE result.verdict = "rejected" /\ Reject.tag = "raised"
  BY <1>3, <1>6 DEF CallTool
<1>7. CASE result.verdict = "ok" /\ cancelled
  BY <1>3, <1>7 DEF CallTool
<1> QED BY <1>2, <1>4, <1>5, <1>6, <1>7

LEMMA FinishFits ==
    ASSUME LoopOK, PlaysOK, FinishBatch
    PROVE  PlaysOK'
<1> DEFINE t == work.turn
           u == Commit.turn
<1>1. /\ pc = "batch" /\ UNCHANGED harness /\ Fit(t) /\ GoodBoard(work.board) /\ t.phase \in Homes
      /\ \/ node = t.phase /\ (Batched \/ harness = "one")
         \/ node = ToolsOf(t.phase) /\ HasTools(t)
      /\ Returns(node, u)
  BY DEF FinishBatch, PlaysOK, Fit
<1>2. Settled(t, u)
  BY <1>1, CommitFits
<1>3. t.phase # ToolsOf(t.phase) /\ (Batched \/ harness = "one" => t.phase # "decide")
  BY <1>1 DEF ToolsOf, Homes
<1> HIDE DEF t, u
<1>4. Leads(t, u)
  BY <1>1, <1>2, <1>3 DEF Settled, Leads
<1> QED BY <1>1, <1>2, <1>4, ReturnFits DEF Settled

LEMMA PlaysKept ==
    ASSUME LoopOK, DecisionOK, PlaysOK, [Next]_vars
    PROVE  PlaysOK'
<1>1. CASE RequestPass
  BY <1>1, RequestFits
<1>2. CASE \E answer \in Answers : ReceiveAnswer(answer)
  BY <1>2, ReceiveFits
<1>3. CASE RunTools
  <2>1. /\ pc = "node" /\ node \in ToolNodes /\ UNCHANGED harness
        /\ Fit(turn) /\ turn.phase \in Homes /\ outcome # "broken"
    BY <1>3 DEF RunTools, PlaysOK, Fit
  <2>2. node = ToolsOf(turn.phase) /\ HasTools(turn)
    <3>1. turn.phase \notin ToolNodes /\ "end" \notin ToolNodes
      BY <2>1 DEF Homes, ToolNodes
    <3> QED BY <2>1, <3>1 DEF PlaysOK
  <2>3. turn.pending # <<>>
    BY <2>2 DEF HasTools
  <2>4. CASE \E reason, after, rollback : reason # "broken" /\ Aborts(reason, after, rollback)
    BY <2>1, <2>4, AbortFits
  <2>5. CASE pc' = "batch" /\ work' = StartWork(turn, FALSE) /\ UNCHANGED <<node, turn, outcome>>
    BY <2>1, <2>2, <2>5, StartFits
  <2>6. IF OutOfSteps THEN Aborts("recursion", row, FALSE)
        ELSE IF cancelled \/ turn.pending = <<>>
        THEN Aborts(IF cancelled THEN "cancelled" ELSE "broken", row, Batched /\ turn.pending # <<>>)
        ELSE <2>5!1
    BY <1>3 DEF RunTools
  <2> QED BY <2>3, <2>4, <2>5, <2>6
<1>4. CASE CallTool
  BY <1>4, CallFits
<1>5. CASE FinishBatch
  BY <1>5, FinishFits
<1>6. CASE EndTurn
  <2> DEFINE t == turn
  <2>1. UNCHANGED harness /\ Fit(t) /\ outcome # "broken"
    BY <1>6 DEF EndTurn, PlaysOK
  <2>2. CASE Aborts("failed", row, FALSE)
    BY <2>1, <2>2, AbortFits
  <2>3. CASE pc' = "done" /\ outcome' = "moved" /\ turn' = t
    <3> HIDE DEF t
    <3>1. Fit(turn)'
      BY <2>1, <2>3, FitNext
    <3> QED BY <2>3, <3>1 DEF PlaysOK
  <2> QED BY <1>6, <2>2, <2>3 DEF EndTurn
<1>7. CASE Cancel \/ UNCHANGED vars \/ Interrupt
  <2> DEFINE t == turn
             s == work.turn
             b == work.board
  <2>1. /\ UNCHANGED <<harness, turn, work, node>>
        /\ pc' \in {pc, "done"}
        /\ outcome' \in {outcome, "interrupted"}
    BY <1>7 DEF Cancel, vars, Interrupt
  <2>2. Fit(t) /\ turn' = t /\ outcome' # "broken"
    BY <2>1 DEF PlaysOK
  <2>3. pc' = "batch" => Fit(s) /\ GoodBoard(b) /\ work'.turn = s /\ work'.board = b
    BY <2>1 DEF PlaysOK
  <2> HIDE DEF t, s, b
  <2>4. Fit(turn)' /\ (pc' = "batch" => Fit(work.turn)' /\ GoodBoard(work.board)')
    BY <2>1, <2>2, <2>3, FitNext
  <2>5. /\ HasTools(turn)' <=> HasTools(turn)
        /\ HasTools(work.turn)' <=> HasTools(work.turn)
        /\ Batched' <=> Batched
    BY <2>1 DEF HasTools, Batched
  <2>6. /\ (pc' = "node" => pc = "node") /\ (pc' = "waiting" => pc = "waiting")
        /\ (pc' = "batch" => pc = "batch")
    BY <2>1
  <2> QED BY <2>1, <2>2, <2>4, <2>5, <2>6 DEF PlaysOK
<1> QED BY <1>1, <1>2, <1>3, <1>4, <1>5, <1>6, <1>7 DEF Next

LEMMA PlaysBegin ==
    ASSUME Init
    PROVE  PlaysOK
<1>1. /\ IsTurn(turn) /\ turn.nodes = {} /\ turn.active = Root /\ turn.scratch = <<>>
      /\ turn.toolCalls = 0 /\ turn.rejected = 0 /\ turn.errors = 0
  <2>1. IsTurn(turn)
    BY InitKeeps DEF LoopOK
  <2>2. /\ turn.nodes = {} /\ turn.active = Root /\ turn.scratch = <<>>
        /\ turn.toolCalls = 0 /\ turn.rejected = 0 /\ turn.errors = 0
    BY DEF Init, InitialTurn, Three!InitialTurn, Two!InitialTurn, One!InitialTurn,
           Base!InitialTurn, Three!PhaseState, Two!PhaseState,
           One!PhaseState, Base!PhaseState, Root, Three!Root, Two!Root, One!Root, Base!Root
  <2> QED BY <2>1, <2>2
<1>2. turn.phase \in Homes
  BY DEF Init, InitialTurn, Three!InitialTurn, Two!InitialTurn, One!InitialTurn,
         Base!InitialTurn, Three!PhaseState, Two!PhaseState,
         One!PhaseState, Base!PhaseState, Homes, Batched
<1>3. Budgeted(turn)
  BY <1>1, BudgetAssumption DEF Budgeted
<1>4. PlayedLine(<<>>)
  BY EmptyLine
<1>5. SoundTree({})
  BY FS_EmptySet DEF SoundTree
<1>6. GoodBoard(Board(turn))
  BY <1>1, <1>4, <1>5 DEF GoodBoard, SoundBoard, Board
<1>7. Fit(turn)
  BY <1>1, <1>2, <1>3, <1>6 DEF Fit
<1> QED BY <1>7 DEF Init, PlaysOK


----------------------------------------------------------------------------
(* The rest of the state, and the theorems.                                *)

Statuses == {"none", "running", "completed", "failed"}

LEMMA StatusKept ==
    ASSUME IsRow(row), row.status \in Statuses, NEW after, NEW reason, NEW rollback,
           Notes(row, after), Aborts(reason, after, rollback)
    PROVE  row'.status \in Statuses
<1>1. IsRow(after) /\ after.status \in Statuses
  BY DEF Notes
<1>2. Fail(after, rollback).status \in Statuses
  BY <1>1 DEF Fail, IsRow, Statuses
<1> QED BY <1>1, <1>2 DEF Aborts, Saves

LEMMA StatusSaved ==
    ASSUME NEW r, IsRow(r), r.status \in Statuses, NEW retried, NEW undone, NEW failing, NEW pending
    PROVE  StateSaved(r, retried, undone, failing, pending).status \in Statuses
<1> QED BY DEF StateSaved, IsRow, Statuses

LEMMA RowStatus ==
    ASSUME LoopOK, RecordOK, row.status \in Statuses, [Next]_vars
    PROVE  row'.status \in Statuses
<1>1. IsRow(row) /\ Notes(row, row)
  BY NoteCalls DEF RecordOK
<1>2. CASE \E reason : \E rollback : Aborts(reason, row, rollback)
  BY <1>1, <1>2, StatusKept
<1>3. CASE RequestPass
  <2>1. CASE row' = row
    BY <2>1
  <2>2. CASE Saves(Recorded(CaptureInput(Begin(row, turn.phase)))) /\ Recording
    <3>1. row' = CaptureInput(Begin(row, turn.phase))
      BY <2>2 DEF Saves, Recorded
    <3> QED BY <3>1 DEF CaptureInput, Begin, Statuses
  <2>3. CASE Saves(Recorded(CaptureInput(Begin(row, turn.phase)))) /\ ~Recording
    BY <2>3 DEF Saves, Recorded
  <2> QED BY <1>2, <1>3, <2>2, <2>3 DEF RequestPass
<1>4. CASE \E answer \in Answers : ReceiveAnswer(answer)
  <2>1. PICK answer \in Answers : ReceiveAnswer(answer)
    BY <1>4
  <2> DEFINE heard  == Recorded(Listed(Exchanged(answer), answer.calls))
             passed == ModelPass(answer)
  <2>2. Notes(row, heard)
    BY HeardNotes
  <2>3. IsRow(heard) /\ heard.status \in Statuses
    BY <2>2 DEF Notes
  <2>4. CASE \E reason : Aborts(reason, heard, FALSE)
    <3> HIDE DEF heard
    <3> QED BY <1>1, <2>2, <2>4, StatusKept
  <2>5. CASE Saves(Recorded(StateSaved(heard, passed.retried, {}, {}, passed.turn.pending # <<>>)))
    <3> HIDE DEF heard, passed
    <3>1. StateSaved(heard, passed.retried, {}, {}, passed.turn.pending # <<>>).status \in Statuses
      BY <2>3, StatusSaved
    <3> QED BY <2>5, <3>1 DEF Saves, Recorded
  <2>6. CASE Saves(heard)
    <3> HIDE DEF heard
    <3> QED BY <2>3, <2>6 DEF Saves
  <2>7. passed.tag \in {"raised", "goes", "submits"}
    <3>1. IsTurn(turn) /\ MayAsk
      BY <2>1 DEF ReceiveAnswer, LoopOK
    <3> QED BY <3>1, PassCounts DEF Counts
  <2> QED BY <2>1, <2>4, <2>5, <2>6, <2>7 DEF ReceiveAnswer
<1>5. CASE RunTools
  <2>1. (\E reason, rollback : Aborts(reason, row, rollback)) \/ row' = row
    BY <1>5 DEF RunTools
  <2> QED BY <1>2, <2>1
<1>6. CASE CallTool
  <2> DEFINE item   == Head(work.left)
             result == Execute(item.call, work.board)
             noted  == ToolFinished(ToolStarted(row, item.call), Sought(row, item.call),
                                    result.verdict # "ok")
             seen   == Recorded(noted)
  <2>1. Notes(row, seen)
    <3>1. Notes(row, ToolStarted(row, item.call))
      BY <1>1, NoteCalls
    <3>2. IsRow(ToolStarted(row, item.call))
      BY <3>1 DEF Notes
    <3>3. Notes(ToolStarted(row, item.call), noted)
      BY <3>2, NoteCalls
    <3>4. Notes(row, noted)
      <4> HIDE DEF noted
      <4> QED BY <3>1, <3>3, NoteTwice
    <3> HIDE DEF noted
    <3> QED BY <1>1, <3>4 DEF Recorded
  <2>2. IsRow(seen) /\ seen.status \in Statuses
    BY <2>1 DEF Notes
  <2>3. CASE \E reason : \E rollback : Aborts(reason, seen, rollback)
    <3> HIDE DEF seen
    <3> QED BY <1>1, <2>1, <2>3, StatusKept
  <2>4. CASE Saves(Recorded(StateSaved(seen, FALSE, work.ran, Failing(item.index), FALSE)))
    <3> HIDE DEF seen, item
    <3>1. StateSaved(seen, FALSE, work.ran, Failing(item.index), FALSE).status \in Statuses
      BY <2>2, StatusSaved
    <3> QED BY <2>4, <3>1 DEF Saves, Recorded
  <2>5. CASE Saves(seen)
    <3> HIDE DEF seen
    <3> QED BY <2>2, <2>5 DEF Saves
  <2> QED BY <1>6, <2>3, <2>4, <2>5 DEF CallTool
<1>7. CASE FinishBatch
  <2>1. Saves(Recorded(StateSaved(row, FALSE, {}, {}, FALSE)))
    BY <1>7 DEF FinishBatch
  <2>2. StateSaved(row, FALSE, {}, {}, FALSE).status \in Statuses
    BY <1>1, StatusSaved
  <2> QED BY <2>1, <2>2 DEF Saves, Recorded
<1>8. CASE EndTurn
  <2>1. (\E reason, rollback : Aborts(reason, row, rollback)) \/ row' = row
    BY <1>8 DEF EndTurn
  <2> QED BY <1>2, <2>1
<1>9. CASE Cancel \/ UNCHANGED vars
  BY <1>9 DEF Cancel, vars
<1>10. CASE Interrupt
  <2>1. Fail(row, FALSE).status \in Statuses
    BY <1>1 DEF Fail, IsRow, Statuses
  <2> QED BY <1>10, <2>1 DEF Interrupt, Saves, Recorded
<1> QED BY <1>3, <1>4, <1>5, <1>6, <1>7, <1>8, <1>9, <1>10 DEF Next

Outcomes == {"running", "moved", "failed", "cancelled", "interrupted", "recursion", "broken"}

\* What TypeOK says of the rest of the state.
RestOK ==
    /\ harness \in Harnesses /\ host \in Hosts
    /\ node \in DOMAIN Edges \cup {"end"}
    /\ row.status \in Statuses
    /\ cancelled \in BOOLEAN
    /\ outcome \in Outcomes
    /\ steps <= RecursionLimit

\* A node that returns and does not break the graph leads into it.
LEMMA ReturnStays ==
    ASSUME node \in DOMAIN Edges, NEW after, Returns(node, after), outcome' # "broken", outcome \in Outcomes
    PROVE  node' \in DOMAIN Edges \cup {"end"} /\ outcome' \in Outcomes
<1>1. CASE outcome = "interrupted"
  BY <1>1 DEF Returns, Outcomes
<1>2. CASE outcome # "interrupted"
  <2>1. node' \in Edges[node] /\ outcome' = outcome
    BY <1>2 DEF Returns
  <2> QED BY <2>1, Graphs
<1> QED BY <1>1, <1>2

LEMMA AbortStays ==
    ASSUME outcome \in Outcomes, NEW reason \in Outcomes, NEW after, NEW rollback,
           Aborts(reason, after, rollback)
    PROVE  outcome' \in Outcomes /\ node' = node
<1> QED BY DEF Aborts

LEMMA RestKept ==
    ASSUME LoopOK, RecordOK, DecisionOK, PlaysOK, RestOK, [Next]_vars
    PROVE  RestOK'
<1>1. row'.status \in Statuses
  BY RowStatus DEF RestOK
<1>2. UNCHANGED <<harness, host>>
  BY DEF Next, RequestPass, ReceiveAnswer, RunTools, CallTool, FinishBatch, EndTurn, Cancel,
         Interrupt, vars
<1>3. Edges' = Edges /\ RecursionLimit' = RecursionLimit
  BY <1>2 DEF Edges, RecursionLimit
<1>4. cancelled' \in BOOLEAN
  BY DEF Next, RequestPass, ReceiveAnswer, RunTools, CallTool, FinishBatch, EndTurn, Cancel,
         Interrupt, vars, RestOK
<1>5. steps' <= RecursionLimit
  <2>1. steps \in Nat /\ RecursionLimit \in Nat /\ steps <= RecursionLimit
    BY Room DEF LoopOK, RestOK
  <2>2. Superstep \/ steps' = steps
    BY DEF Next, RequestPass, ReceiveAnswer, RunTools, CallTool, FinishBatch, EndTurn, Cancel,
           Interrupt, vars
  <2> QED BY <2>1, <2>2 DEF Superstep, OutOfSteps
<1>6. node' \in DOMAIN Edges \cup {"end"} /\ outcome' \in Outcomes
  <2>1. /\ node \in DOMAIN Edges \cup {"end"} /\ outcome \in Outcomes
        /\ pc \in {"waiting", "batch"} => node \in DOMAIN Edges
        /\ outcome' # "broken"
    BY PlaysKept DEF RestOK, LoopOK, PlaysOK
  <2>2. CASE UNCHANGED <<node, outcome>>
    BY <2>1, <2>2
  <2>3. CASE \E reason \in Outcomes : \E after, rollback : Aborts(reason, after, rollback)
    BY <2>1, <2>3, AbortStays
  <2>4. CASE pc \in {"waiting", "batch"} /\ \E after : Returns(node, after)
    BY <2>1, <2>4, ReturnStays
  <2>5. CASE UNCHANGED node /\ outcome' \in {"moved", "interrupted"}
    BY <2>1, <2>5 DEF Outcomes
  <2>6. CASE RequestPass
    BY <2>2, <2>3, <2>6 DEF RequestPass, Outcomes
  <2>7. CASE \E answer \in Answers : ReceiveAnswer(answer)
    <3>1. PICK answer \in Answers : ReceiveAnswer(answer)
      BY <2>7
    <3>2. ModelPass(answer).tag \in {"raised", "goes", "submits"}
      <4>1. IsTurn(turn) /\ MayAsk
        BY <3>1 DEF ReceiveAnswer, LoopOK
      <4> QED BY <4>1, PassCounts DEF Counts
    <3> QED BY <2>2, <2>3, <2>4, <3>1, <3>2 DEF ReceiveAnswer, Outcomes
  <2>8. CASE RunTools
    BY <2>2, <2>3, <2>8 DEF RunTools, Outcomes
  <2>9. CASE CallTool
    BY <2>2, <2>3, <2>4, <2>9 DEF CallTool, Outcomes
  <2>10. CASE FinishBatch
    BY <2>4, <2>10 DEF FinishBatch
  <2>11. CASE EndTurn
    BY <2>3, <2>5, <2>11 DEF EndTurn, Outcomes
  <2>12. CASE Cancel \/ UNCHANGED vars
    BY <2>2, <2>12 DEF Cancel, vars
  <2>13. CASE Interrupt
    BY <2>5, <2>13 DEF Interrupt
  <2> QED BY <2>6, <2>7, <2>8, <2>9, <2>10, <2>11, <2>12, <2>13 DEF Next
<1> QED BY <1>1, <1>2, <1>3, <1>4, <1>5, <1>6 DEF RestOK

LEMMA RestBegins ==
    ASSUME Init
    PROVE  RestOK
<1>1. /\ harness \in Harnesses /\ host \in Hosts /\ row.status = "none"
      /\ cancelled = FALSE /\ outcome = "running" /\ steps = 0
  BY DEF Init, NoRow
<1>2. node \in DOMAIN Edges
  BY InitKeeps, PlaysBegin DEF LoopOK, PlaysOK, Init, InitialTurn, Three!InitialTurn, Two!InitialTurn,
     One!InitialTurn, Base!InitialTurn, Three!PhaseState, Two!PhaseState, One!PhaseState,
     Base!PhaseState, Edges, Three!Edges, Two!Edges, One!Edges, Base!Edges
<1>3. RecursionLimit \in Nat
  BY Room, InitKeeps DEF LoopOK
<1>4. steps <= RecursionLimit
  BY <1>1, <1>3
<1>5. row.status \in Statuses /\ outcome \in Outcomes /\ cancelled \in BOOLEAN
  BY <1>1 DEF Statuses, Outcomes
<1> QED BY <1>1, <1>2, <1>4, <1>5 DEF RestOK

TurnOK == LoopOK /\ RecordOK /\ DecisionOK /\ PlaysOK /\ RestOK

\* The inductive invariant of a turn of any player: who pays for a superstep,
\* which rows are open, which board and tree each node leaves to the next.
THEOREM TurnInvariant == Spec => []TurnOK
<1>1. Init => TurnOK
  BY InitKeeps, DecisionBegins, PlaysBegin, RestBegins DEF TurnOK
<1>2. TurnOK /\ [Next]_vars => TurnOK'
  BY StepKeeps, DecisionKept, PlaysKept, RestKept DEF TurnOK, Kept
<1> QED BY <1>1, <1>2, PTL DEF Spec

\* The budgets of a turn are kept, its node is one of its graph, and its row
\* and its outcome are known ones.
THEOREM TurnIsTyped == Spec => []TypeOK
<1>1. TurnOK => TypeOK
  <2> SUFFICES ASSUME TurnOK PROVE TypeOK
    OBVIOUS
  <2>1. steps \in 0 .. RecursionLimit
    BY Room DEF TurnOK, RestOK, LoopOK
  <2>2. turn.active \in Seq(Nat)
    <3>1. CASE Batched
      <4> DEFINE b == Board(turn)
      <4>1. SoundBoard(b) /\ b.active = turn.active
        BY <3>1 DEF TurnOK, PlaysOK, Fit, GoodBoard, Board
      <4> HIDE DEF b
      <4>2. turn.active \in Seq(Nat \ {0})
        BY <4>1, ScratchIsLine, GameAssumption
      <4> QED BY <4>2
    <3>2. CASE ~Batched
      <4>1. turn.active = Root
        BY <3>2 DEF TurnOK, PlaysOK, Fit, GoodBoard, Board
      <4>2. Root \in Seq(Nat)
        BY DEF Root
      <4> QED BY <4>1, <4>2
    <3> QED BY <3>1, <3>2
  <2> QED BY <2>1, <2>2 DEF TypeOK, TurnOK, RestOK, PlaysOK, Fit, Budgeted, IsTurn, LoopOK,
                            Statuses, Outcomes
<1> QED BY <1>1, TurnInvariant, PTL

\* The tree of tested lines stays a tree of legal lines, and no turn ever
\* breaks on a state of its own making: no tool and no prompt of any player
\* meets a board, a tree or a report that it raises ValueError for, and no
\* node asks for an edge the graph does not have.
THEOREM TreesAreSound == Spec => []TreeIsSound
<1>1. TurnOK => TreeIsSound
  <2> SUFFICES ASSUME TurnOK PROVE TreeIsSound
    OBVIOUS
  <2>1. outcome # "broken" /\ GoodBoard(Board(turn))
    BY DEF TurnOK, PlaysOK, Fit
  <2>2. CASE ~Batched
    BY <2>1, <2>2 DEF TreeIsSound, GoodBoard, Board
  <2>3. CASE Batched
    <3> DEFINE b == Board(turn)
    <3>1. SoundBoard(b) /\ b.nodes = turn.nodes /\ b.active = turn.active /\ b.scratch = turn.scratch
      BY <2>1, <2>3 DEF GoodBoard, Board
    <3> HIDE DEF b
    <3>2. MovesToBranch(turn.nodes, turn.active) = turn.scratch
      BY <3>1, ScratchIsLine, GameAssumption
    <3>3. SoundTree(turn.nodes)
      BY <3>1 DEF SoundBoard
    <3>4. ASSUME NEW n \in turn.nodes
          PROVE  /\ n.fen \in Plays /\ n.move = n.fen[Len(n.fen)]
                 /\ n.ply = Len(n.id) /\ n.ply = Len(n.fen) /\ n.ply <= MaxScratch
                 /\ n.parent = SubSeq(n.id, 1, Len(n.id) - 1)
                 /\ n.parent # Root =>
                      \E p \in turn.nodes : /\ p.id = n.parent /\ ~p.terminal
                                            /\ p.fen = SubSeq(n.fen, 1, Len(n.fen) - 1)
                 /\ n.id[Len(n.id)] <= Cardinality(ChildNodes(turn.nodes, n.parent))
      BY <3>3, <3>4, SoundForm
    <3>5. \A m, n \in turn.nodes : m.id = n.id \/ (m.parent = n.parent /\ m.move = n.move) => m = n
      BY <3>3 DEF SoundTree
    <3> QED BY <2>1, <3>2, <3>4, <3>5 DEF TreeIsSound
  <2> QED BY <2>2, <2>3
<1> QED BY <1>1, TurnInvariant, PTL
=============================================================================
