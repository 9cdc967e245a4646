------------------------ MODULE PositionQueueProofs ------------------------
(***************************************************************************)
(* Proofs about PositionQueue, for every set of processes, queues and      *)
(* positions, every number of attempts, faults and late transactions, with *)
(* and without leases that drop.                                           *)
(*                                                                         *)
(* First the types.  Then IInv is shown to be an inductive invariant: what *)
(* each transaction does to the rows (RowInv), which steps leave workers   *)
(* and abandoned transactions harmless (WorkerInv, LateInv), one lemma per *)
(* group of actions.  The safety properties follow, and, from what a step  *)
(* can do to a row, the action properties and that the queue implements    *)
(* QueueLedger.                                                            *)
(***************************************************************************)
EXTENDS PositionQueue, TLAPS

----------------------------------------------------------------------------
(* Types of rows, tables and transactions.                                 *)

LEMMA RowTypes ==
    /\ NoRow \in Row /\ DeletedRow \in Row
    /\ \A n \in Nat : QueuedRow(n) \in Row
  BY DEF NoRow, DeletedRow, QueuedRow, Row, Grades

LEMMA CallFields ==
  ASSUME NEW c \in Call
  PROVE  /\ c.op \in Writes \cup {"recover", "claim"}
         /\ c.op \in Writes => c.run \in RunId
         /\ c.grade \in Grades /\ c.stage \in Stages
BY DEF Call, Writes

LEMMA UpdatedType ==
  ASSUME runs \in [RunId -> Row], NEW r \in RunId, NEW row \in Row
  PROVE  Updated(r, row) \in [RunId -> Row]
BY DEF Updated

LEMMA SaveMoveType ==
  ASSUME runs \in [RunId -> Row], NEW r \in RunId
  PROVE  SaveMoveOf(r) \in [RunId -> Row]
<1>1. runs[r] \in Row
  OBVIOUS
<1>2. [runs[r] EXCEPT !.move = TRUE] \in Row
  BY <1>1 DEF Row
<1> QED BY <1>2, UpdatedType DEF SaveMoveOf

LEMMA FinishErrorType ==
  ASSUME runs \in [RunId -> Row], NEW r \in RunId
  PROVE  FinishErrorOf(r) \in [RunId -> Row]
<1>1. runs[r] \in Row
  OBVIOUS
<1>2. [runs[r] EXCEPT !.status = "failed", !.move = FALSE, !.grade = "none"] \in Row
  BY <1>1 DEF Row, Grades
<1> QED BY <1>2, UpdatedType DEF FinishErrorOf

LEMMA FinishGradeType ==
  ASSUME runs \in [RunId -> Row], NEW r \in RunId, NEW g \in Grades
  PROVE  FinishGradeOf(r, g) \in [RunId -> Row]
<1>1. runs[r] \in Row
  OBVIOUS
<1>2. [runs[r] EXCEPT !.status = IF g = "failed" THEN "failed" ELSE "completed",
                      !.move = TRUE, !.grade = g] \in Row
  BY <1>1 DEF Row, Grades
<1> QED BY <1>2, UpdatedType DEF FinishGradeOf

LEMMA FinishItemType ==
  ASSUME runs \in [RunId -> Row], NEW r \in RunId, NEW s \in Stages
  PROVE  FinishItemOf(r, s) \in [RunId -> Row]
BY DEF FinishItemOf, Row

\* Every transaction of a worker maps tables to tables.
LEMMA EffectType ==
  ASSUME runs \in [RunId -> Row], NEW c \in Call, c.op \in Writes
  PROVE  Effect(c) \in [RunId -> Row]
BY CallFields, SaveMoveType, FinishErrorType, FinishGradeType, FinishItemType
   DEF Effect, Writes

LEMMA RecoveredType ==
  ASSUME runs \in [RunId -> Row] PROVE Recovered \in [RunId -> Row]
BY DEF Recovered, RecoveredRow, Row

LEMMA ClaimType ==
  ASSUME runs \in [RunId -> Row], NEW r \in RunId PROVE ClaimOf(r) \in [RunId -> Row]
BY DEF ClaimOf, Row

LEMMA OutcomesType ==
  ASSUME runs \in [RunId -> Row], NEW c \in Call
  PROVE  \A table \in Outcomes(c) : table \in [RunId -> Row]
BY CallFields, EffectType, RecoveredType, ClaimType DEF Outcomes, Writes

LEMMA CallType ==
  ASSUME TypeOK, NEW p \in Procs
  PROVE  /\ CallOf(p).op = pc[p] /\ CallOf(p).run = item[p]
         /\ pc[p] \in Writes => CallOf(p) \in Call
         /\ pc[p] \in {"recover", "claim"} => CallOf(p) \in Call
BY NoRunAssumption DEF TypeOK, CallOf, Call, Writes, Attempting

----------------------------------------------------------------------------
(* Type correctness.                                                       *)

LEMMA InitTypeOK == Init => TypeOK
BY RowTypes, QueueAssumption DEF Init, TypeOK, PC, Stages, Grades, Attempting

LEMMA ApiTypeOK == TypeOK /\ Api => TypeOK'
<1> SUFFICES ASSUME TypeOK, Api PROVE TypeOK'
  OBVIOUS
<1>1. runs \in [RunId -> Row] /\ clock \in Nat
  BY DEF TypeOK
<1>2. \A r \in RunId : SupersededRow(runs[r]) \in Row /\ ReopenedRow(runs[r]) \in Row
  BY <1>1 DEF SupersededRow, ReopenedRow, Row
<1>3. UNCHANGED <<holder, local, late, faults>>
  BY DEF Api, Enqueue, RetryFailed, Stop, DeleteQueue, DeleteRun, Delete
<1>4. runs' \in [RunId -> Row] /\ clock' \in Nat
  <2>1. ASSUME NEW q \in Queues, NEW chosen, Enqueue(q, chosen)
        PROVE  runs' \in [RunId -> Row] /\ clock' \in Nat
    BY <1>1, <2>1, RowTypes DEF Enqueue
  <2>2. ASSUME NEW q \in Queues, RetryFailed(q)
        PROVE  runs' \in [RunId -> Row] /\ clock' \in Nat
    BY <1>1, <1>2, <2>2, RowTypes DEF RetryFailed
  <2>3. ASSUME NEW q \in Queues, Stop(q)
        PROVE  runs' \in [RunId -> Row] /\ clock' \in Nat
    BY <1>1, <2>3 DEF Stop, Row
  <2>4. ASSUME NEW rows, Delete(rows)
        PROVE  runs' \in [RunId -> Row] /\ clock' \in Nat
    BY <1>1, <2>4, RowTypes DEF Delete
  <2> QED BY <2>1, <2>2, <2>3, <2>4 DEF Api, DeleteQueue, DeleteRun
<1> QED BY <1>3, <1>4 DEF TypeOK, local

LEMMA ServeTypeOK ==
  ASSUME TypeOK, NEW p \in Procs, Serve(p) PROVE TypeOK'
<1> USE DEF NoFault, Keep, Goto, PC, Waiting, Attempting
<1>1. CASE AcquireLease(p)
  BY <1>1 DEF AcquireLease, TypeOK
<1>2. CASE Recover(p)
  BY <1>2, RecoveredType DEF Recover, TypeOK
<1>3. CASE CheckLease(p)
  BY <1>3 DEF CheckLease, TypeOK
<1>4. CASE ClaimNext(p)
  BY <1>4, ClaimType, NoRunAssumption DEF ClaimNext, TypeOK
<1>5. CASE ClaimNothing(p)
  BY <1>5 DEF ClaimNothing, TypeOK
<1> QED BY <1>1, <1>2, <1>3, <1>4, <1>5 DEF Serve

LEMMA ExecuteTypeOK ==
  ASSUME TypeOK, NEW p \in Procs, Execute(p) PROVE TypeOK'
<1> USE DEF NoFault, Keep, Goto, PC, Waiting, Attempting
<1>0. pc[p] \in Writes => Effect(CallOf(p)) \in [RunId -> Row]
  BY CallType, EffectType DEF TypeOK
<1>1. CASE Begin(p)
  BY <1>1 DEF Begin, FailedBy, TypeOK, Stages
<1>2. CASE ChooseMove(p)
  BY <1>2 DEF ChooseMove, FailedBy, TypeOK, Stages
<1>3. CASE FinishError(p)
  BY <1>0, <1>3 DEF FinishError, TypeOK, Writes
<1>4. CASE SaveMove(p)
  BY <1>0, <1>4 DEF SaveMove, TypeOK, Writes
<1>5. CASE Evaluate(p)
  BY <1>5 DEF Evaluate, TypeOK, Grades
<1>6. CASE FinishGrade(p)
  BY <1>0, <1>6 DEF FinishGrade, TypeOK, Writes
<1>7. CASE ReadBack(p)
  BY <1>7 DEF ReadBack, TypeOK, Stages
<1>8. CASE FinishItem(p)
  BY <1>0, <1>8 DEF FinishItem, Forget, CloseLease, TypeOK, Writes, Stages, Grades
<1> QED
  BY <1>1, <1>2, <1>3, <1>4, <1>5, <1>6, <1>7, <1>8 DEF Execute

LEMMA InterruptTypeOK ==
  ASSUME TypeOK, NEW p \in Procs, NEW why \in {"timeout", "interrupted"},
         Interrupt(p, why), faults' \in 0..MaxFaults
  PROVE  TypeOK'
<1>1. pc' \in [Procs -> PC]
  BY DEF Interrupt, Goto, TypeOK, PC, Attempting, Waiting
<1>2. \A q \in Procs : item[q] # NoRun <=> pc'[q] \in Attempting \cup {"finish_item"}
  BY DEF Interrupt, Goto, TypeOK, PC, Attempting, Waiting
<1>3. stage' \in [Procs -> Stages] /\ grade' \in [Procs -> Grades]
  BY DEF Interrupt, TypeOK, Stages, Grades
<1>4. late' \subseteq Call
  BY CallType DEF Interrupt, Leave, TypeOK
<1> QED BY <1>1, <1>2, <1>3, <1>4 DEF Interrupt, TypeOK

LEMMA DisturbTypeOK ==
  ASSUME TypeOK, NEW p \in Procs, Disturb(p) PROVE TypeOK'
<1>f. Fault => faults' \in 0..MaxFaults
  BY QueueAssumption DEF Fault, TypeOK
<1>0. pc[p] \in Writes => CallOf(p) \in Call /\ Effect(CallOf(p)) \in [RunId -> Row]
  BY CallType, EffectType DEF TypeOK
<1>1. CASE TimeOut(p)
  BY <1>1, InterruptTypeOK DEF TimeOut, NoFault, TypeOK
<1>2. CASE Shutdown(p)
  <2>1. CASE Interrupt(p, "interrupted")
    BY <1>2, <1>f, <2>1, InterruptTypeOK DEF Shutdown
  <2>2. CASE ~Interrupt(p, "interrupted")
    <3>1. /\ Goto(p, "down") /\ Forget(p) /\ CloseLease(p)
          /\ UNCHANGED <<runs, clock>> /\ faults' \in 0..MaxFaults
          /\ \/ UNCHANGED late
             \/ pc[p] \in {"recover", "claim", "finish_item"} /\ Leave(p)
      BY <1>2, <1>f, <2>2 DEF Shutdown
    <3>2. late' \subseteq Call
      BY <1>0, <3>1, CallType DEF Leave, TypeOK, Writes
    <3> QED
      BY <3>1, <3>2 DEF Goto, Forget, CloseLease, TypeOK, PC, Attempting, Stages, Grades
  <2> QED BY <2>1, <2>2
<1>3. CASE Crash(p)
  BY <1>3, <1>f DEF Crash, Goto, Forget, CloseLease, TypeOK, PC, Attempting, Stages, Grades
<1>4. CASE CallFails(p)
  <2>1. runs' \in [RunId -> Row]
    <3>1. pc[p] \in Writes \cup {"recover", "claim"} =>
            \A table \in Outcomes(CallOf(p)) : table \in [RunId -> Row]
      BY CallType, OutcomesType DEF TypeOK
    <3>2. pc[p] \notin Writes \cup {"recover", "claim"} => Outcomes(CallOf(p)) = {}
      BY CallType DEF Outcomes
    <3> QED BY <1>4, <3>1, <3>2 DEF CallFails, TypeOK
  <2>2. faults' \in 0..MaxFaults /\ UNCHANGED <<clock, late>>
    BY <1>4, <1>f DEF CallFails
  <2>3. CASE Goto(p, "acquire") /\ Forget(p) /\ CloseLease(p)
    BY <2>1, <2>2, <2>3
       DEF Goto, Forget, CloseLease, TypeOK, PC, Waiting, Attempting, Stages, Grades
  <2>4. CASE /\ pc[p] \in Attempting /\ Goto(p, "finish_item")
             /\ stage' \in [Procs -> Stages]
             /\ UNCHANGED <<holder, item, grade>>
    BY <2>1, <2>2, <2>4 DEF Goto, TypeOK, PC, Attempting
  <2>5. \/ UNCHANGED stage \/ FailedBy(p, "execution")
        \/ stage' = [stage EXCEPT ![p] = "execution"]
        => stage' \in [Procs -> Stages]
    BY DEF FailedBy, TypeOK, Stages
  <2> QED BY <1>4, <2>3, <2>4, <2>5 DEF CallFails
<1> QED BY <1>1, <1>2, <1>3, <1>4 DEF Disturb

LEMMA StepTypeOK == TypeOK /\ [Next]_vars => TypeOK'
<1> SUFFICES ASSUME TypeOK, [Next]_vars PROVE TypeOK'
  OBVIOUS
<1>1. CASE Api
  BY <1>1, ApiTypeOK
<1>2. ASSUME NEW p \in Procs, Serve(p) \/ Execute(p) \/ Disturb(p)
      PROVE  TypeOK'
  BY <1>2, ServeTypeOK, ExecuteTypeOK, DisturbTypeOK
<1>3. ASSUME NEW p \in Procs, Restart(p) PROVE TypeOK'
  BY <1>3 DEF Restart, Goto, Keep, NoFault, TypeOK, PC, Waiting, Attempting
<1>4. CASE DropLease
  BY <1>4, QueueAssumption DEF DropLease, Fault, TypeOK, local
<1>5. CASE LateWrite
  <2>1. PICK c \in late : late' = late \ {c} /\ runs' \in {runs} \cup Outcomes(c)
    BY <1>5 DEF LateWrite
  <2>2. runs' \in [RunId -> Row]
    BY <2>1, OutcomesType DEF TypeOK
  <2> QED BY <1>5, <2>1, <2>2 DEF LateWrite, TypeOK, local
<1>6. CASE UNCHANGED vars
  BY <1>6 DEF vars, TypeOK
<1> QED BY <1>1, <1>2, <1>3, <1>4, <1>5, <1>6 DEF Next

\* Every reachable state is well typed.
THEOREM TypeCorrect == Spec => []TypeOK
BY InitTypeOK, StepTypeOK, PTL DEF Spec

----------------------------------------------------------------------------
(* Rows.                                                                   *)

\* What a step keeps of the rows that were executed: their results, unless
\* they are deleted.
Kept ==
    \A r \in RunId : Claimed(r) =>
        \/ runs'[r].status = "deleted" /\ runs'[r].grade = "none" /\ ~runs'[r].move
        \/ /\ Claimed(r)' /\ runs[r].status # "deleted"
           /\ runs'[r].grade = runs[r].grade /\ runs'[r].move = runs[r].move

LEMMA RowFields ==
  ASSUME TypeOK, NEW r \in RunId
  PROVE  /\ runs[r] \in Row
         /\ runs[r].status \in {"absent", "queued", "running", "completed",
                                "failed", "skipped", "deleted"}
         /\ runs[r].created \in Nat
         /\ runs[r].superseded \in BOOLEAN
         /\ runs[r].stop \in BOOLEAN
         /\ runs[r].move \in BOOLEAN
         /\ runs[r].grade \in Grades
BY DEF TypeOK, Row

LEMMA EnqueueRows ==
  ASSUME TypeOK, RowInv, NEW q \in Queues, NEW chosen, Enqueue(q, chosen)
  PROVE  RowInv' /\ Kept
<1> DEFINE New(r) == r.queue = q /\ r.pos \in chosen /\ r.attempt = 1
<1>1. /\ \A r \in RunId : New(r) => runs'[r] = QueuedRow(clock')
      /\ \A r \in RunId : ~New(r) => runs'[r] = runs[r]
      /\ \A r \in RunId : r.queue = q => runs[r].status = "absent"
      /\ \A r \in RunId : ~Active(r)
  BY DEF Enqueue, NothingActive
<1>2. \A r \in RunId : New(r) =>
        /\ runs'[r].status = "queued" /\ runs'[r].created = clock'
        /\ ~runs'[r].superseded /\ ~runs'[r].stop /\ ~runs'[r].move
        /\ runs'[r].grade = "none"
  BY <1>1 DEF QueuedRow, NoRow
<1> HIDE DEF New
<1>3. \A r \in RunId : Active(r)' => New(r)
  BY <1>1 DEF Active
<1>4. OneRunning' /\ OneActiveQueue' /\ CompletedIffGraded' /\ UntouchedIsEmpty'
      /\ SupersededIsSettled' /\ GradedIsAnswered'
  <2>1. OneRunning' /\ OneActiveQueue'
    BY <1>2, <1>3 DEF OneRunning, OneActiveQueue, New, Active
  <2>2. CompletedIffGraded' /\ UntouchedIsEmpty'
    BY <1>1, <1>2 DEF RowInv, CompletedIffGraded, UntouchedIsEmpty
  <2>3. SupersededIsSettled' /\ GradedIsAnswered'
    BY <1>1, <1>2 DEF RowInv, SupersededIsSettled, GradedIsAnswered
  <2> QED BY <2>1, <2>2, <2>3
<1>5. StoppedQueueHasNothingQueued'
  <2> SUFFICES ASSUME NEW r \in RunId, NEW s \in RunId, r.queue = s.queue,
                      Current(r)', runs'[r].stop, runs'[s].status = "queued"
               PROVE  FALSE
    BY DEF StoppedQueueHasNothingQueued
  <2>1. New(s)
    BY <1>3 DEF Active
  <2>2. ~New(r)
    BY <1>2
  <2>3. runs'[r] = runs[r] /\ runs[r].status = "absent"
    BY <1>1, <2>1, <2>2 DEF New
  <2> QED BY <2>3 DEF Current, Live
<1>6. AttemptsFollow'
  <2> SUFFICES ASSUME NEW r \in RunId, NEW s \in RunId, r.queue = s.queue,
                      r.pos = s.pos, s.attempt < r.attempt,
                      runs'[r].status # "absent"
               PROVE  runs'[s].superseded \/ runs'[s].status = "deleted"
    BY DEF AttemptsFollow
  <2>1. ~New(r)
    BY DEF New, RunId
  <2>2. runs'[r] = runs[r] /\ r.queue # q
    BY <1>1, <2>1
  <2>3. runs'[s] = runs[s]
    BY <1>1, <2>2 DEF New
  <2> QED BY <2>2, <2>3 DEF RowInv, AttemptsFollow
<1>7. Kept
  <2>1. \A r \in RunId : Claimed(r) => runs'[r] = runs[r]
    BY <1>1 DEF Claimed, New
  <2>2. \A r \in RunId : runs[r].status = "deleted" =>
           runs[r].grade = "none" /\ ~runs[r].move
    BY DEF RowInv, UntouchedIsEmpty
  <2> QED BY <2>1, <2>2 DEF Kept, Claimed
<1> QED BY <1>4, <1>5, <1>6, <1>7 DEF RowInv

LEMMA RetryRows ==
  ASSUME TypeOK, RowInv, NEW q \in Queues, RetryFailed(q)
  PROVE  RowInv' /\ Kept
<1> DEFINE Old(r) == r \in Retryable(q)
           New(r) == \E s \in Retryable(q) : Replaces(r, s)
           Other(r) == r.queue = q /\ Current(r) /\ ~Old(r)
<1>1. \A r, s \in RunId : Replaces(r, s) =>
        r.queue = s.queue /\ r.pos = s.pos /\ s.attempt < r.attempt
  BY DEF Replaces, RunId
<1>2. \A s \in RunId : Old(s) =>
        /\ s.queue = q /\ runs[s].status \in {"failed", "skipped"}
        /\ ~runs[s].superseded
  BY DEF Retryable, RowsOf, Current
<1>3. \A r \in RunId : New(r) => runs[r].status = "absent" /\ r.queue = q
  <2> SUFFICES ASSUME NEW r \in RunId, NEW s \in RunId, Old(s), Replaces(r, s)
               PROVE  runs[r].status = "absent" /\ r.queue = q
    BY DEF Retryable, RowsOf
  <2> QED BY <1>1, <1>2 DEF RowInv, AttemptsFollow
<1>4. \A r \in RunId : runs'[r] = CASE Old(r) -> SupersededRow(runs[r])
                                    [] New(r) -> QueuedRow(clock')
                                    [] Other(r) -> ReopenedRow(runs[r])
                                    [] OTHER -> runs[r]
  BY DEF RetryFailed
<1>5. \A r \in RunId : ~Active(r)
  BY DEF RetryFailed, NothingActive
<1>6. \A r \in RunId : New(r) =>
        /\ runs'[r].status = "queued" /\ runs'[r].created = clock'
        /\ ~runs'[r].superseded /\ ~runs'[r].stop /\ ~runs'[r].move
        /\ runs'[r].grade = "none"
  <2>1. \A r \in RunId : New(r) => ~Old(r) /\ ~Other(r)
    BY <1>2, <1>3 DEF Current, Live
  <2>2. \A r \in RunId : New(r) => runs'[r] = QueuedRow(clock')
    BY <1>4, <2>1
  <2> QED BY <2>2 DEF QueuedRow, NoRow
<1> HIDE DEF New
<1>7. \A r \in RunId : ~New(r) =>
        /\ runs'[r].status = runs[r].status /\ runs'[r].created = runs[r].created
        /\ runs'[r].move = runs[r].move /\ runs'[r].grade = runs[r].grade
        /\ runs'[r].superseded = (runs[r].superseded \/ Old(r))
        /\ Other(r) => ~runs'[r].stop
  <2> SUFFICES ASSUME NEW r \in RunId, ~New(r)
               PROVE  /\ runs'[r].status = runs[r].status
                      /\ runs'[r].created = runs[r].created
                      /\ runs'[r].move = runs[r].move /\ runs'[r].grade = runs[r].grade
                      /\ runs'[r].superseded = (runs[r].superseded \/ Old(r))
                      /\ Other(r) => ~runs'[r].stop
    OBVIOUS
  <2>1. CASE Old(r)
    BY <1>4, <2>1, RowFields DEF SupersededRow, Row
  <2>2. CASE Other(r)
    BY <1>4, <2>2, RowFields DEF ReopenedRow, Row
  <2>3. CASE ~Old(r) /\ ~Other(r)
    BY <1>4, <2>3, RowFields
  <2> QED BY <2>1, <2>2, <2>3
<1> HIDE DEF Old, Other
<1>8. \A r \in RunId : Active(r)' => New(r)
  BY <1>5, <1>7 DEF Active
<1>9. OneRunning' /\ OneActiveQueue'
  BY <1>3, <1>6, <1>8 DEF OneRunning, OneActiveQueue, Active
<1>10. CompletedIffGraded' /\ UntouchedIsEmpty' /\ GradedIsAnswered'
  BY <1>6, <1>7 DEF RowInv, CompletedIffGraded, UntouchedIsEmpty, GradedIsAnswered
<1>11. SupersededIsSettled'
  BY <1>2, <1>6, <1>7 DEF RowInv, SupersededIsSettled
<1>12. StoppedQueueHasNothingQueued'
  <2> SUFFICES ASSUME NEW r \in RunId, NEW s \in RunId, r.queue = s.queue,
                      Current(r)', runs'[r].stop, runs'[s].status = "queued"
               PROVE  FALSE
    BY DEF StoppedQueueHasNothingQueued
  <2>1. New(s) /\ ~New(r)
    BY <1>6, <1>8 DEF Active
  <2>2. r.queue = q
    BY <1>3, <2>1
  <2>3. Current(r) /\ ~Old(r)
    BY <1>7, <2>1, RowFields DEF Current, Live
  <2>4. Other(r)
    BY <2>2, <2>3 DEF Other
  <2> QED BY <1>7, <2>1, <2>4
<1>13. AttemptsFollow'
  <2> SUFFICES ASSUME NEW r \in RunId, NEW s \in RunId, r.queue = s.queue,
                      r.pos = s.pos, s.attempt < r.attempt,
                      runs'[r].status # "absent"
               PROVE  runs'[s].superseded \/ runs'[s].status = "deleted"
    BY DEF AttemptsFollow
  <2>1. CASE ~New(r)
    <3>1. runs[s].superseded \/ runs[s].status = "deleted"
      BY <1>7, <2>1 DEF RowInv, AttemptsFollow
    <3>2. ~New(s)
      <4> SUFFICES ASSUME New(s) PROVE FALSE
        OBVIOUS
      <4>1. runs[s].status = "absent"
        BY <1>3
      <4> QED BY <3>1, <4>1 DEF RowInv, SupersededIsSettled
    <3> QED BY <1>7, <3>1, <3>2, RowFields
  <2>2. CASE New(r)
    <3>1. PICK t \in RunId : Old(t) /\ Replaces(r, t)
      BY <2>2 DEF New, Old, Retryable, RowsOf
    <3>2. t.queue = s.queue /\ t.pos = s.pos /\ r.attempt = t.attempt + 1
      BY <1>1, <3>1 DEF Replaces, RunId
    <3>3. CASE s = t
      <4>1. ~New(s)
        BY <1>2, <1>3, <3>1, <3>3
      <4> QED BY <1>7, <3>1, <3>3, <4>1
    <3>4. CASE s # t
      <4>1. s.attempt < t.attempt
        BY <3>2, <3>4 DEF RunId
      <4>2. runs[s].superseded \/ runs[s].status = "deleted"
        BY <1>2, <3>1, <3>2, <4>1 DEF RowInv, AttemptsFollow
      <4>3. ~New(s)
        <5> SUFFICES ASSUME New(s) PROVE FALSE
          OBVIOUS
        <5>1. runs[s].status = "absent"
          BY <1>3
        <5> QED BY <4>2, <5>1 DEF RowInv, SupersededIsSettled
      <4> QED BY <1>7, <4>2, <4>3, RowFields
    <3> QED BY <3>3, <3>4
  <2> QED BY <2>1, <2>2
<1>14. Kept
  <2>1. \A r \in RunId : Claimed(r) => ~New(r)
    BY <1>3 DEF Claimed
  <2>2. \A r \in RunId : runs[r].status = "deleted" =>
           runs[r].grade = "none" /\ ~runs[r].move
    BY DEF RowInv, UntouchedIsEmpty
  <2> QED BY <1>7, <2>1, <2>2 DEF Kept, Claimed
<1> QED BY <1>9, <1>10, <1>11, <1>12, <1>13, <1>14 DEF RowInv

LEMMA StopRows ==
  ASSUME TypeOK, RowInv, NEW q \in Queues, Stop(q)
  PROVE  RowInv' /\ Kept
<1>1. \A r \in RunId :
        /\ runs'[r].status = IF r \in RowsOf(q) /\ runs[r].status = "queued"
                             THEN "skipped" ELSE runs[r].status
        /\ runs'[r].created = runs[r].created
        /\ runs'[r].superseded = runs[r].superseded
        /\ runs'[r].move = runs[r].move /\ runs'[r].grade = runs[r].grade
        /\ r \notin RowsOf(q) => runs'[r].stop = runs[r].stop
  BY RowFields DEF Stop, Row
<1>2. \A r \in RunId : r.queue = q => runs'[r].status # "queued"
  BY <1>1, RowFields DEF RowsOf, Live
<1>3. OneRunning' /\ OneActiveQueue'
  BY <1>1 DEF RowInv, OneRunning, OneActiveQueue, Active
<1>4. CompletedIffGraded' /\ UntouchedIsEmpty' /\ GradedIsAnswered'
  BY <1>1 DEF RowInv, CompletedIffGraded, UntouchedIsEmpty, GradedIsAnswered
<1>5. SupersededIsSettled' /\ AttemptsFollow'
  BY <1>1 DEF RowInv, SupersededIsSettled, AttemptsFollow
<1>6. StoppedQueueHasNothingQueued'
  <2> SUFFICES ASSUME NEW r \in RunId, NEW s \in RunId, r.queue = s.queue,
                      Current(r)', runs'[r].stop, runs'[s].status = "queued"
               PROVE  FALSE
    BY DEF StoppedQueueHasNothingQueued
  <2>1. r \notin RowsOf(q) /\ s \notin RowsOf(q)
    BY <1>2, <1>1 DEF RowsOf
  <2>2. Current(r) /\ runs[r].stop /\ runs[s].status = "queued"
    BY <1>1, <2>1, RowFields DEF Current, Live
  <2> QED BY <2>2 DEF RowInv, StoppedQueueHasNothingQueued
<1>7. Kept
  BY <1>1 DEF Kept, Claimed, RowInv, UntouchedIsEmpty
<1> QED BY <1>3, <1>4, <1>5, <1>6, <1>7 DEF RowInv

LEMMA DeleteRows ==
  ASSUME TypeOK, RowInv, NEW rows \in SUBSET RunId, Delete(rows),
         \A r \in rows : Live(r)
  PROVE  RowInv' /\ Kept
<1>1. \A r \in rows : /\ runs'[r].status = "deleted" /\ runs'[r].grade = "none"
                      /\ ~runs'[r].move /\ ~runs'[r].superseded /\ ~runs'[r].stop
  BY DEF Delete, DeletedRow, NoRow
<1>2. \A r \in RunId \ rows : runs'[r] = runs[r]
  BY DEF Delete
<1>3. \A r \in RunId : Active(r)' => Active(r) /\ runs'[r] = runs[r]
  BY <1>1, <1>2 DEF Active
<1>4. OneRunning' /\ OneActiveQueue'
  BY <1>3 DEF RowInv, OneRunning, OneActiveQueue, Active
<1>5. CompletedIffGraded' /\ UntouchedIsEmpty' /\ GradedIsAnswered'
  BY <1>1, <1>2 DEF RowInv, CompletedIffGraded, UntouchedIsEmpty, GradedIsAnswered
<1>6. SupersededIsSettled'
  BY <1>1, <1>2 DEF RowInv, SupersededIsSettled
<1>7. AttemptsFollow'
  <2> SUFFICES ASSUME NEW r \in RunId, NEW s \in RunId, r.queue = s.queue,
                      r.pos = s.pos, s.attempt < r.attempt,
                      runs'[r].status # "absent"
               PROVE  runs'[s].superseded \/ runs'[s].status = "deleted"
    BY DEF AttemptsFollow
  <2>1. runs[r].status # "absent"
    BY <1>2 DEF Live
  <2> QED BY <1>1, <1>2, <2>1 DEF RowInv, AttemptsFollow
<1>8. StoppedQueueHasNothingQueued'
  BY <1>1, <1>2 DEF RowInv, StoppedQueueHasNothingQueued, Current, Live
<1>9. Kept
  <2>1. \A r \in RunId : runs[r].status = "deleted" =>
           runs[r].grade = "none" /\ ~runs[r].move
    BY DEF RowInv, UntouchedIsEmpty
  <2> QED BY <1>1, <1>2, <2>1 DEF Kept, Claimed
<1> QED BY <1>4, <1>5, <1>6, <1>7, <1>8, <1>9 DEF RowInv

LEMMA RecoveredRows ==
  ASSUME TypeOK, RowInv, runs' = Recovered
  PROVE  RowInv' /\ Kept
<1>1. \A r \in RunId :
        /\ runs'[r].status = IF runs[r].status = "running"
                             THEN "failed" ELSE runs[r].status
        /\ runs'[r].created = runs[r].created /\ runs'[r].stop = runs[r].stop
        /\ runs'[r].superseded = runs[r].superseded
        /\ runs'[r].move = runs[r].move /\ runs'[r].grade = runs[r].grade
  <2>1. \A r \in RunId : runs[r].status = "running" => runs[r].grade # "completed"
    BY DEF RowInv, CompletedIffGraded
  <2> QED BY <2>1, RowFields DEF Recovered, RecoveredRow, Row
<1>2. OneRunning' /\ OneActiveQueue'
  BY <1>1 DEF RowInv, OneRunning, OneActiveQueue, Active
<1>3. CompletedIffGraded' /\ UntouchedIsEmpty' /\ GradedIsAnswered'
  BY <1>1 DEF RowInv, CompletedIffGraded, UntouchedIsEmpty, GradedIsAnswered
<1>4. SupersededIsSettled' /\ AttemptsFollow'
  BY <1>1 DEF RowInv, SupersededIsSettled, AttemptsFollow
<1>5. StoppedQueueHasNothingQueued'
  BY <1>1 DEF RowInv, StoppedQueueHasNothingQueued, Current, Live
<1>6. Kept
  BY <1>1 DEF Kept, Claimed, RowInv, UntouchedIsEmpty
<1> QED BY <1>2, <1>3, <1>4, <1>5, <1>6 DEF RowInv

LEMMA ClaimRows ==
  ASSUME TypeOK, RowInv, NEW r \in RunId, NEW ready, Claimable(r, ready),
         runs' = ClaimOf(r)
  PROVE  RowInv' /\ Kept
<1>1. runs[r].status = "queued" /\ \A s \in RunId : runs[s].status # "running"
  BY DEF Claimable, NextInLine, NothingRunning
<1>2. \A s \in RunId :
        /\ runs'[s].status = IF s = r THEN "running" ELSE runs[s].status
        /\ runs'[s].created = runs[s].created /\ runs'[s].stop = runs[s].stop
        /\ runs'[s].superseded = runs[s].superseded
        /\ runs'[s].move = runs[s].move /\ runs'[s].grade = runs[s].grade
  BY RowFields DEF ClaimOf, Row, TypeOK
<1>3. OneRunning' /\ OneActiveQueue'
  BY <1>1, <1>2 DEF RowInv, OneRunning, OneActiveQueue, Active
<1>4. CompletedIffGraded' /\ UntouchedIsEmpty' /\ GradedIsAnswered'
  BY <1>1, <1>2 DEF RowInv, CompletedIffGraded, UntouchedIsEmpty, GradedIsAnswered
<1>5. SupersededIsSettled' /\ AttemptsFollow'
  BY <1>1, <1>2 DEF RowInv, SupersededIsSettled, AttemptsFollow
<1>6. StoppedQueueHasNothingQueued'
  BY <1>1, <1>2 DEF RowInv, StoppedQueueHasNothingQueued, Current, Live
<1>7. Kept
  BY <1>1, <1>2 DEF Kept, Claimed, RowInv, UntouchedIsEmpty
<1> QED BY <1>3, <1>4, <1>5, <1>6, <1>7 DEF RowInv

\* What a harmless transaction does to its row, and to no other.
LEMMA EffectRow ==
  ASSUME TypeOK, RowInv, NEW c \in Call, c.op \in Writes, Harmless(c),
         runs' = Effect(c)
  PROVE  /\ \A r \in RunId \ {c.run} : runs'[r] = runs[r]
         /\ runs'[c.run].created = runs[c.run].created
         /\ runs'[c.run].superseded = runs[c.run].superseded
         /\ runs'[c.run].stop = runs[c.run].stop
         /\ Claimed(c.run)'
         /\ runs'[c.run].status = "running" => runs[c.run].status = "running"
         /\ runs[c.run].status = "deleted" => runs'[c.run] = runs[c.run]
         /\ runs'[c.run].status = "deleted" => runs[c.run].status = "deleted"
         /\ runs'[c.run].status = "completed" <=> runs'[c.run].grade = "completed"
         /\ runs[c.run].grade = "completed" => runs'[c.run].grade = "completed"
         /\ runs[c.run].move => runs'[c.run].move
         /\ runs'[c.run].grade = "completed" => runs'[c.run].move
         /\ c.op = "save_move" => runs'[c.run].grade = runs[c.run].grade
         /\ c.op = "finish_item" =>
              /\ runs'[c.run].grade = runs[c.run].grade
              /\ runs'[c.run].move = runs[c.run].move
<1> DEFINE run == c.run
<1>0. run \in RunId /\ c.grade \in Grades /\ c.stage \in Stages
  BY CallFields
<1>1. /\ runs[run].status = "completed" <=> runs[run].grade = "completed"
      /\ runs[run].grade = "completed" => runs[run].move
      /\ runs[run].status \in {"running", "completed", "failed", "deleted"}
      /\ runs[run].status = "deleted" => runs[run].grade = "none" /\ ~runs[run].move
  BY <1>0 DEF RowInv, CompletedIffGraded, GradedIsAnswered, UntouchedIsEmpty,
              Harmless, Claimed
<1>2. runs \in [RunId -> Row]
  BY DEF TypeOK
<1>3. Live(run) <=> runs[run].status # "deleted"
  BY <1>1 DEF Live
<1>4. CASE c.op = "save_move"
  BY <1>0, <1>1, <1>2, <1>3, <1>4, RowFields
     DEF Effect, SaveMoveOf, Updated, Harmless, Row, Claimed
<1>5. CASE c.op = "finish_error"
  BY <1>0, <1>1, <1>2, <1>3, <1>5, RowFields
     DEF Effect, FinishErrorOf, Updated, Harmless, Row, Claimed
<1>6. CASE c.op = "finish_grade"
  BY <1>0, <1>1, <1>2, <1>3, <1>6, RowFields
     DEF Effect, FinishGradeOf, Updated, Harmless, Row, Claimed, Grades
<1>7. CASE c.op = "finish_item"
  BY <1>0, <1>1, <1>2, <1>3, <1>7, RowFields
     DEF Effect, FinishItemOf, Harmless, Row, Claimed
<1> QED BY <1>4, <1>5, <1>6, <1>7 DEF Writes

LEMMA EffectRows ==
  ASSUME TypeOK, RowInv, NEW c \in Call, c.op \in Writes, Harmless(c),
         runs' = Effect(c)
  PROVE  RowInv'
<1> DEFINE run == c.run
<1>0. run \in RunId /\ Claimed(run)
  BY CallFields DEF Harmless
<1>1. \A r \in RunId :
        /\ runs'[r].status = "running" => runs[r].status = "running"
        /\ runs'[r].status = "queued" <=> runs[r].status = "queued"
        /\ runs'[r].status = "absent" <=> runs[r].status = "absent"
        /\ runs'[r].status = "skipped" <=> runs[r].status = "skipped"
        /\ runs'[r].status = "deleted" <=> runs[r].status = "deleted"
        /\ runs'[r].created = runs[r].created /\ runs'[r].stop = runs[r].stop
        /\ runs'[r].superseded = runs[r].superseded
        /\ runs'[r].status = "completed" <=> runs'[r].grade = "completed"
        /\ runs'[r].grade = "completed" => runs'[r].move
  <2>1. \A r \in RunId : /\ runs[r].status = "completed" <=> runs[r].grade = "completed"
                         /\ runs[r].grade = "completed" => runs[r].move
    BY DEF RowInv, CompletedIffGraded, GradedIsAnswered
  <2> QED BY <1>0, <2>1, EffectRow DEF Claimed
<1>2. OneRunning' /\ OneActiveQueue'
  BY <1>1 DEF RowInv, OneRunning, OneActiveQueue, Active
<1>3. CompletedIffGraded' /\ GradedIsAnswered'
  BY <1>1 DEF CompletedIffGraded, GradedIsAnswered
<1>4. UntouchedIsEmpty'
  BY <1>0, EffectRow DEF RowInv, UntouchedIsEmpty, Claimed
<1>5. AttemptsFollow'
  BY <1>1 DEF RowInv, AttemptsFollow
<1>6. SupersededIsSettled'
  <2> SUFFICES ASSUME NEW r \in RunId, runs'[r].superseded
               PROVE  runs'[r].status \in {"completed", "failed", "skipped"}
    BY DEF SupersededIsSettled
  <2>1. runs[r].status \in {"completed", "failed", "skipped"}
    BY <1>1 DEF RowInv, SupersededIsSettled
  <2> QED BY <1>0, <1>1, <2>1, EffectRow DEF Claimed
<1>7. StoppedQueueHasNothingQueued'
  BY <1>1 DEF RowInv, StoppedQueueHasNothingQueued, Current, Live
<1> QED BY <1>2, <1>3, <1>4, <1>5, <1>6, <1>7 DEF RowInv

----------------------------------------------------------------------------
(* Workers and abandoned transactions.                                     *)

\* Harmless in the next state, of a transaction that does not change.
HarmlessAfter(d) ==
    /\ runs'[d.run].status \in {"running", "completed", "failed", "deleted"}
    /\ d.op # "finish_item" => runs'[d.run].grade # "completed"
    /\ d.op = "finish_error" => ~runs'[d.run].move /\ d.stage # "none"
    /\ d.op = "finish_grade" => d.grade # "none"
    /\ d.op = "finish_item" /\ d.stage = "none" =>
         runs'[d.run].grade = "completed" \/ runs'[d.run].status = "deleted"

LEMMA SameRows == RowInv /\ runs' = runs => RowInv' /\ Kept
<1> SUFFICES ASSUME RowInv, runs' = runs PROVE RowInv' /\ Kept
  OBVIOUS
<1>1. RowInv'
  BY DEF RowInv, OneRunning, OneActiveQueue, CompletedIffGraded, Active, Live,
         StoppedQueueHasNothingQueued, Current, AttemptsFollow,
         SupersededIsSettled, UntouchedIsEmpty, GradedIsAnswered
<1>2. Kept
  BY DEF Kept, Claimed, RowInv, UntouchedIsEmpty
<1> QED BY <1>1, <1>2

LEMMA KeptHarmless ==
  ASSUME TypeOK, Kept, NEW d \in Call, d.op \in Writes, Harmless(d)
  PROVE  HarmlessAfter(d)
<1>1. d.run \in RunId /\ Claimed(d.run)
  BY CallFields DEF Harmless
<1> QED BY <1>1, RowFields DEF Kept, Harmless, HarmlessAfter, Claimed

\* Two transactions that may meet do not harm each other.
LEMMA HarmlessPair ==
  ASSUME TypeOK, RowInv,
         NEW c \in Call, c.op \in Writes, Harmless(c),
         NEW d \in Call, d.op \in Writes, Harmless(d),
         c.run # d.run \/ c.op = "finish_item" \/ d.op = "finish_item",
         runs' = Effect(c)
  PROVE  HarmlessAfter(d)
<1>1. c.run \in RunId /\ d.run \in RunId
  BY CallFields
<1>2. CASE c.run # d.run
  BY <1>1, <1>2, EffectRow DEF Harmless, HarmlessAfter, Claimed
<1>3. CASE c.run = d.run /\ c.op = "finish_item"
  BY <1>1, <1>3, EffectRow DEF Harmless, HarmlessAfter, Claimed
<1>4. CASE c.run = d.run /\ c.op # "finish_item" /\ d.op = "finish_item"
  BY <1>1, <1>4, EffectRow DEF Harmless, HarmlessAfter, Claimed
<1> QED BY <1>2, <1>3, <1>4

SameWorker(q) ==
    /\ pc'[q] = pc[q] /\ item'[q] = item[q]
    /\ stage'[q] = stage[q] /\ grade'[q] = grade[q]

LEMMA SameCall ==
  ASSUME NEW q \in Procs, SameWorker(q) PROVE CallOf(q)' = CallOf(q)
BY DEF SameWorker, CallOf

LEMMA OwnerFacts ==
  ASSUME TypeOK, NEW p \in Procs, Owner(p)
  PROVE  item[p] \in RunId /\ item[p] # NoRun
BY DEF TypeOK, Owner

\* Steps that keep results and start no attempt.
LEMMA QuietStep ==
  ASSUME IInv, Kept,
         \A q \in Procs : Owner(q)' => Owner(q) /\ SameWorker(q),
         \A c \in late' : c \in late \/ c.op \notin Writes
  PROVE  WorkerInv' /\ LateInv'
<1>1. OneOwner'
  BY DEF IInv, WorkerInv, OneOwner, SameWorker
<1>2. ASSUME NEW q \in Procs PROVE WorkerOK(q)'
  <2> SUFFICES ASSUME Owner(q)' PROVE WorkerOK(q)'
    BY DEF WorkerOK
  <2>1. Owner(q) /\ SameWorker(q) /\ WorkerOK(q) /\ item[q] \in RunId
    BY OwnerFacts DEF IInv, WorkerInv
  <2>2. /\ Claimed(item[q])
        /\ pc[q] \in {"begin", "choose", "grade"} => runs[item[q]].grade # "completed"
        /\ pc[q] \in {"begin", "choose"} => ~runs[item[q]].move
        /\ pc[q] \in Writes => Harmless(CallOf(q))
    BY <2>1 DEF WorkerOK
  <2>3. pc[q] \in Writes => HarmlessAfter(CallOf(q))
    BY <2>1, <2>2, CallType, KeptHarmless DEF IInv
  <2>4. pc[q] \in Writes => Harmless(CallOf(q))'
    BY <2>1, <2>3, SameCall DEF HarmlessAfter, Harmless, Claimed
  <2>5. /\ Claimed(item[q])'
        /\ pc[q] \in {"begin", "choose", "grade"} => runs'[item[q]].grade # "completed"
        /\ pc[q] \in {"begin", "choose"} => ~runs'[item[q]].move
    BY <2>1, <2>2 DEF Kept, Claimed, SameWorker
  <2> QED BY <2>1, <2>4, <2>5 DEF WorkerOK, SameWorker, Claimed
<1>3. ASSUME NEW c \in late', c.op \in Writes
      PROVE  Harmless(c)' /\ LeftAfterAttempt(c)'
  <2>1. c \in late /\ c \in Call /\ Harmless(c) /\ LeftAfterAttempt(c)
    BY <1>3 DEF IInv, LateInv, TypeOK
  <2>2. HarmlessAfter(c)
    BY <1>3, <2>1, KeptHarmless DEF IInv
  <2>3. Harmless(c)'
    BY <2>2 DEF HarmlessAfter, Harmless, Claimed
  <2>4. LeftAfterAttempt(c)'
    BY <2>1 DEF LeftAfterAttempt, SameWorker
  <2> QED BY <2>3, <2>4
<1>4. OneLeft'
  BY DEF IInv, LateInv, OneLeft
<1> QED BY <1>1, <1>2, <1>3, <1>4 DEF WorkerInv, LateInv

\* Steps of the worker p inside its attempt, or at the end of it: the other
\* workers' rows and the abandoned transactions do not notice.
LEMMA AttemptStep ==
  ASSUME IInv, NEW p \in Procs, Owner(p),
         \A q \in Procs \ {p} : SameWorker(q),
         \/ runs' = runs
         \/ pc[p] \in Writes /\ runs' = Effect(CallOf(p)),
         \/ late' = late
         \/ /\ pc[p] \in Writes /\ runs' = runs /\ late' = late \cup {CallOf(p)}
            /\ Owner(p)' => pc'[p] = "finish_item",
         Owner(p)' => /\ item'[p] = item[p] /\ pc[p] # "finish_item"
                      /\ WorkerOK(p)'
  PROVE  RowInv' /\ WorkerInv' /\ LateInv'
<1>1. /\ item[p] \in RunId /\ WorkerOK(p)
      /\ pc[p] \in Writes => /\ CallOf(p) \in Call /\ Harmless(CallOf(p))
                             /\ CallOf(p).op = pc[p] /\ CallOf(p).run = item[p]
  BY OwnerFacts, CallType DEF IInv, WorkerInv, WorkerOK
<1>2. RowInv'
  BY <1>1, SameRows, EffectRows DEF IInv
<1>3. \A r \in RunId \ {item[p]} : runs'[r] = runs[r]
  BY <1>1, EffectRow DEF IInv
<1>4. OneOwner'
  BY DEF IInv, WorkerInv, OneOwner, SameWorker, Owner
<1>5. ASSUME NEW q \in Procs PROVE WorkerOK(q)'
  <2>1. CASE q = p
    BY <2>1 DEF WorkerOK
  <2>2. CASE q # p /\ Owner(q)'
    <3>1. Owner(q) /\ SameWorker(q) /\ WorkerOK(q) /\ item[q] \in RunId
      BY <2>2, OwnerFacts DEF IInv, WorkerInv, SameWorker, Owner
    <3>2. item[q] # item[p]
      BY <2>2, <3>1 DEF IInv, WorkerInv, OneOwner
    <3>3. runs'[item[q]] = runs[item[q]] /\ item'[q] = item[q] /\ pc'[q] = pc[q]
      BY <1>3, <3>1, <3>2 DEF SameWorker
    <3>4. CallOf(q)' = CallOf(q) /\ CallOf(q).run = item[q]
      BY <3>1, SameCall DEF CallOf
    <3>5. pc[q] \in Writes => Harmless(CallOf(q))
      BY <3>1 DEF WorkerOK
    <3>6. pc[q] \in Writes => Harmless(CallOf(q))'
      BY <3>3, <3>4, <3>5 DEF Harmless, Claimed
    <3> QED BY <3>1, <3>3, <3>6 DEF WorkerOK, Claimed
  <2>3. CASE ~Owner(q)'
    BY <2>3 DEF WorkerOK
  <2> QED BY <2>1, <2>2, <2>3
<1>6. ASSUME NEW c \in late, c.op \in Writes
      PROVE  Harmless(c)' /\ LeftAfterAttempt(c)'
  <2>1. c \in Call /\ Harmless(c) /\ LeftAfterAttempt(c)
    BY <1>6 DEF IInv, LateInv, TypeOK
  <2>2. c.run = item[p] => pc[p] = "finish_item"
    BY <2>1 DEF LeftAfterAttempt
  <2>3. HarmlessAfter(c)
    <3>1. CASE runs' = runs
      BY <1>6, <2>1, <3>1, SameRows, KeptHarmless DEF IInv
    <3>2. CASE pc[p] \in Writes /\ runs' = Effect(CallOf(p))
      <4>1. CallOf(p).run # c.run \/ CallOf(p).op = "finish_item"
        BY <1>1, <2>2, <3>2
      <4> QED BY <1>1, <1>6, <2>1, <3>2, <4>1, HarmlessPair DEF IInv
    <3> QED BY <3>1, <3>2
  <2>4. Harmless(c)'
    BY <2>3 DEF HarmlessAfter, Harmless, Claimed
  <2>5. LeftAfterAttempt(c)'
    BY <2>1, <2>2 DEF LeftAfterAttempt, SameWorker, Owner
  <2> QED BY <2>4, <2>5
<1>7. CASE late' = late
  <2>1. OneLeft'
    BY <1>7 DEF IInv, LateInv, OneLeft
  <2> QED BY <1>2, <1>4, <1>5, <1>6, <1>7, <2>1 DEF WorkerInv, LateInv
<1>8. CASE /\ pc[p] \in Writes /\ runs' = runs /\ late' = late \cup {CallOf(p)}
           /\ Owner(p)' => pc'[p] = "finish_item"
  <2> DEFINE left == CallOf(p)
  <2>1. left \in Call /\ left.op = pc[p] /\ left.run = item[p] /\ Harmless(left)
    BY <1>1, <1>8
  <2>2. \A c \in {left} : Harmless(c)'
    BY <1>8, <2>1 DEF Harmless, Claimed
  <2>3. \A c \in {left} : LeftAfterAttempt(c)'
    <3> SUFFICES ASSUME NEW c, c = left, NEW q \in Procs, Owner(q)', c.run = item'[q]
                 PROVE  pc'[q] = "finish_item" /\ c.op # "finish_item"
      BY DEF LeftAfterAttempt
    <3>1. q = p
      BY <2>1 DEF IInv, WorkerInv, OneOwner, SameWorker, Owner
    <3> QED BY <1>8, <2>1, <3>1
  <2>4. \A c \in late' : c.op \in Writes => Harmless(c)' /\ LeftAfterAttempt(c)'
    BY <1>6, <1>8, <2>2, <2>3
  <2>5. OneLeft'
    <3>1. \A c \in late : c.op \in Writes /\ c.run = left.run =>
             left.op = "finish_item"
      BY <2>1 DEF IInv, LateInv, LeftAfterAttempt
    <3> QED BY <1>8, <3>1 DEF IInv, LateInv, OneLeft
  <2> QED BY <1>2, <1>4, <1>5, <2>4, <2>5 DEF WorkerInv, LateInv
<1> QED BY <1>7, <1>8

----------------------------------------------------------------------------
(* The actions.                                                            *)

LEMMA ApiRows ==
  ASSUME TypeOK, RowInv, Api PROVE RowInv' /\ Kept
<1>1. ASSUME NEW q \in Queues, NEW chosen \in SUBSET Positions, Enqueue(q, chosen)
      PROVE  RowInv' /\ Kept
  BY <1>1, EnqueueRows
<1>2. ASSUME NEW q \in Queues, RetryFailed(q) PROVE RowInv' /\ Kept
  BY <1>2, RetryRows
<1>3. ASSUME NEW q \in Queues, Stop(q) PROVE RowInv' /\ Kept
  BY <1>3, StopRows
<1>4. ASSUME NEW q \in Queues, DeleteQueue(q) PROVE RowInv' /\ Kept
  BY <1>4, DeleteRows DEF DeleteQueue, RowsOf
<1>5. ASSUME NEW r \in RunId, DeleteRun(r) PROVE RowInv' /\ Kept
  BY <1>5, DeleteRows DEF DeleteRun
<1> QED BY <1>1, <1>2, <1>3, <1>4, <1>5 DEF Api

LEMMA ApiInv == IInv /\ Api => RowInv' /\ WorkerInv' /\ LateInv'
<1> SUFFICES ASSUME IInv, Api PROVE RowInv' /\ WorkerInv' /\ LateInv'
  OBVIOUS
<1>1. UNCHANGED <<local, late>>
  BY DEF Api, Enqueue, RetryFailed, Stop, DeleteQueue, DeleteRun, Delete
<1>2. RowInv' /\ Kept
  BY ApiRows DEF IInv
<1>3. \A q \in Procs : Owner(q)' => Owner(q) /\ SameWorker(q)
  BY <1>1 DEF local, Owner, SameWorker
<1> QED BY <1>1, <1>2, <1>3, QuietStep

\* The tables a transaction of serve can commit.
LEMMA ServeOutcomes ==
  ASSUME TypeOK, RowInv, NEW c \in Call, c.op \in {"recover", "claim"},
         runs' \in {runs} \cup Outcomes(c)
  PROVE  RowInv' /\ Kept
<1>1. CASE runs' = runs
  BY <1>1, SameRows
<1>2. CASE c.op = "recover" /\ runs' = Recovered
  BY <1>2, RecoveredRows
<1>3. CASE c.op = "claim" /\ \E r \in RunId : Claimable(r, TRUE) /\ runs' = ClaimOf(r)
  BY <1>3, ClaimRows
<1>4. /\ c.op = "recover" => Outcomes(c) = {Recovered}
      /\ c.op = "claim" =>
           Outcomes(c) = {ClaimOf(r) : r \in {s \in RunId : Claimable(s, TRUE)}}
  BY DEF Outcomes, Writes
<1> QED BY <1>1, <1>2, <1>3, <1>4

LEMMA ClaimNextInv ==
  ASSUME IInv, NEW p \in Procs, ClaimNext(p)
  PROVE  RowInv' /\ WorkerInv' /\ LateInv'
<1>1. PICK r \in RunId, ready \in BOOLEAN :
        Claimable(r, ready) /\ runs' = ClaimOf(r) /\ item' = [item EXCEPT ![p] = r]
  BY DEF ClaimNext
<1>2. RowInv' /\ Kept
  BY <1>1, ClaimRows DEF IInv
<1>3. /\ pc'[p] = "begin" /\ item'[p] = r
      /\ \A q \in Procs \ {p} : SameWorker(q)
      /\ UNCHANGED late
  BY <1>1 DEF ClaimNext, Goto, IInv, TypeOK, SameWorker
<1>4. /\ runs[r].status = "queued" /\ runs[r].grade = "none" /\ ~runs[r].move
      /\ runs'[r].status = "running" /\ runs'[r].grade = "none" /\ ~runs'[r].move
  BY <1>1, RowFields DEF IInv, RowInv, UntouchedIsEmpty, Claimable, NextInLine,
                         ClaimOf, TypeOK, Row
<1>5. ASSUME NEW q \in Procs \ {p}, Owner(q)'
      PROVE  Owner(q) /\ item'[q] = item[q] /\ item[q] # r /\ item[q] \in RunId
  <2>1. Owner(q) /\ SameWorker(q) /\ WorkerOK(q)
    BY <1>3, <1>5 DEF Owner, SameWorker, IInv, WorkerInv
  <2> QED BY <1>4, <2>1, OwnerFacts DEF WorkerOK, Claimed, SameWorker, IInv
<1>6. OneOwner'
  BY <1>3, <1>5 DEF IInv, WorkerInv, OneOwner
<1>7. ASSUME NEW q \in Procs PROVE WorkerOK(q)'
  <2>1. CASE q = p
    BY <1>3, <1>4, <2>1 DEF WorkerOK, Claimed, Writes
  <2>2. CASE q # p /\ Owner(q)'
    <3>1. /\ Owner(q) /\ item'[q] = item[q] /\ item[q] \in RunId
          /\ SameWorker(q) /\ WorkerOK(q)
      BY <1>3, <1>5, <2>2 DEF IInv, WorkerInv
    <3>2. pc[q] \in Writes => HarmlessAfter(CallOf(q))
      BY <1>2, <3>1, CallType, KeptHarmless DEF IInv, WorkerOK
    <3>3. pc[q] \in Writes => Harmless(CallOf(q))'
      BY <3>1, <3>2, SameCall DEF HarmlessAfter, Harmless, Claimed
    <3>4. /\ Claimed(item[q])'
          /\ pc[q] \in {"begin", "choose", "grade"} => runs'[item[q]].grade # "completed"
          /\ pc[q] \in {"begin", "choose"} => ~runs'[item[q]].move
      BY <1>2, <3>1 DEF Kept, Claimed, WorkerOK
    <3> QED BY <3>1, <3>3, <3>4 DEF WorkerOK, SameWorker, Claimed
  <2>3. CASE ~Owner(q)'
    BY <2>3 DEF WorkerOK
  <2> QED BY <2>1, <2>2, <2>3
<1>8. ASSUME NEW c \in late, c.op \in Writes
      PROVE  Harmless(c)' /\ LeftAfterAttempt(c)'
  <2>1. c \in Call /\ Harmless(c) /\ LeftAfterAttempt(c)
    BY <1>8 DEF IInv, LateInv, TypeOK
  <2>2. Harmless(c)'
    BY <1>2, <1>8, <2>1, KeptHarmless DEF HarmlessAfter, Harmless, Claimed, IInv
  <2>3. c.run # r
    BY <1>4, <2>1 DEF Harmless, Claimed
  <2>4. LeftAfterAttempt(c)'
    BY <1>3, <1>5, <2>1, <2>3 DEF LeftAfterAttempt, SameWorker
  <2> QED BY <2>2, <2>4
<1>9. OneLeft'
  BY <1>3 DEF IInv, LateInv, OneLeft
<1> QED BY <1>2, <1>3, <1>6, <1>7, <1>8, <1>9 DEF WorkerInv, LateInv

LEMMA ServeInv ==
  ASSUME IInv, NEW p \in Procs, Serve(p)
  PROVE  RowInv' /\ WorkerInv' /\ LateInv'
<1>1. CASE ClaimNext(p)
  BY <1>1, ClaimNextInv
<1>2. CASE AcquireLease(p) \/ CheckLease(p) \/ ClaimNothing(p) \/ Recover(p)
  <2>1. UNCHANGED late
    BY <1>2 DEF AcquireLease, Recover, CheckLease, ClaimNothing
  <2>2. RowInv' /\ Kept
    BY <1>2, SameRows, RecoveredRows
       DEF IInv, AcquireLease, Recover, CheckLease, ClaimNothing
  <2>3. ASSUME NEW q \in Procs, Owner(q)' PROVE Owner(q) /\ SameWorker(q)
    BY <1>2, <2>3 DEF AcquireLease, Recover, CheckLease, ClaimNothing, Goto, Keep,
                      Owner, SameWorker, IInv, TypeOK, Attempting
  <2> QED BY <2>1, <2>2, <2>3, QuietStep
<1> QED BY <1>1, <1>2 DEF Serve

\* A finish_item that names a failure harms nothing.
LEMMA FailedItem ==
  ASSUME IInv, NEW p \in Procs, Owner(p), pc'[p] = "finish_item",
         item'[p] = item[p], stage'[p] # "none",
         runs'[item[p]].status \in {"running", "completed", "failed", "deleted"}
  PROVE  WorkerOK(p)'
BY DEF WorkerOK, Harmless, CallOf, Claimed

LEMMA ExecuteInv ==
  ASSUME IInv, NEW p \in Procs, Execute(p)
  PROVE  RowInv' /\ WorkerInv' /\ LateInv'
<1>1. Owner(p) /\ late' = late
  BY DEF Execute, Begin, ChooseMove, FinishError, SaveMove, Evaluate, FinishGrade,
         ReadBack, FinishItem, Owner, Attempting
<1>2. \A q \in Procs \ {p} : SameWorker(q)
  BY DEF Execute, Begin, ChooseMove, FinishError, SaveMove, Evaluate, FinishGrade,
         ReadBack, FinishItem, Goto, Keep, Forget, FailedBy, SameWorker, IInv, TypeOK
<1>3. /\ item[p] \in RunId /\ WorkerOK(p) /\ Claimed(item[p])
      /\ pc[p] \in Writes => /\ CallOf(p) \in Call /\ Harmless(CallOf(p))
                             /\ CallOf(p).op = pc[p] /\ CallOf(p).run = item[p]
                             /\ CallOf(p).stage = stage[p]
                             /\ CallOf(p).grade = grade[p]
  BY <1>1, OwnerFacts, CallType DEF IInv, WorkerInv, WorkerOK, CallOf
<1>4. /\ pc \in [Procs -> PC] /\ stage \in [Procs -> Stages]
      /\ grade \in [Procs -> Grades]
  BY DEF IInv, TypeOK
<1>5. ASSUME NEW why \in {"position", "execution"}, FailedBy(p, why)
      PROVE  stage'[p] # "none"
  BY <1>4, <1>5 DEF FailedBy, Cancelled
<1> DEFINE StillClaimed ==
             runs'[item[p]].status \in {"running", "completed", "failed", "deleted"}
<1>6. runs' = runs => StillClaimed
  BY <1>3 DEF Claimed
<1>7. CASE Begin(p)
  <2>1. /\ pc[p] = "begin" /\ runs' = runs /\ item' = item
        /\ runs[item[p]].grade # "completed" /\ ~runs[item[p]].move
    BY <1>3, <1>7 DEF Begin, WorkerOK, Owner, Attempting
  <2>2. WorkerOK(p)'
    <3>1. CASE pc'[p] = "choose"
      BY <1>6, <2>1, <3>1 DEF WorkerOK, Claimed, Writes
    <3>2. CASE pc'[p] = "finish_item" /\ stage'[p] # "none"
      BY <1>1, <1>6, <2>1, <3>2, FailedItem
    <3> QED BY <1>4, <1>5, <1>7, <3>1, <3>2 DEF Begin, Goto
  <2> QED BY <1>1, <1>2, <2>1, <2>2, AttemptStep
<1>8. CASE ChooseMove(p)
  <2>1. /\ pc[p] = "choose" /\ runs' = runs /\ item' = item /\ grade' = grade
        /\ runs[item[p]].grade # "completed" /\ ~runs[item[p]].move
    BY <1>3, <1>8 DEF ChooseMove, WorkerOK, Owner, Attempting
  <2>2. \/ pc'[p] = "save_move"
        \/ pc'[p] = "finish_error" /\ stage'[p] # "none"
    BY <1>4, <1>5, <1>8 DEF ChooseMove, Goto
  <2>3. WorkerOK(p)'
    BY <1>6, <2>1, <2>2 DEF WorkerOK, Harmless, CallOf, Claimed
  <2> QED BY <1>1, <1>2, <2>1, <2>3, AttemptStep
<1>9. CASE Evaluate(p)
  <2>1. /\ pc[p] = "grade" /\ runs' = runs /\ item' = item
        /\ runs[item[p]].grade # "completed"
        /\ pc'[p] = "finish_grade" /\ grade'[p] # "none"
    BY <1>3, <1>4, <1>9 DEF Evaluate, WorkerOK, Owner, Attempting, Goto
  <2>2. WorkerOK(p)'
    BY <1>6, <2>1 DEF WorkerOK, Harmless, CallOf, Claimed
  <2> QED BY <1>1, <1>2, <2>1, <2>2, AttemptStep
<1>10. CASE ReadBack(p)
  <2>1. /\ pc[p] = "read" /\ runs' = runs /\ item' = item
        /\ pc'[p] = "finish_item"
        /\ stage'[p] = "none" => runs[item[p]].grade = "completed"
    BY <1>4, <1>10 DEF ReadBack, Goto
  <2>2. WorkerOK(p)'
    BY <1>6, <2>1 DEF WorkerOK, Harmless, CallOf, Claimed
  <2> QED BY <1>1, <1>2, <2>1, <2>2, AttemptStep
<1>11. ASSUME pc[p] \in Writes, runs' = Effect(CallOf(p)) PROVE StillClaimed
  BY <1>3, <1>11, EffectRow DEF IInv, Claimed
<1>12. CASE SaveMove(p)
  <2>1. /\ pc[p] \in Writes /\ pc[p] = "save_move" /\ runs' = Effect(CallOf(p))
        /\ item' = item /\ pc'[p] = "grade"
    BY <1>4, <1>12 DEF SaveMove, Goto, Keep, Writes
  <2>2. runs'[item[p]].grade # "completed"
    BY <1>3, <2>1, EffectRow DEF IInv, Harmless
  <2>3. WorkerOK(p)'
    BY <1>11, <2>1, <2>2 DEF WorkerOK, Writes, Claimed
  <2> QED BY <1>1, <1>2, <2>1, <2>3, AttemptStep
<1>13. CASE FinishError(p)
  <2>1. /\ pc[p] \in Writes /\ pc[p] = "finish_error" /\ runs' = Effect(CallOf(p))
        /\ item' = item /\ stage' = stage /\ pc'[p] = "finish_item"
    BY <1>4, <1>13 DEF FinishError, Goto, Keep, Writes
  <2>2. stage[p] # "none"
    BY <1>3, <2>1 DEF Harmless
  <2>3. WorkerOK(p)'
    BY <1>1, <1>11, <2>1, <2>2, FailedItem
  <2> QED BY <1>1, <1>2, <2>1, <2>3, AttemptStep
<1>14. CASE FinishGrade(p)
  <2>1. /\ pc[p] \in Writes /\ pc[p] = "finish_grade" /\ runs' = Effect(CallOf(p))
        /\ item' = item /\ stage' = stage
        /\ pc'[p] = IF Cancelled(p) THEN "finish_item" ELSE "read"
    BY <1>4, <1>14 DEF FinishGrade, Goto, Keep, Writes
  <2>2. WorkerOK(p)'
    <3>1. CASE Cancelled(p)
      BY <1>1, <1>11, <2>1, <3>1, FailedItem DEF Cancelled
    <3>2. CASE ~Cancelled(p)
      BY <1>11, <2>1, <3>2 DEF WorkerOK, Writes, Claimed
    <3> QED BY <3>1, <3>2
  <2> QED BY <1>1, <1>2, <2>1, <2>2, AttemptStep
<1>15. CASE FinishItem(p)
  <2>1. /\ pc[p] \in Writes /\ runs' = Effect(CallOf(p))
        /\ pc'[p] \in {"down", "check"}
    BY <1>4, <1>15 DEF FinishItem, Goto, Writes
  <2>2. ~Owner(p)'
    BY <2>1 DEF Owner, Attempting
  <2> QED BY <1>1, <1>2, <2>1, <2>2, AttemptStep
<1> QED
  BY <1>7, <1>8, <1>9, <1>10, <1>12, <1>13, <1>14, <1>15 DEF Execute

LEMMA InterruptInv ==
  ASSUME IInv, NEW p \in Procs, NEW why \in {"timeout", "interrupted"},
         Interrupt(p, why)
  PROVE  RowInv' /\ WorkerInv' /\ LateInv'
<1>1. /\ pc[p] \in Attempting /\ Owner(p) /\ runs' = runs /\ item' = item
      /\ stage'[p] = why
      /\ \A q \in Procs \ {p} : SameWorker(q)
  BY DEF Interrupt, Goto, Owner, SameWorker, IInv, TypeOK
<1>2. /\ item[p] \in RunId /\ WorkerOK(p) /\ Claimed(item[p])
      /\ runs'[item[p]].status \in {"running", "completed", "failed", "deleted"}
  BY <1>1, OwnerFacts DEF IInv, WorkerInv, WorkerOK, Claimed
<1>3. pc[p] # "finish_item"
  BY <1>1 DEF Attempting
<1>4. CASE Codex(p) /\ pc[p] # "read"
  <2>1. UNCHANGED <<pc, grade, late>>
    BY <1>4 DEF Interrupt
  <2>2. WorkerOK(p)'
    BY <1>1, <1>2, <1>3, <2>1 DEF WorkerOK, Claimed, Harmless, CallOf, Owner
  <2> QED BY <1>1, <1>3, <2>1, <2>2, AttemptStep
<1>5. CASE ~(Codex(p) /\ pc[p] # "read")
  <2>1. /\ pc'[p] = CASE pc[p] = "choose" -> "finish_error"
                      [] pc[p] = "grade"  -> "finish_grade"
                      [] OTHER            -> "finish_item"
        /\ pc[p] = "grade" => grade'[p] = "failed"
        /\ late' = late \/ /\ pc[p] \in Writes /\ late' = late \cup {CallOf(p)}
                           /\ pc'[p] = "finish_item"
    BY <1>5 DEF Interrupt, Goto, Leave, IInv, TypeOK, Writes
  <2>2. WorkerOK(p)'
    <3>1. CASE pc[p] = "choose"
      BY <1>1, <1>2, <2>1, <3>1 DEF WorkerOK, Claimed, Harmless, CallOf, Owner
    <3>2. CASE pc[p] = "grade"
      BY <1>1, <1>2, <2>1, <3>2 DEF WorkerOK, Claimed, Harmless, CallOf, Owner
    <3>3. CASE pc[p] \notin {"choose", "grade"}
      BY <1>1, <1>2, <2>1, <3>3, FailedItem
    <3> QED BY <3>1, <3>2, <3>3
  <2> QED BY <1>1, <1>3, <2>1, <2>2, AttemptStep
<1> QED BY <1>4, <1>5

LEMMA DisturbInv ==
  ASSUME IInv, NEW p \in Procs, Disturb(p)
  PROVE  RowInv' /\ WorkerInv' /\ LateInv'
<1>1. CASE TimeOut(p)
  BY <1>1, InterruptInv DEF TimeOut
<1>2. CASE Shutdown(p) /\ Interrupt(p, "interrupted")
  BY <1>2, InterruptInv
<1>3. CASE Shutdown(p) /\ ~Interrupt(p, "interrupted")
  <2>1. /\ runs' = runs /\ pc'[p] = "down" /\ \A q \in Procs \ {p} : SameWorker(q)
    BY <1>3 DEF Shutdown, Goto, Forget, SameWorker, IInv, TypeOK
  <2>2. /\ ~Owner(p)'
        /\ \A q \in Procs : Owner(q)' => Owner(q) /\ SameWorker(q)
    BY <2>1 DEF Owner, SameWorker, Attempting
  <2>3. CASE UNCHANGED late \/ /\ pc[p] \in {"recover", "claim"}
                               /\ late' = late \cup {CallOf(p)}
    <3>1. \A c \in late' : c \in late \/ c.op \notin Writes
      BY <2>3, CallType DEF Writes, IInv
    <3>2. RowInv' /\ Kept
      BY <2>1, SameRows DEF IInv
    <3> QED BY <2>2, <3>1, <3>2, QuietStep
  <2>4. CASE pc[p] = "finish_item" /\ late' = late \cup {CallOf(p)}
    BY <2>1, <2>2, <2>4, AttemptStep DEF Owner, Writes
  <2> QED BY <1>3, <2>3, <2>4 DEF Shutdown, Leave
<1>4. CASE Crash(p)
  <2>1. /\ runs' = runs /\ late' = late
        /\ \A q \in Procs : Owner(q)' => Owner(q) /\ SameWorker(q)
    BY <1>4 DEF Crash, Goto, Forget, Owner, SameWorker, Attempting, IInv, TypeOK
  <2>2. RowInv' /\ Kept
    BY <2>1, SameRows DEF IInv
  <2> QED BY <2>1, <2>2, QuietStep
<1>5. CASE CallFails(p)
  <2>1. /\ runs' \in {runs} \cup Outcomes(CallOf(p)) /\ UNCHANGED late
        /\ \A q \in Procs \ {p} : SameWorker(q)
    BY <1>5 DEF CallFails, Goto, Forget, FailedBy, SameWorker, IInv, TypeOK
  <2>2. /\ pc[p] \in Writes => Outcomes(CallOf(p)) = {Effect(CallOf(p))}
        /\ pc[p] \notin Writes \cup {"recover", "claim"} => Outcomes(CallOf(p)) = {}
    BY CallType DEF Outcomes, Writes, IInv
  <2>3. CASE pc[p] \in {"recover", "check", "claim"}
    <3>1. /\ pc'[p] = "acquire" /\ ~Owner(p)'
      BY <1>5, <2>3 DEF CallFails, Goto, Owner, Attempting, IInv, TypeOK
    <3>2. RowInv' /\ Kept
      <4>1. CASE pc[p] = "check"
        BY <2>1, <2>2, <4>1, SameRows DEF IInv, Writes
      <4>2. CASE pc[p] \in {"recover", "claim"}
        BY <2>1, <4>2, CallType, ServeOutcomes DEF IInv
      <4> QED BY <2>3, <4>1, <4>2
    <3>3. \A q \in Procs : Owner(q)' => Owner(q) /\ SameWorker(q)
      BY <2>1, <3>1 DEF Owner, SameWorker
    <3> QED BY <2>1, <3>2, <3>3, QuietStep
  <2>4. CASE pc[p] = "finish_item"
    <3>1. ~Owner(p)'
      BY <1>5, <2>4 DEF CallFails, Goto, Owner, Attempting, IInv, TypeOK
    <3> QED BY <2>1, <2>2, <2>4, <3>1, AttemptStep DEF Owner, Writes
  <2>5. CASE pc[p] \in Attempting
    <3>1. /\ pc'[p] = "finish_item" /\ item' = item /\ Owner(p)
          /\ \/ pc[p] = "finish_error" /\ stage' = stage
             \/ FailedBy(p, "execution")
             \/ stage' = [stage EXCEPT ![p] = "execution"]
      BY <1>5, <2>5 DEF CallFails, Goto, Owner, Attempting, IInv, TypeOK
    <3>2. /\ item[p] \in RunId /\ WorkerOK(p) /\ Claimed(item[p])
          /\ pc[p] \in Writes => /\ CallOf(p) \in Call /\ Harmless(CallOf(p))
                                 /\ CallOf(p).op = pc[p] /\ CallOf(p).run = item[p]
                                 /\ CallOf(p).stage = stage[p]
      BY <3>1, OwnerFacts, CallType DEF IInv, WorkerInv, WorkerOK, CallOf
    <3>3. stage'[p] # "none"
      <4>1. pc[p] = "finish_error" => stage[p] # "none"
        BY <3>2 DEF Harmless, Writes
      <4> QED BY <3>1, <4>1 DEF FailedBy, Cancelled, IInv, TypeOK
    <3>4. \/ runs' = runs
          \/ pc[p] \in Writes /\ runs' = Effect(CallOf(p))
      BY <2>1, <2>2, <2>5 DEF Attempting
    <3>5. runs'[item[p]].status \in {"running", "completed", "failed", "deleted"}
      BY <3>2, <3>4, EffectRow DEF IInv, Claimed
    <3>6. WorkerOK(p)'
      BY <3>1, <3>3, <3>5, FailedItem
    <3> QED BY <2>1, <2>5, <3>1, <3>4, <3>6, AttemptStep DEF Attempting
  <2> QED BY <1>5, <2>3, <2>4, <2>5 DEF CallFails
<1> QED BY <1>1, <1>2, <1>3, <1>4, <1>5 DEF Disturb

LEMMA LateWriteInv == IInv /\ LateWrite => RowInv' /\ WorkerInv' /\ LateInv'
<1> SUFFICES ASSUME IInv, LateWrite PROVE RowInv' /\ WorkerInv' /\ LateInv'
  OBVIOUS
<1>1. PICK c \in late : late' = late \ {c} /\ runs' \in {runs} \cup Outcomes(c)
  BY DEF LateWrite
<1>2. c \in Call /\ \A q \in Procs : SameWorker(q)
  BY DEF LateWrite, local, SameWorker, IInv, TypeOK
<1>3. \A q \in Procs : Owner(q)' => Owner(q) /\ SameWorker(q)
  BY <1>2 DEF Owner, SameWorker
<1>4. CASE runs' = runs
  BY <1>1, <1>3, <1>4, SameRows, QuietStep DEF IInv
<1>5. CASE c.op \in {"recover", "claim"}
  BY <1>1, <1>2, <1>3, <1>5, ServeOutcomes, QuietStep DEF IInv
<1>6. CASE c.op \in Writes /\ runs' # runs
  <2>1. runs' = Effect(c) /\ Harmless(c) /\ LeftAfterAttempt(c) /\ c.run \in RunId
    BY <1>1, <1>2, <1>6, CallFields DEF Outcomes, Writes, IInv, LateInv
  <2>2. RowInv'
    BY <1>2, <1>6, <2>1, EffectRows DEF IInv
  <2>3. OneOwner'
    BY <1>2 DEF IInv, WorkerInv, OneOwner, Owner, SameWorker
  <2>4. ASSUME NEW q \in Procs PROVE WorkerOK(q)'
    <3> SUFFICES ASSUME Owner(q)' PROVE WorkerOK(q)'
      BY DEF WorkerOK
    <3>1. /\ Owner(q) /\ SameWorker(q) /\ WorkerOK(q) /\ item[q] \in RunId
          /\ Claimed(item[q])
          /\ pc[q] \in Writes => /\ CallOf(q) \in Call /\ Harmless(CallOf(q))
                                 /\ CallOf(q).op = pc[q] /\ CallOf(q).run = item[q]
      BY <1>3, OwnerFacts, CallType DEF IInv, WorkerInv, WorkerOK
    <3>2. c.run = item[q] => pc[q] = "finish_item" /\ c.op # "finish_item"
      BY <2>1, <3>1 DEF LeftAfterAttempt
    <3>3. pc[q] \in Writes => HarmlessAfter(CallOf(q))
      <4>1. c.run # item[q] \/ pc[q] = "finish_item"
        BY <3>2
      <4> QED BY <1>2, <1>6, <2>1, <3>1, <4>1, HarmlessPair DEF IInv
    <3>4. pc[q] \in Writes => Harmless(CallOf(q))'
      BY <3>1, <3>3, SameCall DEF HarmlessAfter, Harmless, Claimed
    <3>5. runs'[item[q]].status \in {"running", "completed", "failed", "deleted"}
      BY <1>2, <1>6, <2>1, <3>1, EffectRow DEF IInv, Claimed
    <3>6. pc[q] # "finish_item" => runs'[item[q]] = runs[item[q]]
      BY <1>2, <1>6, <2>1, <3>1, <3>2, EffectRow DEF IInv
    <3> QED BY <3>1, <3>4, <3>5, <3>6 DEF WorkerOK, SameWorker, Claimed
  <2>5. ASSUME NEW d \in late', d.op \in Writes
        PROVE  Harmless(d)' /\ LeftAfterAttempt(d)'
    <3>1. d \in late /\ d # c /\ d \in Call /\ Harmless(d) /\ LeftAfterAttempt(d)
      BY <1>1, <2>5 DEF IInv, LateInv, TypeOK
    <3>2. c.run # d.run \/ c.op = "finish_item" \/ d.op = "finish_item"
      BY <1>6, <2>5, <3>1 DEF IInv, LateInv, OneLeft
    <3>3. HarmlessAfter(d)
      BY <1>2, <1>6, <2>1, <2>5, <3>1, <3>2, HarmlessPair DEF IInv
    <3>4. Harmless(d)'
      BY <3>3 DEF HarmlessAfter, Harmless, Claimed
    <3>5. LeftAfterAttempt(d)'
      BY <1>2, <3>1 DEF LeftAfterAttempt, Owner, SameWorker
    <3> QED BY <3>4, <3>5
  <2>6. OneLeft'
    BY <1>1 DEF IInv, LateInv, OneLeft
  <2> QED BY <2>2, <2>3, <2>4, <2>5, <2>6 DEF WorkerInv, LateInv
<1>7. c.op \in Writes \cup {"recover", "claim"}
  BY <1>2, CallFields
<1> QED BY <1>4, <1>5, <1>6, <1>7

\* The inductive step, with the type invariant.
LEMMA StepInv ==
  ASSUME IInv, [Next]_vars PROVE RowInv' /\ WorkerInv' /\ LateInv'
<1>1. CASE Api
  BY <1>1, ApiInv
<1>2. ASSUME NEW p \in Procs, Serve(p) PROVE RowInv' /\ WorkerInv' /\ LateInv'
  BY <1>2, ServeInv
<1>3. ASSUME NEW p \in Procs, Execute(p) PROVE RowInv' /\ WorkerInv' /\ LateInv'
  BY <1>3, ExecuteInv
<1>4. ASSUME NEW p \in Procs, Disturb(p) PROVE RowInv' /\ WorkerInv' /\ LateInv'
  BY <1>4, DisturbInv
<1>5. ASSUME NEW p \in Procs, Restart(p) PROVE RowInv' /\ WorkerInv' /\ LateInv'
  <2>1. runs' = runs /\ late' = late
    BY <1>5 DEF Restart
  <2>2. \A q \in Procs : Owner(q)' => Owner(q) /\ SameWorker(q)
    BY <1>5 DEF Restart, Goto, Keep, Owner, SameWorker, Attempting, IInv, TypeOK
  <2>3. RowInv' /\ Kept
    BY <2>1, SameRows DEF IInv
  <2> QED BY <2>1, <2>2, <2>3, QuietStep
<1>6. CASE DropLease \/ UNCHANGED vars
  <2>1. UNCHANGED <<runs, local, late>>
    BY <1>6 DEF DropLease, vars, local
  <2>2. \A q \in Procs : Owner(q)' => Owner(q) /\ SameWorker(q)
    BY <2>1 DEF local, Owner, SameWorker
  <2>3. RowInv' /\ Kept
    BY <2>1, SameRows DEF IInv
  <2> QED BY <2>1, <2>2, <2>3, QuietStep
<1>7. CASE LateWrite
  BY <1>7, LateWriteInv
<1> QED BY <1>1, <1>2, <1>3, <1>4, <1>5, <1>6, <1>7 DEF Next

LEMMA InitInv == Init => IInv
<1> SUFFICES ASSUME Init PROVE IInv
  OBVIOUS
<1>1. TypeOK
  BY InitTypeOK
<1>2. \A r \in RunId : /\ runs[r].status = "absent" /\ ~runs[r].superseded
                       /\ runs[r].grade = "none" /\ ~runs[r].move
  BY DEF Init, NoRow
<1>3. RowInv
  BY <1>2 DEF RowInv, OneRunning, OneActiveQueue, CompletedIffGraded, Active, Live,
              StoppedQueueHasNothingQueued, Current, AttemptsFollow,
              SupersededIsSettled, UntouchedIsEmpty, GradedIsAnswered
<1>4. \A p \in Procs : ~Owner(p)
  BY DEF Init, Owner, Attempting
<1>5. WorkerInv /\ LateInv
  BY <1>4 DEF Init, WorkerInv, WorkerOK, OneOwner, LateInv, OneLeft
<1> QED BY <1>1, <1>3, <1>5 DEF IInv

\* The inductive invariant: a run has one owner, what is left behind is
\* harmless, and the rows keep their order.
THEOREM Invariance == Spec => []IInv
<1>1. TypeOK /\ [Next]_vars => TypeOK'
  BY StepTypeOK
<1>2. IInv /\ [Next]_vars => IInv'
  BY <1>1, StepInv DEF IInv
<1> QED BY <1>2, InitInv, PTL DEF Spec

----------------------------------------------------------------------------
(* What follows.                                                           *)

\* At most one row is running, whatever happens to leases and processes:
\* claim_next's own look at the table is enough.
THEOREM OneRunningAlways == Spec => []OneRunning
<1>1. IInv => OneRunning
  BY DEF IInv, RowInv
<1> QED BY <1>1, Invariance, PTL

\* Batches never overlap, although only enqueue and retry_failed look.
THEOREM OneActiveQueueAlways == Spec => []OneActiveQueue
<1>1. IInv => OneActiveQueue
  BY DEF IInv, RowInv
<1> QED BY <1>1, Invariance, PTL

\* No order of recovery, time limit and late transaction separates a row's
\* status from its grade.
THEOREM CompletedIffGradedAlways == Spec => []CompletedIffGraded
<1>1. IInv => CompletedIffGraded
  BY DEF IInv, RowInv
<1> QED BY <1>1, Invariance, PTL

\* A stopped queue has nothing queued until a retry reopens it.
THEOREM StopHolds == Spec => []StoppedQueueHasNothingQueued
<1>1. IInv => StoppedQueueHasNothingQueued
  BY DEF IInv, RowInv
<1> QED BY <1>1, Invariance, PTL

\* However often a queue is retried, each position appears in it once.
THEOREM OneCurrentAlways == Spec => []OneCurrentPerPosition
<1>1. IInv => OneCurrentPerPosition
  <2> SUFFICES ASSUME IInv, NEW r \in RunId, NEW s \in RunId
               PROVE  /\ /\ Current(r) /\ Current(s)
                         /\ r.queue = s.queue /\ r.pos = s.pos
                         => r = s
                      /\ runs[r].superseded => ~Active(r)
    BY DEF OneCurrentPerPosition
  <2>1. runs[r].superseded => ~Active(r)
    BY DEF IInv, RowInv, SupersededIsSettled, Active
  <2>2. ASSUME Current(r), Current(s), r.queue = s.queue, r.pos = s.pos
        PROVE  r = s
    <3>1. ~(r.attempt < s.attempt) /\ ~(s.attempt < r.attempt)
      BY <2>2 DEF Current, Live, IInv, RowInv, AttemptsFollow
    <3>2. r.attempt \in Nat /\ s.attempt \in Nat
      BY DEF RunId
    <3>3. r.attempt = s.attempt
      BY <3>1, <3>2
    <3> QED BY <2>2, <3>3 DEF RunId
  <2> QED BY <2>1, <2>2
<1> QED BY <1>1, Invariance, PTL
----------------------------------------------------------------------------
(* One attempt at a time.                                                  *)

\* A worker that has taken the lease and has not ended holds it.
HolderOK == \A p \in Procs : pc[p] \notin {"down", "acquire"} => holder = p

LEMMA HolderKept ==
  ASSUME ~LeaseCanDrop, TypeOK, HolderOK, [Next]_vars
  PROVE  HolderOK'
<1>1. ASSUME NEW p \in Procs, pc[p] \notin {"down", "acquire"}, UNCHANGED holder,
             NEW place, Goto(p, place)
      PROVE  HolderOK'
  BY <1>1 DEF HolderOK, Goto, TypeOK
<1>2. ASSUME NEW p \in Procs, NEW place \in {"down", "acquire"}, Goto(p, place),
             CloseLease(p) \/ UNCHANGED holder
      PROVE  HolderOK'
  BY <1>2, QueueAssumption DEF HolderOK, Goto, CloseLease, TypeOK
<1>3. CASE UNCHANGED <<pc, holder>>
  BY <1>3 DEF HolderOK
<1>4. ASSUME NEW p \in Procs, AcquireLease(p) PROVE HolderOK'
  <2>1. \A q \in Procs : pc[q] \in {"down", "acquire"}
    BY <1>4, QueueAssumption DEF AcquireLease, HolderOK
  <2> QED BY <1>4, <2>1 DEF AcquireLease, HolderOK, Goto, TypeOK
<1>5. ASSUME NEW p \in Procs, CheckLease(p) PROVE HolderOK'
  <2>1. CASE holder = p
    BY <1>1, <1>5, <2>1 DEF CheckLease
  <2>2. CASE holder # p
    BY <1>2, <1>5, <2>2 DEF CheckLease
  <2> QED BY <2>1, <2>2
<1>6. ASSUME NEW p \in Procs, Recover(p) \/ ClaimNext(p) \/ ClaimNothing(p) PROVE HolderOK'
  BY <1>1, <1>6 DEF Recover, ClaimNext, ClaimNothing
<1>7. ASSUME NEW p \in Procs,
             \/ Begin(p) \/ ChooseMove(p) \/ FinishError(p) \/ SaveMove(p)
             \/ Evaluate(p) \/ FinishGrade(p) \/ ReadBack(p)
      PROVE  HolderOK'
  BY <1>1, <1>7 DEF Begin, ChooseMove, FinishError, SaveMove, Evaluate, FinishGrade, ReadBack
<1>8. ASSUME NEW p \in Procs, FinishItem(p) PROVE HolderOK'
  <2>1. CASE stage[p] = "interrupted"
    BY <1>2, <1>8, <2>1 DEF FinishItem
  <2>2. CASE stage[p] # "interrupted"
    BY <1>1, <1>8, <2>2 DEF FinishItem
  <2> QED BY <2>1, <2>2
<1>9. ASSUME NEW p \in Procs, NEW why, Interrupt(p, why) PROVE HolderOK'
  <2>1. CASE UNCHANGED pc
    BY <1>3, <1>9, <2>1 DEF Interrupt
  <2>2. CASE ~UNCHANGED pc
    BY <1>1, <1>9, <2>2 DEF Interrupt, Attempting
  <2> QED BY <2>1, <2>2
<1>10. ASSUME NEW p \in Procs, Shutdown(p) PROVE HolderOK'
  BY <1>2, <1>9, <1>10 DEF Shutdown
<1>11. ASSUME NEW p \in Procs, CallFails(p) PROVE HolderOK'
  <2>1. CASE pc[p] \in Attempting
    BY <1>1, <1>2, <1>11, <2>1 DEF CallFails, Attempting
  <2>2. CASE pc[p] \notin Attempting
    BY <1>2, <1>11, <2>2 DEF CallFails
  <2> QED BY <2>1, <2>2
<1>12. ASSUME NEW p \in Procs, Crash(p) PROVE HolderOK'
  BY <1>2, <1>12 DEF Crash
<1>13. ASSUME NEW p \in Procs, Restart(p) PROVE HolderOK'
  BY <1>2, <1>13 DEF Restart
<1>14. CASE Api \/ LateWrite \/ UNCHANGED vars
  BY <1>3, <1>14 DEF Api, LateWrite, vars, Enqueue, RetryFailed, Stop, DeleteQueue, DeleteRun,
                     Delete, local
<1> QED BY <1>4, <1>5, <1>6, <1>7, <1>8, <1>9, <1>10, <1>11, <1>12, <1>13, <1>14
    DEF Next, Serve, Execute, Disturb, TimeOut, DropLease

\* "Each position and its grading finish before the next begins": where no
\* session ends under its worker, no two workers of any number of processes
\* are inside execute_item's attempt at once, however they crash, restart,
\* shut down or fail calls.
THEOREM OneAttemptWithLease ==
    ASSUME ~LeaseCanDrop
    PROVE  Spec => []OneAttemptAtATime
<1>1. Init => HolderOK
  BY DEF Init, HolderOK
<1>2. TypeOK /\ HolderOK /\ [Next]_vars => HolderOK'
  BY HolderKept
<1>3. HolderOK => OneAttemptAtATime
  BY DEF HolderOK, OneAttemptAtATime, Attempting
<1> QED BY <1>1, <1>2, <1>3, TypeCorrect, PTL DEF Spec

----------------------------------------------------------------------------
(* What a step may never do, and the refinement of QueueLedger.            *)

\* The tables a step can produce: an API transaction's, a recovery's, a
\* claim's, a harmless write's, or the same.
Claims(r) == (\E ready \in BOOLEAN : Claimable(r, ready)) /\ runs' = ClaimOf(r)
Writing(c) == c \in Call /\ c.op \in Writes /\ Harmless(c) /\ runs' = Effect(c)

LEMMA TableSteps ==
  ASSUME IInv, [Next]_vars
  PROVE  \/ Api
         \/ runs' = runs
         \/ runs' = Recovered
         \/ \E r \in RunId : Claims(r)
         \/ \E c \in Call : Writing(c)
<1> DEFINE Wrote == \E c \in Call : Writing(c)
           Took == \E r \in RunId : Claims(r)
           Goal == \/ Api \/ runs' = runs \/ runs' = Recovered \/ Took \/ Wrote
<1>1. ASSUME NEW p \in Procs, pc[p] \in Writes, runs' = Effect(CallOf(p)) PROVE Wrote
  <2>1. Owner(p)
    BY <1>1 DEF Owner, Writes, Attempting
  <2>2. WorkerOK(p)
    BY DEF IInv, WorkerInv
  <2>3. Harmless(CallOf(p))
    BY <1>1, <2>1, <2>2 DEF WorkerOK
  <2>4. CallOf(p) \in Call /\ CallOf(p).op \in Writes
    BY <1>1, CallType DEF IInv
  <2> QED BY <1>1, <2>3, <2>4 DEF Writing
<1>2. ASSUME NEW c, c.op \in {"recover", "claim"}, runs' \in {runs} \cup Outcomes(c)
      PROVE  Goal
  <2>1. /\ c.op = "recover" => Outcomes(c) = {Recovered}
        /\ c.op = "claim" =>
             Outcomes(c) = {ClaimOf(r) : r \in {s \in RunId : Claimable(s, TRUE)}}
    BY DEF Outcomes, Writes
  <2> QED BY <1>2, <2>1 DEF Claims
<1>3. ASSUME NEW p \in Procs, Serve(p) PROVE Goal
  BY <1>3 DEF Serve, AcquireLease, Recover, CheckLease, ClaimNext, ClaimNothing, Claims
<1>4. ASSUME NEW p \in Procs, Execute(p) PROVE Goal
  <2>1. runs' = runs \/ (pc[p] \in Writes /\ runs' = Effect(CallOf(p)))
    BY <1>4 DEF Execute, Begin, ChooseMove, FinishError, SaveMove, Evaluate,
                FinishGrade, ReadBack, FinishItem, Writes
  <2> QED BY <1>1, <2>1
<1>5. ASSUME NEW p \in Procs, CallFails(p) PROVE Goal
  <2>1. runs' \in {runs} \cup Outcomes(CallOf(p)) /\ CallOf(p).op = pc[p]
    BY <1>5, CallType DEF CallFails, IInv
  <2>2. CASE pc[p] \in Writes
    <3>1. Outcomes(CallOf(p)) = {Effect(CallOf(p))}
      BY <2>1, <2>2 DEF Outcomes, Writes
    <3> QED BY <1>1, <2>1, <2>2, <3>1
  <2>3. CASE pc[p] \in {"recover", "claim"}
    BY <1>2, <2>1, <2>3
  <2>4. CASE pc[p] \notin Writes \cup {"recover", "claim"}
    BY <2>1, <2>4 DEF Outcomes
  <2> QED BY <2>2, <2>3, <2>4
<1>6. ASSUME NEW p \in Procs, Disturb(p) \/ Restart(p) PROVE Goal
  BY <1>5, <1>6 DEF Disturb, TimeOut, Interrupt, Shutdown, Crash, Restart
<1>7. CASE LateWrite
  <2>1. PICK c \in late : runs' \in {runs} \cup Outcomes(c)
    BY <1>7 DEF LateWrite
  <2>2. c \in Call /\ (c.op \in Writes => Harmless(c))
    BY DEF IInv, TypeOK, LateInv
  <2>3. CASE c.op \in Writes
    <3>1. Outcomes(c) = {Effect(c)}
      BY <2>3 DEF Outcomes, Writes
    <3> QED BY <2>1, <2>2, <2>3, <3>1 DEF Writing
  <2>4. CASE c.op \in {"recover", "claim"}
    BY <1>2, <2>1, <2>4
  <2> QED BY <2>2, <2>3, <2>4, CallFields
<1>8. CASE DropLease \/ UNCHANGED vars
  BY <1>8 DEF DropLease, vars
<1> QED BY <1>3, <1>4, <1>6, <1>7, <1>8 DEF Next

----------------------------------------------------------------------------
(* What happens to a row.                                                  *)

\* The ways a row's status can change.
StatusStep(r) ==
    \/ runs'[r].status = runs[r].status
    \/ runs[r].status = "absent" /\ runs'[r].status = "queued"
    \/ runs[r].status = "queued" /\ runs'[r].status \in {"running", "skipped"}
    \/ /\ runs[r].status \in {"running", "completed", "failed"}
       /\ runs'[r].status \in {"completed", "failed"}
    \/ /\ runs[r].status \in {"completed", "failed", "skipped"}
       /\ runs'[r].status = "deleted"

LEMMA ApiStatus ==
  ASSUME TypeOK, RowInv, Api, NEW r \in RunId PROVE StatusStep(r)
<1>1. ASSUME NEW q \in Queues, NEW chosen, Enqueue(q, chosen) PROVE StatusStep(r)
  BY <1>1 DEF Enqueue, QueuedRow, NoRow, StatusStep
<1>2. ASSUME NEW q \in Queues, RetryFailed(q) PROVE StatusStep(r)
  <2>1. ASSUME NEW s \in Retryable(q), Replaces(r, s)
        PROVE  runs[r].status = "absent"
    <3>1. s \in RunId /\ r.queue = s.queue /\ r.pos = s.pos /\ s.attempt < r.attempt
      BY <2>1 DEF Retryable, RowsOf, Replaces, RunId
    <3> QED BY <3>1 DEF RowInv, AttemptsFollow, Retryable, Current
  <2>2. CASE \E s \in Retryable(q) : Replaces(r, s)
    <3>1. runs[r].status = "absent" /\ r \notin Retryable(q)
      BY <2>1, <2>2 DEF Retryable
    <3>2. runs'[r] = QueuedRow(clock')
      BY <1>2, <2>2, <3>1 DEF RetryFailed, Current, Live
    <3> QED BY <3>1, <3>2 DEF QueuedRow, NoRow, StatusStep
  <2>3. CASE r \in Retryable(q) /\ ~\E s \in Retryable(q) : Replaces(r, s)
    BY <1>2, <2>3, RowFields DEF RetryFailed, SupersededRow, StatusStep, Row
  <2>4. CASE r \notin Retryable(q) /\ ~\E s \in Retryable(q) : Replaces(r, s)
    BY <1>2, <2>4, RowFields DEF RetryFailed, ReopenedRow, StatusStep, Row
  <2> QED BY <2>2, <2>3, <2>4
<1>3. ASSUME NEW q \in Queues, Stop(q) PROVE StatusStep(r)
  BY <1>3, RowFields DEF Stop, StatusStep, Row
<1>4. ASSUME NEW rows, \A s \in rows : Live(s), Delete(rows) PROVE StatusStep(r)
  BY <1>4, RowFields DEF Delete, DeletedRow, NoRow, StatusStep, Live, Active
<1> QED BY <1>1, <1>2, <1>3, <1>4 DEF Api, DeleteQueue, DeleteRun, RowsOf

LEMMA WriteStatus ==
  ASSUME IInv, NEW c \in Call, Writing(c), NEW r \in RunId PROVE StatusStep(r)
<1>1. CASE r # c.run
  BY <1>1, EffectRow DEF Writing, IInv, StatusStep
<1>2. CASE r = c.run
  BY <1>2, EffectRow DEF Writing, IInv, StatusStep, Claimed, Harmless
<1> QED BY <1>1, <1>2

LEMMA StatusSteps ==
  ASSUME IInv, [Next]_vars, NEW r \in RunId PROVE StatusStep(r)
<1>0. TypeOK /\ RowInv
  BY DEF IInv
<1>1. CASE Api
  BY <1>0, <1>1, ApiStatus
<1>2. CASE runs' = runs
  BY <1>2 DEF StatusStep
<1>3. CASE runs' = Recovered
  BY <1>0, <1>3, RowFields DEF Recovered, RecoveredRow, StatusStep, Row
<1>4. ASSUME NEW s \in RunId, Claims(s) PROVE StatusStep(r)
  BY <1>0, <1>4, RowFields DEF Claims, Claimable, NextInLine, ClaimOf, StatusStep,
                               TypeOK, Row
<1>5. ASSUME NEW c \in Call, Writing(c) PROVE StatusStep(r)
  BY <1>5, WriteStatus
<1> QED BY <1>1, <1>2, <1>3, <1>4, <1>5, TableSteps

\* Results survive every step but a deletion.
LEMMA ResultSteps ==
  ASSUME IInv, [Next]_vars, NEW r \in RunId
  PROVE  \/ runs'[r].status = "deleted"
         \/ /\ runs[r].grade = "completed" => runs'[r].grade = "completed"
            /\ runs[r].move => runs'[r].move
<1>0. TypeOK /\ RowInv
  BY DEF IInv
<1>1. runs[r].grade = "completed" \/ runs[r].move => Claimed(r)
  BY <1>0, RowFields DEF RowInv, UntouchedIsEmpty, Claimed
<1>2. Kept => \/ runs'[r].status = "deleted"
              \/ /\ runs[r].grade = "completed" => runs'[r].grade = "completed"
                 /\ runs[r].move => runs'[r].move
  BY <1>1 DEF Kept
<1>3. CASE Api \/ runs' = runs \/ runs' = Recovered \/ \E s \in RunId : Claims(s)
  <2>1. Kept
    BY <1>0, <1>3, ApiRows, SameRows, RecoveredRows, ClaimRows DEF Claims
  <2> QED BY <1>2, <2>1
<1>4. ASSUME NEW c \in Call, Writing(c)
      PROVE  /\ runs[r].grade = "completed" => runs'[r].grade = "completed"
             /\ runs[r].move => runs'[r].move
  <2>1. CASE r # c.run
    BY <1>4, <2>1, EffectRow DEF Writing, IInv
  <2>2. CASE r = c.run
    BY <1>4, <2>2, EffectRow DEF Writing, IInv
  <2> QED BY <2>1, <2>2
<1> QED BY <1>3, <1>4, TableSteps

----------------------------------------------------------------------------
(* Action properties.                                                      *)

\* A completed evaluation, its status and its answer stay until somebody
\* deletes the row.
THEOREM GradesAreFinal == Spec => GradeIsFinal
<1>1. IInv /\ IInv' /\ [Next]_vars =>
        [\A r \in RunId : runs[r].grade = "completed" =>
            \/ runs'[r].status = "deleted"
            \/ /\ runs'[r].status = "completed" /\ runs'[r].grade = "completed"
               /\ runs'[r].move]_vars
  BY ResultSteps DEF IInv, RowInv, CompletedIffGraded, GradedIsAnswered
<1> QED BY <1>1, Invariance, PTL DEF Spec, GradeIsFinal

\* No sequence of recoveries, retries and late transactions runs an attempt,
\* and pays for it, twice.
THEOREM NothingIsReplayed == Spec => NoReplay
<1>1. IInv /\ [Next]_vars =>
        [\A r \in RunId :
          /\ runs[r].status = "running" => runs'[r].status # "queued"
          /\ runs[r].status \in {"completed", "failed", "skipped"} =>
                ~Active(r)'
          /\ runs[r].status = "deleted" => runs'[r].status = "deleted"]_vars
  BY StatusSteps DEF StatusStep, Active
<1> QED BY <1>1, Invariance, PTL DEF Spec, NoReplay

\* An answer that was saved is never erased by what comes after it.
THEOREM AnswersAreKept == Spec => AnswerIsKept
<1>1. IInv /\ [Next]_vars =>
        [\A r \in RunId : runs[r].move =>
            runs'[r].move \/ runs'[r].status = "deleted"]_vars
  BY ResultSteps
<1> QED BY <1>1, Invariance, PTL DEF Spec, AnswerIsKept

----------------------------------------------------------------------------
(* The ledger.                                                             *)

Phase == [r \in RunId |-> PhaseOf(runs[r].status)]
Graded == {r \in RunId : runs[r].grade = "completed"}

LEMMA Phases ==
  /\ PhaseOf("absent") = "absent"
  /\ PhaseOf("queued") = "waiting"
  /\ PhaseOf("running") = "underway"
  /\ PhaseOf("completed") = "settled"
  /\ PhaseOf("failed") = "settled"
  /\ PhaseOf("skipped") = "settled"
  /\ PhaseOf("deleted") = "gone"
BY DEF PhaseOf

LEMMA PhaseIs ==
  ASSUME TypeOK, NEW r \in RunId
  PROVE  /\ Phase[r] = PhaseOf(runs[r].status)
         /\ Phase[r] = "absent" <=> runs[r].status = "absent"
         /\ Phase[r] = "waiting" <=> runs[r].status = "queued"
         /\ Phase[r] = "underway" <=> runs[r].status = "running"
         /\ Phase[r] = "settled" <=>
              runs[r].status \in {"completed", "failed", "skipped"}
         /\ Phase[r] = "gone" <=> runs[r].status = "deleted"
<1>1. Phase[r] = PhaseOf(runs[r].status)
  BY DEF Phase
<1> QED BY <1>1, Phases, RowFields

\* The rows of one status move to another; the rest, and the grades, stay.
LEMMA MovedIs ==
  ASSUME TypeOK, TypeOK', NEW rows \in SUBSET RunId, NEW to,
         \A r \in rows : PhaseOf(runs'[r].status) = to,
         \A r \in RunId \ rows : PhaseOf(runs'[r].status) = PhaseOf(runs[r].status)
  PROVE  Phase' = [r \in RunId |-> IF r \in rows THEN to ELSE Phase[r]]
BY DEF Phase

LedgerStep == [Ledger!Next]_<<Phase, Graded>>

LEMMA EnqueueLedger ==
  ASSUME IInv, IInv', NEW q \in Queues, NEW chosen \in SUBSET Positions,
         Enqueue(q, chosen)
  PROVE  LedgerStep
<1> DEFINE rows == {r \in RunId : r.queue = q /\ r.pos \in chosen /\ r.attempt = 1}
<1>1. TypeOK /\ TypeOK'
  BY DEF IInv
<1>2. /\ \A r \in rows : runs'[r].status = "queued" /\ runs'[r].grade = "none"
      /\ \A r \in RunId \ rows : runs'[r] = runs[r]
      /\ \A r \in rows : runs[r].status = "absent" /\ runs[r].grade = "none"
      /\ \A r \in RunId : ~Active(r)
  BY DEF Enqueue, QueuedRow, NoRow, NothingActive, IInv, RowInv, UntouchedIsEmpty
<1>3. Phase' = [r \in RunId |-> IF r \in rows THEN "waiting" ELSE Phase[r]]
  <2>1. /\ rows \in SUBSET RunId
        /\ \A r \in rows : PhaseOf(runs'[r].status) = "waiting"
        /\ \A r \in RunId \ rows : PhaseOf(runs'[r].status) = PhaseOf(runs[r].status)
    BY <1>2, Phases
  <2> HIDE DEF rows
  <2> QED BY <1>1, <2>1, MovedIs
<1>4. Graded' = Graded
  BY <1>2 DEF Graded
<1>5. \A r, s \in rows : r.queue = s.queue /\ (r.pos = s.pos => r = s)
  BY DEF RunId
<1>6. /\ \A r \in RunId : Phase[r] \notin {"waiting", "underway"}
      /\ \A r \in rows : Phase[r] = "absent"
  BY <1>1, <1>2, PhaseIs DEF Active
<1>7. CASE rows = {}
  <2>1. Phase' = Phase
    BY <1>3, <1>7 DEF Phase
  <2> QED BY <1>4, <2>1 DEF LedgerStep
<1>8. CASE rows # {}
  <2>1. Ledger!Schedule(rows)
    BY <1>3, <1>4, <1>5, <1>6, <1>8
       DEF Ledger!Schedule, Ledger!Idle, Ledger!Moved, Phase, Graded
  <2>2. rows \in SUBSET RunId
    OBVIOUS
  <2> QED BY <2>1, <2>2 DEF LedgerStep, Ledger!Next
<1> QED BY <1>7, <1>8

LEMMA RetryLedger ==
  ASSUME IInv, IInv', NEW q \in Queues, RetryFailed(q)
  PROVE  LedgerStep
<1> DEFINE rows == {r \in RunId : \E s \in Retryable(q) : Replaces(r, s)}
<1>1. TypeOK /\ TypeOK' /\ RowInv
  BY DEF IInv
<1>2. ASSUME NEW r \in RunId, NEW s \in Retryable(q), Replaces(r, s)
      PROVE  /\ s \in RunId /\ r.queue = q /\ r.pos = s.pos
             /\ r.attempt = s.attempt + 1
             /\ runs[r].status = "absent" /\ r \notin Retryable(q)
  <2>1. /\ s \in RunId /\ s.queue = q /\ r.queue = q /\ r.pos = s.pos
        /\ r.attempt = s.attempt + 1
    BY <1>2 DEF Retryable, RowsOf, Replaces, RunId
  <2>2. s.attempt < r.attempt
    BY <2>1 DEF RunId
  <2>3. runs[r].status = "absent"
    BY <1>1, <2>1, <2>2 DEF RowInv, AttemptsFollow, Retryable, Current
  <2> QED BY <2>1, <2>3 DEF Retryable
<1>3. \A r \in rows : /\ runs[r].status = "absent" /\ runs'[r].status = "queued"
                      /\ r.queue = q
  <2> SUFFICES ASSUME NEW r \in rows
               PROVE  /\ runs[r].status = "absent" /\ runs'[r].status = "queued"
                      /\ r.queue = q
    OBVIOUS
  <2>1. PICK s \in Retryable(q) : Replaces(r, s)
    OBVIOUS
  <2>2. runs[r].status = "absent" /\ r \notin Retryable(q) /\ r.queue = q
    BY <1>2, <2>1
  <2>3. runs'[r] = QueuedRow(clock')
    BY <2>1, <2>2 DEF RetryFailed, Current, Live
  <2> QED BY <2>2, <2>3 DEF QueuedRow, NoRow
<1>4. \A r \in RunId \ rows : runs'[r].status = runs[r].status
  BY <1>1, RowFields DEF RetryFailed, SupersededRow, ReopenedRow, Row
<1>5. Phase' = [r \in RunId |-> IF r \in rows THEN "waiting" ELSE Phase[r]]
  <2>1. /\ rows \in SUBSET RunId
        /\ \A r \in rows : PhaseOf(runs'[r].status) = "waiting"
        /\ \A r \in RunId \ rows : PhaseOf(runs'[r].status) = PhaseOf(runs[r].status)
    BY <1>3, <1>4, Phases
  <2> HIDE DEF rows
  <2> QED BY <1>1, <2>1, MovedIs
<1>6. Graded' = Graded
  <2>1. /\ \A r \in RunId : runs[r].grade = "completed" <=> runs[r].status = "completed"
        /\ \A r \in RunId : runs'[r].grade = "completed" <=> runs'[r].status = "completed"
    BY DEF IInv, RowInv, CompletedIffGraded
  <2> QED BY <1>3, <1>4, <2>1 DEF Graded
<1>7. \A r, t \in rows : r.queue = t.queue /\ (r.pos = t.pos => r = t)
  <2> SUFFICES ASSUME NEW r \in rows, NEW t \in rows, r.pos = t.pos
               PROVE  r = t
    BY <1>3
  <2>1. PICK s \in Retryable(q) : Replaces(r, s)
    OBVIOUS
  <2>2. PICK u \in Retryable(q) : Replaces(t, u)
    OBVIOUS
  <2>3. s \in RunId /\ u \in RunId /\ s.pos = u.pos /\ s.queue = q /\ u.queue = q
    BY <1>2, <2>1, <2>2 DEF Retryable, RowsOf
  <2>4. Current(s) /\ Current(u)
    BY DEF Retryable
  <2>5. ~(s.attempt < u.attempt) /\ ~(u.attempt < s.attempt)
    BY <1>1, <2>3, <2>4 DEF RowInv, AttemptsFollow, Current, Live
  <2>6. s.attempt \in Nat /\ u.attempt \in Nat
    BY <2>3 DEF RunId
  <2>7. s.attempt = u.attempt
    BY <2>5, <2>6
  <2>8. r.attempt = t.attempt /\ r.queue = t.queue
    BY <1>2, <1>3, <2>1, <2>2, <2>7
  <2> QED BY <2>8 DEF RunId
<1>8. /\ \A r \in RunId : Phase[r] \notin {"waiting", "underway"}
      /\ \A r \in rows : Phase[r] = "absent"
  BY <1>1, <1>3, PhaseIs DEF RetryFailed, NothingActive, Active
<1>9. CASE rows = {}
  <2>1. Phase' = Phase
    BY <1>5, <1>9 DEF Phase
  <2> QED BY <1>6, <2>1 DEF LedgerStep
<1>10. CASE rows # {}
  <2>1. Ledger!Schedule(rows)
    BY <1>5, <1>6, <1>7, <1>8, <1>10
       DEF Ledger!Schedule, Ledger!Idle, Ledger!Moved, Phase, Graded
  <2>2. rows \in SUBSET RunId
    OBVIOUS
  <2> QED BY <2>1, <2>2 DEF LedgerStep, Ledger!Next
<1> QED BY <1>9, <1>10

LEMMA StopLedger ==
  ASSUME IInv, IInv', NEW q \in Queues, Stop(q)
  PROVE  LedgerStep
<1>1. TypeOK /\ TypeOK' /\ RowInv
  BY DEF IInv
<1>2. \A r \in RunId : runs[r].status = "queued" => r \in RowsOf(q)
  BY <1>1 DEF Stop, RowsOf, Active, Live, RowInv, OneActiveQueue
<1>3. \A r \in RunId : /\ runs'[r].grade = runs[r].grade
                       /\ runs'[r].status = IF runs[r].status = "queued"
                                            THEN "skipped" ELSE runs[r].status
  BY <1>1, <1>2, RowFields DEF Stop, Row
<1>4. Graded' = Graded
  BY <1>3 DEF Graded
<1> DEFINE rows == {r \in RunId : Phase[r] = "waiting"}
<1>5. Phase' = [r \in RunId |-> IF r \in rows THEN "settled" ELSE Phase[r]]
  <2>1. /\ rows \in SUBSET RunId
        /\ \A r \in rows : PhaseOf(runs'[r].status) = "settled"
        /\ \A r \in RunId \ rows : PhaseOf(runs'[r].status) = PhaseOf(runs[r].status)
    BY <1>1, <1>3, Phases, PhaseIs
  <2> HIDE DEF rows
  <2> QED BY <1>1, <2>1, MovedIs
<1>6. Ledger!Skip
  BY <1>4, <1>5 DEF Ledger!Skip, Ledger!Moved, Phase, Graded
<1> QED BY <1>6 DEF LedgerStep, Ledger!Next

LEMMA DeleteLedger ==
  ASSUME IInv, IInv', NEW rows \in SUBSET RunId, Delete(rows),
         \A r \in rows : Live(r)
  PROVE  LedgerStep
<1>1. TypeOK /\ TypeOK'
  BY DEF IInv
<1>2. /\ \A r \in rows : runs'[r].status = "deleted" /\ runs'[r].grade = "none"
      /\ \A r \in RunId \ rows : runs'[r] = runs[r]
  BY DEF Delete, DeletedRow, NoRow
<1>3. Phase' = [r \in RunId |-> IF r \in rows THEN "gone" ELSE Phase[r]]
  BY <1>1, <1>2, Phases, MovedIs
<1>4. Graded' = Graded \ rows
  BY <1>2 DEF Graded
<1>5. \A r \in rows : Phase[r] = "settled"
  BY <1>1, PhaseIs, RowFields DEF Delete, Active, Live
<1>6. Ledger!Remove(rows)
  BY <1>3, <1>4, <1>5 DEF Ledger!Remove, Ledger!Moved, Phase, Graded
<1> QED BY <1>6 DEF LedgerStep, Ledger!Next

\* One row settles, or moves among the settled ones, with or without a grade.
LEMMA SettleLedger ==
  ASSUME IInv, IInv', NEW r \in RunId,
         \A s \in RunId \ {r} : /\ runs'[s].status = runs[s].status
                                /\ runs'[s].grade = runs[s].grade,
         runs[r].status \in {"running", "completed", "failed"},
         \/ runs'[r].status = runs[r].status /\ runs'[r].grade = runs[r].grade
         \/ runs'[r].status \in {"completed", "failed"},
         runs[r].grade = "completed" => runs'[r].grade = "completed"
  PROVE  LedgerStep
<1>1. TypeOK /\ TypeOK'
  BY DEF IInv
<1>2. Graded' \in {Graded, Graded \cup {r}}
  BY DEF Graded
<1>3. CASE runs'[r].status = runs[r].status /\ runs'[r].grade = runs[r].grade
  <2>1. Phase' = Phase
    BY <1>3 DEF Phase
  <2>2. Graded' = Graded
    BY <1>3 DEF Graded
  <2> QED BY <2>1, <2>2 DEF LedgerStep
<1>4. CASE runs[r].status = "running" /\ runs'[r].status \in {"completed", "failed"}
  <2>1. /\ {r} \in SUBSET RunId
        /\ \A s \in {r} : PhaseOf(runs'[s].status) = "settled"
        /\ \A s \in RunId \ {r} : PhaseOf(runs'[s].status) = PhaseOf(runs[s].status)
    BY <1>4, Phases
  <2>2. Phase' = [s \in RunId |-> IF s \in {r} THEN "settled" ELSE Phase[s]]
    BY <1>1, <2>1, MovedIs
  <2>3. Phase[r] = "underway"
    BY <1>1, <1>4, PhaseIs
  <2>4. Ledger!Settle(r)
    BY <1>2, <2>2, <2>3 DEF Ledger!Settle, Ledger!Moved, Phase, Graded
  <2> QED BY <2>4 DEF LedgerStep, Ledger!Next
<1>5. CASE /\ runs[r].status \in {"completed", "failed"}
           /\ runs'[r].status \in {"completed", "failed"}
  <2>1. Phase' = Phase
    BY <1>5, Phases DEF Phase
  <2>2. Phase[r] = "settled"
    BY <1>1, <1>5, PhaseIs
  <2>3. Graded' = Graded \/ Ledger!GradeLate(r)
    BY <1>2, <2>1, <2>2 DEF Ledger!GradeLate, Phase, Graded
  <2> QED BY <2>1, <2>3 DEF LedgerStep, Ledger!Next
<1> QED BY <1>3, <1>4, <1>5

LEMMA RecoverLedger ==
  ASSUME IInv, IInv', runs' = Recovered
  PROVE  LedgerStep
<1>1. TypeOK /\ RowInv
  BY DEF IInv
<1>2. \A r \in RunId : /\ runs'[r].grade = runs[r].grade
                       /\ runs[r].status # "running" => runs'[r].status = runs[r].status
                       /\ runs[r].status = "running" =>
                            runs'[r].status \in {"completed", "failed"}
  BY <1>1, RowFields DEF Recovered, RecoveredRow, Row
<1>3. CASE \A r \in RunId : runs[r].status # "running"
  <2>1. Phase' = Phase /\ Graded' = Graded
    BY <1>2, <1>3 DEF Phase, Graded
  <2> QED BY <2>1 DEF LedgerStep
<1>4. CASE \E r \in RunId : runs[r].status = "running"
  <2>1. PICK r \in RunId : runs[r].status = "running"
    BY <1>4
  <2>2. \A s \in RunId \ {r} : runs[s].status # "running"
    BY <1>1, <2>1 DEF RowInv, OneRunning
  <2> QED BY <1>2, <2>1, <2>2, SettleLedger
<1> QED BY <1>3, <1>4

LEMMA ClaimLedger ==
  ASSUME IInv, IInv', NEW r \in RunId, Claims(r)
  PROVE  LedgerStep
<1>1. TypeOK /\ TypeOK' /\ RowInv
  BY DEF IInv
<1>2. /\ runs[r].status = "queued"
      /\ \A s \in RunId : runs[s].status # "running"
      /\ \A s \in RunId : runs[s].status = "queued" => ~Before(s, r)
  BY DEF Claims, Claimable, NextInLine, NothingRunning
<1>3. \A s \in RunId : /\ runs'[s].grade = runs[s].grade
                       /\ runs'[s].status = IF s = r THEN "running" ELSE runs[s].status
  BY <1>1, RowFields DEF Claims, ClaimOf, Row, TypeOK
<1>4. \A s \in RunId : runs[s].status = "queued" => r.pos <= s.pos
  <2> SUFFICES ASSUME NEW s \in RunId, runs[s].status = "queued" PROVE r.pos <= s.pos
    OBVIOUS
  <2>1. runs[s].created = runs[r].created
    BY <1>1, <1>2 DEF RowInv, OneActiveQueue, Active
  <2>2. ~(s.pos < r.pos)
    BY <1>2, <2>1 DEF Before
  <2>3. s.pos \in Nat /\ r.pos \in Nat
    BY QueueAssumption DEF RunId
  <2> QED BY <2>2, <2>3
<1>5. Phase' = [s \in RunId |-> IF s \in {r} THEN "underway" ELSE Phase[s]]
  <2>1. /\ {r} \in SUBSET RunId
        /\ \A s \in {r} : PhaseOf(runs'[s].status) = "underway"
        /\ \A s \in RunId \ {r} : PhaseOf(runs'[s].status) = PhaseOf(runs[s].status)
    BY <1>3, Phases
  <2> QED BY <1>1, <2>1, MovedIs
<1>6. Graded' = Graded
  BY <1>3 DEF Graded
<1>7. /\ Phase[r] = "waiting"
      /\ \A s \in RunId : Phase[s] # "underway"
      /\ \A s \in RunId : Phase[s] = "waiting" => r.pos <= s.pos
  BY <1>1, <1>2, <1>4, PhaseIs
<1>8. Ledger!Start(r)
  BY <1>5, <1>6, <1>7 DEF Ledger!Start, Ledger!Moved, Phase, Graded
<1> QED BY <1>8 DEF LedgerStep, Ledger!Next

LEMMA WriteLedger ==
  ASSUME IInv, IInv', NEW c \in Call, Writing(c)
  PROVE  LedgerStep
<1>1. /\ TypeOK /\ RowInv /\ c.op \in Writes /\ Harmless(c) /\ runs' = Effect(c)
      /\ c.run \in RunId /\ Claimed(c.run)
  BY CallFields DEF IInv, Writing, Harmless
<1>2. \A s \in RunId \ {c.run} : runs'[s] = runs[s]
  BY <1>1, EffectRow
<1>3. CASE runs[c.run].status = "deleted"
  <2>1. \A s \in RunId : runs'[s] = runs[s]
    BY <1>1, <1>2, <1>3, EffectRow
  <2>2. Phase' = Phase /\ Graded' = Graded
    BY <2>1 DEF Phase, Graded
  <2> QED BY <2>2 DEF LedgerStep
<1>4. CASE runs[c.run].status # "deleted"
  <2>1. /\ runs[c.run].status \in {"running", "completed", "failed"}
        /\ runs'[c.run].status \in {"running", "completed", "failed"}
        /\ runs[c.run].grade = "completed" => runs'[c.run].grade = "completed"
        /\ runs'[c.run].status = "running" => runs[c.run].status = "running"
        /\ runs'[c.run].status = "completed" <=> runs'[c.run].grade = "completed"
        /\ runs[c.run].status = "completed" <=> runs[c.run].grade = "completed"
    BY <1>1, <1>4, EffectRow DEF Claimed, RowInv, CompletedIffGraded
  <2>2. CASE runs'[c.run].status \in {"completed", "failed"}
    BY <1>1, <1>2, <2>1, <2>2, SettleLedger
  <2>3. CASE runs'[c.run].status = "running"
    <3>1. Phase' = Phase
      BY <1>2, <2>1, <2>3 DEF Phase
    <3>2. Graded' = Graded
      BY <1>2, <2>1, <2>3 DEF Graded
    <3> QED BY <3>1, <3>2 DEF LedgerStep
  <2> QED BY <2>1, <2>2, <2>3
<1> QED BY <1>3, <1>4

\* The queue implements its ledger: an attempt is scheduled, started and
\* settled at most once, one at a time and in order, whatever happens to the
\* leases, the processes and the transactions.
THEOREM QueueImplementsLedger == Spec => ImplementsLedger
<1>1. Init => Ledger!Init
  <2> SUFFICES ASSUME Init PROVE Ledger!Init
    OBVIOUS
  <2>1. \A r \in RunId : /\ PhaseOf(runs[r].status) = "absent"
                         /\ runs[r].grade # "completed"
    BY Phases DEF Init, NoRow
  <2> QED BY <2>1 DEF Ledger!Init
<1>2. IInv /\ IInv' /\ [Next]_vars => LedgerStep
  <2> SUFFICES ASSUME IInv, IInv', [Next]_vars PROVE LedgerStep
    OBVIOUS
  <2>1. CASE Api
    <3>1. ASSUME NEW q \in Queues, NEW chosen \in SUBSET Positions, Enqueue(q, chosen)
          PROVE  LedgerStep
      BY <3>1, EnqueueLedger
    <3>2. ASSUME NEW q \in Queues, RetryFailed(q) PROVE LedgerStep
      BY <3>2, RetryLedger
    <3>3. ASSUME NEW q \in Queues, Stop(q) PROVE LedgerStep
      BY <3>3, StopLedger
    <3>4. ASSUME NEW q \in Queues, DeleteQueue(q) PROVE LedgerStep
      BY <3>4, DeleteLedger DEF DeleteQueue, RowsOf
    <3>5. ASSUME NEW r \in RunId, DeleteRun(r) PROVE LedgerStep
      BY <3>5, DeleteLedger DEF DeleteRun
    <3> QED BY <2>1, <3>1, <3>2, <3>3, <3>4, <3>5 DEF Api
  <2>2. CASE runs' = runs
    BY <2>2 DEF LedgerStep, Phase, Graded
  <2>3. CASE runs' = Recovered
    BY <2>3, RecoverLedger
  <2>4. ASSUME NEW r \in RunId, Claims(r) PROVE LedgerStep
    BY <2>4, ClaimLedger
  <2>5. ASSUME NEW c \in Call, Writing(c) PROVE LedgerStep
    BY <2>5, WriteLedger
  <2> QED BY <2>1, <2>2, <2>3, <2>4, <2>5, TableSteps
<1>3. LedgerStep =>
        [Ledger!Next]_<<[r \in RunId |-> PhaseOf(runs[r].status)],
                        {r \in RunId : runs[r].grade = "completed"}>>
  BY DEF LedgerStep, Phase, Graded
<1> QED BY <1>1, <1>2, <1>3, Invariance, PTL DEF Spec, ImplementsLedger, Ledger!Spec
=============================================================================
