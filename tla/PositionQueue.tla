--------------------------- MODULE PositionQueue ---------------------------
(***************************************************************************)
(* The full-set positional queue: the rows of model_runs that carry a      *)
(* queue_tag, the HTTP operations on them, and the queue workers of one or *)
(* more backend processes that share the database.                         *)
(*                                                                         *)
(*   backend/positional_testing/queue_repository.py   the transactions     *)
(*   backend/positional_testing/run_repository.py     save_move, finish    *)
(*   backend/positional_testing/queue.py              serve, execute_item  *)
(*   backend/positional_testing/runner.py             run_once             *)
(*                                                                         *)
(* One step of the model is one transaction, or one stretch of a coroutine *)
(* between two awaits.  Every step of serve, execute_item and run_once     *)
(* that waits for the database can be cut off by a time limit or a         *)
(* shutdown while its transaction still runs in its thread; such a         *)
(* transaction moves to `late' and commits, or fails, at any later moment. *)
(***************************************************************************)
EXTENDS Naturals, FiniteSets

CONSTANTS
    Procs,          \* backend processes that share the database
    Queues,         \* queue tags, each a fresh uuid4 of one enqueue
    CodexQueues,    \* the queues whose model selection is "codex"
    Positions,      \* saved positions, as their rank in ORDER BY id
    MaxAttempts,    \* bound: attempts per position and queue (retries + 1)
    MaxLate,        \* bound: transactions left behind at a time
    MaxFaults,      \* bound: crashes, dropped leases and failed calls
    LeaseCanDrop,   \* may PostgreSQL lose the lease's session under a worker?
    NoProc,         \* nobody holds the lease
    NoRun           \* a worker has no item

ASSUME QueueAssumption ==
    /\ CodexQueues \subseteq Queues
    /\ Positions \subseteq Nat
    /\ MaxAttempts \in Nat
    /\ MaxLate \in Nat
    /\ MaxFaults \in Nat
    /\ LeaseCanDrop \in BOOLEAN
    /\ NoProc \notin Procs

\* The n-th attempt at a position in a queue.  Ids are uuid4s that never come
\* back, so a deleted row keeps its RunId and stays "deleted".
RunId == [queue: Queues, pos: Positions, attempt: 1..MaxAttempts]

ASSUME NoRunAssumption == NoRun \notin RunId

\* The failure_stage a worker's execute_item has reached.  The column itself is
\* text for readers and left out of Row, as are error and the timestamps.
Stages == {"none", "position", "execution", "evaluation", "timeout",
           "interrupted"}
Grades == {"none", "completed", "failed"}
Row == [status: {"absent", "queued", "running", "completed", "failed",
                 "skipped", "deleted"},
        created: Nat, superseded: BOOLEAN, stop: BOOLEAN, move: BOOLEAN,
        grade: Grades]

\* Where a worker is in serve (first line), execute_item and run_once.
Waiting == {"acquire", "recover", "check", "claim"}
Attempting == {"begin", "choose", "finish_error", "save_move", "grade",
               "finish_grade", "read"}
PC == {"down", "finish_item"} \cup Waiting \cup Attempting

\* The transactions a worker can leave behind, named after the place it
\* issues them from: those of serve, and those that update the row it owns.
Writes == {"save_move", "finish_error", "finish_grade", "finish_item"}
Call == [op: {"recover", "claim"}, run: {NoRun}, grade: Grades, stage: Stages]
        \cup [op: Writes, run: RunId, grade: Grades, stage: Stages]

VARIABLES
    runs,       \* [RunId -> Row]: the table
    clock,      \* how many insert transactions committed: their now()
    holder,     \* the process whose session holds the worker lease, in PostgreSQL
    pc,         \* [Procs -> PC]
    item,       \* the run a worker executes
    stage,      \* the failure_stage its execute_item has reached so far
    grade,      \* the evaluation status its run_once is about to store
    late,       \* transactions whose worker stopped waiting for them
    faults      \* faults injected so far

vars == <<runs, clock, holder, pc, item, stage, grade, late, faults>>
local == <<pc, item, stage, grade>>

----------------------------------------------------------------------------
NoRow == [status |-> "absent", created |-> 0, superseded |-> FALSE,
          stop |-> FALSE, move |-> FALSE, grade |-> "none"]
DeletedRow == [NoRow EXCEPT !.status = "deleted"]
QueuedRow(now) == [NoRow EXCEPT !.status = "queued", !.created = now]

Live(r) == runs[r].status \notin {"absent", "deleted"}
Active(r) == runs[r].status \in {"queued", "running"}
Current(r) == Live(r) /\ ~runs[r].superseded
RowsOf(q) == {r \in RunId : r.queue = q /\ Live(r)}
NothingActive == \A r \in RunId : ~Active(r)
NothingRunning == \A r \in RunId : runs[r].status # "running"

----------------------------------------------------------------------------
(***************************************************************************)
(* The transactions of the HTTP handlers, each under lock_state.           *)
(***************************************************************************)

OverlappingEnqueue(q, chosen) ==
    /\ \A r \in RunId : r.queue = q => runs[r].status = "absent"
    /\ chosen # {}
    /\ clock' = clock + 1
    /\ runs' = [r \in RunId |->
                  IF r.queue = q /\ r.pos \in chosen /\ r.attempt = 1
                  THEN QueuedRow(clock') ELSE runs[r]]
    /\ UNCHANGED <<holder, local, late, faults>>

\* QueueRepository.enqueue: one queued row per position of the chosen set.
\* The readiness of a Codex worker, checked by the manager before it calls
\* this, may be gone by now and is not looked at again.
Enqueue(q, chosen) ==
    /\ NothingActive
    /\ \A r \in RunId : r.queue = q => runs[r].status = "absent"
    /\ chosen # {}
    /\ clock' = clock + 1
    /\ runs' = [r \in RunId |->
                  IF r.queue = q /\ r.pos \in chosen /\ r.attempt = 1
                  THEN QueuedRow(clock') ELSE runs[r]]
    /\ UNCHANGED <<holder, local, late, faults>>

Retryable(q) == {r \in RowsOf(q) : Current(r)
                                   /\ runs[r].status \in {"failed", "skipped"}}
Replaces(r, s) == r = [s EXCEPT !.attempt = @ + 1]

ForgottenSupersededRow(row) == row
SupersededRow(row) == [row EXCEPT !.superseded = TRUE]
StillStoppedRow(row) == row
ReopenedRow(row) == [row EXCEPT !.stop = FALSE]

\* QueueRepository.retry_failed: every current failed or skipped row is
\* superseded by a fresh queued one; the rows that stay current lose the
\* stop request, the superseded ones keep it.
RetryFailed(q) ==
    /\ NothingActive
    /\ Retryable(q) # {}
    /\ \A s \in Retryable(q) : s.attempt < MaxAttempts    \* bound
    /\ clock' = clock + 1
    /\ runs' = [r \in RunId |->
                  CASE r \in Retryable(q) -> SupersededRow(runs[r])
                    [] \E s \in Retryable(q) : Replaces(r, s) -> QueuedRow(clock')
                    [] r.queue = q /\ Current(r) /\ r \notin Retryable(q) ->
                         ReopenedRow(runs[r])
                    [] OTHER -> runs[r]]
    /\ UNCHANGED <<holder, local, late, faults>>

\* QueueRepository.stop: the running row may finish, the queued ones are
\* skipped.
Stop(q) ==
    /\ \E r \in RowsOf(q) : Active(r)
    /\ runs' = [r \in RunId |->
                  IF r \in RowsOf(q)
                  THEN [runs[r] EXCEPT !.stop = TRUE,
                                       !.status = IF @ = "queued"
                                                  THEN "skipped" ELSE @]
                  ELSE runs[r]]
    /\ UNCHANGED <<clock, holder, local, late, faults>>

\* QueueRepository.delete_queue and RunRepository.delete_run.
Delete(rows) ==
    /\ rows # {}
    /\ \A r \in rows : ~Active(r)
    /\ runs' = [r \in RunId |-> IF r \in rows THEN DeletedRow ELSE runs[r]]
    /\ UNCHANGED <<clock, holder, local, late, faults>>
DeleteQueue(q) == Delete(RowsOf(q))
DeleteRun(r) == Live(r) /\ Delete({r})

----------------------------------------------------------------------------
(***************************************************************************)
(* What each transaction of a worker does to the table.  All but claim are *)
(* UPDATEs by id: on a deleted row they match nothing.                     *)
(***************************************************************************)
Updated(r, row) == IF Live(r) THEN [runs EXCEPT ![r] = row] ELSE runs

\* RunRepository.save_move
SaveMoveOf(r) == Updated(r, [runs[r] EXCEPT !.move = TRUE])

\* RunRepository.finish as run_once's handler calls it for a failed turn:
\* with an error only, so the columns of move and grade become NULL.
FinishErrorOf(r) ==
    Updated(r, [runs[r] EXCEPT !.status = "failed", !.move = FALSE,
                               !.grade = "none"])

DroppedMoveFinishGradeOf(r, g) ==
    Updated(r, [runs[r] EXCEPT
                  !.status = IF g = "failed" THEN "failed" ELSE "completed",
                  !.move = g # "failed", !.grade = g])

\* RunRepository.finish with a move and the evaluation g.
FinishGradeOf(r, g) ==
    Updated(r, [runs[r] EXCEPT
                  !.status = IF g = "failed" THEN "failed" ELSE "completed",
                  !.move = TRUE, !.grade = g])

UnguardedFinishItemOf(r, s) ==
    IF runs[r].status \in {"running", "failed", "completed"}
    THEN [runs EXCEPT ![r].status = IF s = "none" THEN "completed" ELSE "failed"]
    ELSE runs

\* QueueRepository.finish_item: closes the row unless a grade already did.
FinishItemOf(r, s) ==
    IF /\ runs[r].status \in {"running", "failed", "completed"}
       /\ ~(runs[r].status = "completed" /\ runs[r].grade = "completed")
    THEN [runs EXCEPT ![r].status = IF s = "none" THEN "completed" ELSE "failed"]
    ELSE runs

Effect(c) ==
    CASE c.op = "save_move"    -> SaveMoveOf(c.run)
      [] c.op = "finish_error" -> FinishErrorOf(c.run)
      [] c.op = "finish_grade" -> FinishGradeOf(c.run, c.grade)
      [] c.op = "finish_item"  -> FinishItemOf(c.run, c.stage)

RequeuedRow(row) ==
    IF row.status = "running" THEN [row EXCEPT !.status = "queued"] ELSE row
SkippedRecoveryRow(row) == row

\* QueueRepository.recover: every running row of a queue is closed.
RecoveredRow(row) ==
    IF row.status # "running" THEN row
    ELSE [row EXCEPT !.status = IF row.grade = "completed"
                                THEN "completed" ELSE "failed"]
Recovered == [r \in RunId |-> RecoveredRow(runs[r])]

AnyOrderBefore(r, s) == runs[r].created < runs[s].created

\* QueueRepository.claim_next: the oldest queued row in the queue's order,
\* if nothing runs; a Codex row only for a worker that was ready.
Before(r, s) == \/ runs[r].created < runs[s].created
                \/ runs[r].created = runs[s].created /\ r.pos < s.pos
NextInLine(r) ==
    /\ runs[r].status = "queued"
    /\ \A s \in RunId : runs[s].status = "queued" => ~Before(s, r)
ParallelClaimable(r, ready) ==
    NextInLine(r) /\ (r.queue \in CodexQueues => ready)
Claimable(r, ready) ==
    /\ NothingRunning
    /\ NextInLine(r)
    /\ r.queue \in CodexQueues => ready
ClaimOf(r) == [runs EXCEPT ![r].status = "running"]

\* The tables a transaction can commit, whoever still waits for it.
Outcomes(c) ==
    CASE c.op = "recover" -> {Recovered}
      [] c.op = "claim"   -> {ClaimOf(r) : r \in {s \in RunId : Claimable(s, TRUE)}}
      [] c.op \in Writes  -> {Effect(c)}
      [] OTHER            -> {}

----------------------------------------------------------------------------
(***************************************************************************)
(* PositionQueueManager.serve                                              *)
(***************************************************************************)
NoFault == faults' = faults
Fault == faults < MaxFaults /\ faults' = faults + 1

Goto(p, place) == pc' = [pc EXCEPT ![p] = place]
Forget(p) == /\ item' = [item EXCEPT ![p] = NoRun]
             /\ stage' = [stage EXCEPT ![p] = "none"]
             /\ grade' = [grade EXCEPT ![p] = "none"]
Keep == UNCHANGED <<item, stage, grade>>
CloseLease(p) == holder' = IF holder = p THEN NoProc ELSE holder

UnlockedAcquireLease(p) ==
    /\ pc[p] = "acquire"
    /\ holder' = p
    /\ Goto(p, "recover")
    /\ Keep /\ NoFault
    /\ UNCHANGED <<runs, clock, late>>

\* pg_try_advisory_lock on a session of its own.
AcquireLease(p) ==
    /\ pc[p] = "acquire"
    /\ holder = NoProc
    /\ holder' = p
    /\ Goto(p, "recover")
    /\ Keep /\ NoFault
    /\ UNCHANGED <<runs, clock, late>>

Recover(p) ==
    /\ pc[p] = "recover"
    /\ runs' = Recovered
    /\ Goto(p, "check")
    /\ Keep /\ NoFault
    /\ UNCHANGED <<clock, holder, late>>

\* lease.execute("SELECT 1"): raises if the session is gone, and the except
\* branch then closes the lease and waits to acquire it again.
CheckLease(p) ==
    /\ pc[p] = "check"
    /\ Goto(p, IF holder = p THEN "claim" ELSE "acquire")
    /\ Keep /\ NoFault
    /\ UNCHANGED <<runs, clock, holder, late>>

UnassignedClaimNext(p) ==
    /\ pc[p] = "claim"
    /\ \E r \in RunId : Claimable(r, TRUE) /\ runs' = ClaimOf(r)
    /\ Goto(p, "begin")
    /\ Keep /\ NoFault
    /\ UNCHANGED <<clock, holder, late>>

\* codex_ready was read when the call was made: an input.
ClaimNext(p) ==
    /\ pc[p] = "claim"
    /\ \E r \in RunId, ready \in BOOLEAN :
         /\ Claimable(r, ready)
         /\ runs' = ClaimOf(r)
         /\ item' = [item EXCEPT ![p] = r]
    /\ Goto(p, "begin")
    /\ NoFault
    /\ UNCHANGED <<clock, holder, stage, grade, late>>

\* claim_next returned None: wait for a wake-up or two seconds.
ClaimNothing(p) ==
    /\ pc[p] = "claim"
    /\ \E ready \in BOOLEAN : \A r \in RunId : ~Claimable(r, ready)
    /\ Goto(p, "check")
    /\ Keep /\ NoFault
    /\ UNCHANGED <<runs, clock, holder, late>>

----------------------------------------------------------------------------
(***************************************************************************)
(* execute_item, with run_once (for a Codex queue run_once is the body of  *)
(* the training task that execute_codex starts and awaits).                *)
(***************************************************************************)

Codex(p) == item[p].queue \in CodexQueues

\* A cancelled Codex turn ends in an error of its own, which the pending
\* cancellation then replaces.
Cancelled(p) == stage[p] \in {"timeout", "interrupted"}
FailedBy(p, why) ==
    stage' = IF Cancelled(p) THEN stage ELSE [stage EXCEPT ![p] = why]

\* Up to choose_move.  A row that another worker closed meanwhile is refused;
\* so is a missing position, and a Codex row whose worker has gone or is busy.
Begin(p) ==
    /\ pc[p] = "begin"
    /\ \/ /\ runs[item[p]].status = "running"
          /\ Goto(p, "choose")
          /\ UNCHANGED stage
       \/ /\ Goto(p, "finish_item")
          /\ \/ FailedBy(p, "position")
             \/ /\ runs[item[p]].status # "running" \/ Codex(p)
                /\ FailedBy(p, "execution")
    /\ NoFault
    /\ UNCHANGED <<runs, clock, holder, item, grade, late>>

\* The player returns a move, or raises.
ChooseMove(p) ==
    /\ pc[p] = "choose"
    /\ \/ Goto(p, "save_move") /\ UNCHANGED stage
       \/ Goto(p, "finish_error") /\ FailedBy(p, "execution")
    /\ NoFault
    /\ UNCHANGED <<runs, clock, holder, item, grade, late>>

\* The evaluator returns a grade, or its failure becomes one.
Evaluate(p) ==
    /\ pc[p] = "grade"
    /\ Goto(p, "finish_grade")
    /\ \E g \in {"completed", "failed"} : grade' = [grade EXCEPT ![p] = g]
    /\ NoFault
    /\ UNCHANGED <<runs, clock, holder, item, stage, late>>

CallOf(p) == [op |-> pc[p], run |-> item[p], grade |-> grade[p],
              stage |-> stage[p]]

\* A transaction commits and its worker goes on: the answer is kept before
\* the evaluation starts; a cancelled evaluation is stored, then re-raised.
SaveMove(p) ==
    /\ pc[p] = "save_move"
    /\ runs' = Effect(CallOf(p))
    /\ Goto(p, "grade")
    /\ Keep /\ NoFault
    /\ UNCHANGED <<clock, holder, late>>

FinishError(p) ==
    /\ pc[p] = "finish_error"
    /\ runs' = Effect(CallOf(p))
    /\ Goto(p, "finish_item")
    /\ Keep /\ NoFault
    /\ UNCHANGED <<clock, holder, late>>

FinishGrade(p) ==
    /\ pc[p] = "finish_grade"
    /\ runs' = Effect(CallOf(p))
    /\ Goto(p, IF Cancelled(p) THEN "finish_item" ELSE "read")
    /\ Keep /\ NoFault
    /\ UNCHANGED <<clock, holder, late>>

\* execute_item reads the row back: anything but a completed evaluation is a
\* failed position.
ReadBack(p) ==
    /\ pc[p] = "read"
    /\ stage' = [stage EXCEPT ![p] = IF runs[item[p]].grade = "completed"
                                     THEN "none" ELSE "evaluation"]
    /\ Goto(p, "finish_item")
    /\ NoFault
    /\ UNCHANGED <<runs, clock, holder, item, grade, late>>

\* After a shutdown the cancellation is re-raised, the lease is closed and
\* the task is over.
FinishItem(p) ==
    /\ pc[p] = "finish_item"
    /\ runs' = Effect(CallOf(p))
    /\ IF stage[p] = "interrupted"
       THEN Goto(p, "down") /\ CloseLease(p)
       ELSE Goto(p, "check") /\ UNCHANGED holder
    /\ Forget(p) /\ NoFault
    /\ UNCHANGED <<clock, late>>

----------------------------------------------------------------------------
(***************************************************************************)
(* Time limits, shutdowns, crashes, lost sessions and failed calls.        *)
(***************************************************************************)
Leave(p) == /\ Cardinality(late) < MaxLate    \* bound
            /\ late' = late \cup {CallOf(p)}

\* The coroutine is cancelled where it waits.  A transaction it waited for
\* goes on without it.  run_once turns a cancelled turn into finish(error)
\* and a cancelled evaluation into a failed grade; elsewhere the cancellation
\* reaches execute_item, whose finish_item names it.  A Codex turn runs in a
\* task of its own: training.stop asks it to end and waits for it, so its
\* steps go on as they are with the cancellation pending.
Interrupt(p, why) ==
    /\ pc[p] \in Attempting
    /\ stage' = [stage EXCEPT ![p] = why]
    /\ IF Codex(p) /\ pc[p] # "read"
       THEN UNCHANGED <<pc, grade, late>>
       ELSE /\ Goto(p, CASE pc[p] = "choose" -> "finish_error"
                         [] pc[p] = "grade"  -> "finish_grade"
                         [] OTHER            -> "finish_item")
            /\ grade' = IF pc[p] = "grade"
                        THEN [grade EXCEPT ![p] = "failed"] ELSE grade
            /\ IF pc[p] \in Writes THEN Leave(p) ELSE UNCHANGED late
    /\ UNCHANGED <<runs, clock, holder, item>>

\* asyncio.timeout(item_timeout)
TimeOut(p) == ~Cancelled(p) /\ Interrupt(p, "timeout") /\ NoFault

\* PositionQueueManager.close: between items the task just ends, and a claim or
\* a recovery it waited for may still commit; during the last finish_item it
\* ends the same way.  (A Codex item that is already being stopped is not
\* cancelled a second time.)
Shutdown(p) ==
    /\ Fault
    /\ \/ /\ stage[p] # "interrupted"
          /\ Cancelled(p) => ~Codex(p)
          /\ Interrupt(p, "interrupted")
       \/ /\ \/ pc[p] \in {"acquire", "check"} /\ UNCHANGED late
             \/ pc[p] \in {"recover", "claim"} /\ Leave(p)
             \/ /\ pc[p] = "finish_item" /\ stage[p] # "interrupted"
                /\ Leave(p)
          /\ Goto(p, "down")
          /\ Forget(p) /\ CloseLease(p)
          /\ UNCHANGED <<runs, clock>>

\* The process is killed; PostgreSQL closes its session.
Crash(p) ==
    /\ pc[p] # "down"
    /\ Fault
    /\ Goto(p, "down")
    /\ Forget(p) /\ CloseLease(p)
    /\ UNCHANGED <<runs, clock, late>>

Restart(p) ==
    /\ pc[p] = "down"
    /\ Goto(p, "acquire")
    /\ Keep /\ NoFault
    /\ UNCHANGED <<runs, clock, holder, late>>

\* The lease's session ends under a worker that does not notice.
DropLease ==
    /\ LeaseCanDrop
    /\ Fault
    /\ holder # NoProc
    /\ holder' = NoProc
    /\ UNCHANGED <<runs, clock, local, late>>

\* A database call raises, before or after its commit.  Outside execute_item's
\* try the loop closes its lease and starts over; inside, the error becomes
\* the position's failure, except that run_once only logs a failed
\* finish(error) and re-raises what it was handling.
CallFails(p) ==
    /\ Fault
    /\ runs' \in {runs} \cup Outcomes(CallOf(p))
    /\ \/ /\ pc[p] \in {"recover", "check", "claim", "finish_item"}
          /\ Goto(p, "acquire")
          /\ Forget(p) /\ CloseLease(p)
       \/ /\ pc[p] \in Attempting \ {"choose", "grade"}
          /\ Goto(p, "finish_item")
          /\ IF pc[p] = "finish_error" THEN UNCHANGED stage
             ELSE IF Codex(p) THEN FailedBy(p, "execution")
             ELSE stage' = [stage EXCEPT ![p] = "execution"]
          /\ UNCHANGED <<holder, item, grade>>
    /\ UNCHANGED <<clock, late>>

\* A transaction nobody waits for commits, or fails unseen.
LateWrite ==
    /\ \E c \in late : /\ late' = late \ {c}
                       /\ runs' \in {runs} \cup Outcomes(c)
    /\ UNCHANGED <<clock, holder, local, faults>>

----------------------------------------------------------------------------
Init ==
    /\ runs = [r \in RunId |-> NoRow]
    /\ clock = 0
    /\ holder = NoProc
    /\ pc = [p \in Procs |-> "down"]
    /\ item = [p \in Procs |-> NoRun]
    /\ stage = [p \in Procs |-> "none"]
    /\ grade = [p \in Procs |-> "none"]
    /\ late = {}
    /\ faults = 0

Api ==
    \/ \E q \in Queues : \/ \E chosen \in SUBSET Positions : Enqueue(q, chosen)
                         \/ RetryFailed(q) \/ Stop(q) \/ DeleteQueue(q)
    \/ \E r \in RunId : DeleteRun(r)

Serve(p) ==
    \/ AcquireLease(p) \/ Recover(p) \/ CheckLease(p)
    \/ ClaimNext(p) \/ ClaimNothing(p)
Execute(p) ==
    \/ Begin(p) \/ ChooseMove(p) \/ FinishError(p) \/ SaveMove(p)
    \/ Evaluate(p) \/ FinishGrade(p) \/ ReadBack(p) \/ FinishItem(p)
Disturb(p) == TimeOut(p) \/ Shutdown(p) \/ Crash(p) \/ CallFails(p)

Next ==
    \/ Api
    \/ \E p \in Procs : Serve(p) \/ Execute(p) \/ Disturb(p) \/ Restart(p)
    \/ DropLease
    \/ LateWrite

Spec == Init /\ [][Next]_vars

\* The event loop keeps running every task, a turn ends by itself or by its
\* time limit, a killed process is started again.  Nothing is assumed of the
\* users, of the faults or of a transaction nobody waits for.
Fairness ==
    \A p \in Procs : WF_vars(Serve(p) \/ Execute(p) \/ TimeOut(p) \/ Restart(p))
FairSpec == Spec /\ Fairness
----------------------------------------------------------------------------
(***************************************************************************)
(* Properties                                                              *)
(***************************************************************************)

\* Types of the variables.
TypeOK ==
    /\ runs \in [RunId -> Row]
    /\ clock \in Nat
    /\ holder \in Procs \cup {NoProc}
    /\ pc \in [Procs -> PC]
    /\ item \in [Procs -> RunId \cup {NoRun}]
    /\ \A p \in Procs : item[p] # NoRun <=> pc[p] \in Attempting \cup {"finish_item"}
    /\ stage \in [Procs -> Stages]
    /\ grade \in [Procs -> Grades]
    /\ late \subseteq Call
    /\ faults \in 0..MaxFaults

\* At any moment at most one row is running, whatever happened to leases,
\* processes and calls: claim_next looks for a running row before it takes one.
OneRunning ==
    \A r, s \in RunId :
        runs[r].status = "running" /\ runs[s].status = "running" => r = s

\* Batches do not overlap: every queued or running row is of one queue, and
\* the queued rows were inserted by one transaction.
OneActiveQueue ==
    \A r, s \in RunId :
        /\ Active(r) /\ Active(s) => r.queue = s.queue
        /\ Active(r) /\ Active(s) => runs[r].created = runs[s].created

\* Retries keep one entry per position: a queue never has two rows of one
\* position that are not superseded, and a superseded row is settled.
OneCurrentPerPosition ==
    \A r, s \in RunId :
        /\ Current(r) /\ Current(s) /\ r.queue = s.queue /\ r.pos = s.pos => r = s
        /\ runs[r].superseded => ~Active(r)

\* A row is completed exactly when its evaluation is: neither recovery nor a
\* time limit nor a late transaction leaves a completed row without a grade
\* or a graded row marked failed.
CompletedIffGraded ==
    \A r \in RunId : runs[r].status = "completed" <=> runs[r].grade = "completed"

\* Stop is immediate and a retry withdraws it: while a current row of a queue
\* carries the stop request, nothing of that queue is queued.
StoppedQueueHasNothingQueued ==
    \A r, s \in RunId :
        r.queue = s.queue /\ Current(r) /\ runs[r].stop => runs[s].status # "queued"

\* A completed evaluation is never taken back: its row stays completed, with
\* the grade and the move, until somebody deletes it.
GradeIsFinal ==
    [][\A r \in RunId : runs[r].grade = "completed" =>
          \/ runs'[r].status = "deleted"
          \/ /\ runs'[r].status = "completed" /\ runs'[r].grade = "completed"
             /\ runs'[r].move]_vars

\* A paid model call is never repeated: a row that was claimed does not go
\* back to the queue, a settled row never runs again, a deleted one is gone.
NoReplay ==
    [][\A r \in RunId :
          /\ runs[r].status = "running" => runs'[r].status # "queued"
          /\ runs[r].status \in {"completed", "failed", "skipped"} =>
                ~Active(r)'
          /\ runs[r].status = "deleted" => runs'[r].status = "deleted"]_vars

\* The model's answer outlives its grading: a saved move is never erased.
AnswerIsKept ==
    [][\A r \in RunId : runs[r].move => runs'[r].move \/ runs'[r].status = "deleted"]_vars

\* "Each position and its grading finish before the next begins": no two
\* workers are inside execute_item's attempt at once.
OneAttemptAtATime ==
    \A p, q \in Procs :
        pc[p] \in Attempting /\ pc[q] \in Attempting => p = q

\* The ledger this queue keeps: a refinement mapping to QueueLedger.
PhaseOf(status) ==
    CASE status = "absent" -> "absent"
      [] status = "queued" -> "waiting"
      [] status = "running" -> "underway"
      [] status \in {"completed", "failed", "skipped"} -> "settled"
      [] status = "deleted" -> "gone"
Ledger == INSTANCE QueueLedger WITH
    Run <- RunId,
    phase <- [r \in RunId |-> PhaseOf(runs[r].status)],
    graded <- {r \in RunId : runs[r].grade = "completed"}

\* With leases lost, processes killed and transactions arriving late, the
\* queue still behaves like its ledger.
ImplementsLedger == Ledger!Spec

\* "Restart flags interrupted attempts, and continues pending rows": every
\* scheduled position of a queue that needs no Codex worker is settled.
EveryPositionSettles ==
    \A r \in RunId : r.queue \notin CodexQueues => (Active(r) ~> ~Active(r))

\* The same, provided that no shutdown leaves a claim behind that commits after
\* the next worker's recovery: then nobody would own or recover its row.
SettlesUnlessClaimIsLeft ==
    [](\A c \in late : c.op # "claim") => EveryPositionSettles
----------------------------------------------------------------------------
(***************************************************************************)
(* The inductive invariant.  A run belongs to at most one worker, and at   *)
(* most one of its transactions besides finish_item is ever left behind;   *)
(* that is why no two writers of one row meet.                             *)
(***************************************************************************)

\* The rows of one position follow each other: only the last is current.
AttemptsFollow ==
    \A r, s \in RunId :
        /\ r.queue = s.queue /\ r.pos = s.pos /\ s.attempt < r.attempt
        /\ runs[r].status # "absent"
        => runs[s].superseded \/ runs[s].status = "deleted"

SupersededIsSettled ==
    \A r \in RunId : runs[r].superseded =>
        runs[r].status \in {"completed", "failed", "skipped"}

\* Rows nobody executed hold no result.
UntouchedIsEmpty ==
    \A r \in RunId : runs[r].status \in {"absent", "queued", "skipped", "deleted"} =>
        runs[r].grade = "none" /\ ~runs[r].move

GradedIsAnswered == \A r \in RunId : runs[r].grade = "completed" => runs[r].move

RowInv ==
    /\ OneRunning /\ OneActiveQueue /\ CompletedIffGraded
    /\ StoppedQueueHasNothingQueued
    /\ AttemptsFollow /\ SupersededIsSettled /\ UntouchedIsEmpty
    /\ GradedIsAnswered

Claimed(r) == runs[r].status \in {"running", "completed", "failed", "deleted"}

\* A transaction that may still commit, from its worker or left behind: it
\* cannot erase a move or a grade, nor complete a row without a grade.
Harmless(c) ==
    /\ Claimed(c.run)
    /\ c.op # "finish_item" => runs[c.run].grade # "completed"
    /\ c.op = "finish_error" => ~runs[c.run].move /\ c.stage # "none"
    /\ c.op = "finish_grade" => c.grade # "none"
    /\ c.op = "finish_item" /\ c.stage = "none" =>
         runs[c.run].grade = "completed" \/ runs[c.run].status = "deleted"

Owner(p) == pc[p] \in Attempting \cup {"finish_item"}

WorkerOK(p) ==
    Owner(p) =>
      /\ Claimed(item[p])
      /\ pc[p] \in {"begin", "choose", "grade"} =>
           runs[item[p]].grade # "completed"
      /\ pc[p] \in {"begin", "choose"} => ~runs[item[p]].move
      /\ pc[p] \in Writes => Harmless(CallOf(p))

OneOwner ==
    \A p, q \in Procs : Owner(p) /\ Owner(q) /\ item[p] = item[q] => p = q

WorkerInv == OneOwner /\ \A p \in Procs : WorkerOK(p)

\* A write left behind by an attempt meets its worker's finish_item at most.
LeftAfterAttempt(c) ==
    \A p \in Procs : Owner(p) /\ c.run = item[p] =>
        pc[p] = "finish_item" /\ c.op # "finish_item"

OneLeft ==
    \A c, d \in late :
        /\ c.op \in Writes \ {"finish_item"} /\ d.op \in Writes \ {"finish_item"}
        /\ c.run = d.run
        => c = d

LateInv ==
    /\ \A c \in late : c.op \in Writes => Harmless(c) /\ LeftAfterAttempt(c)
    /\ OneLeft

IInv == TypeOK /\ RowInv /\ WorkerInv /\ LateInv
=============================================================================
