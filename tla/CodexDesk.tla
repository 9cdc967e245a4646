----------------------------- MODULE CodexDesk -----------------------------
(***************************************************************************)
(* Codex training: positional runs whose model is a Codex process outside  *)
(* the backend, which answers one pass after another through a bridge.     *)
(*                                                                         *)
(*   backend/codex_training/bridge.py    a session and its pending pass    *)
(*   backend/codex_training/service.py   start, run, stop, close           *)
(*   backend/codex_training/jobs.py      jobs, heartbeat, claim, watchdog  *)
(*   backend/codex_training/worker.py    the worker and its child process  *)
(*   backend/positional_testing/runner.py, run_repository.py   the rows    *)
(*   backend/positional_testing/queue.py   the queue as a client           *)
(*                                                                         *)
(* A run is started by a client of the direct API, by the UI as a job, or  *)
(* by the position queue.  One step is one stretch of a coroutine of the   *)
(* backend between two awaits, or one request and its effect there; the    *)
(* reply to a claim is a message of its own, since it can be late or lost. *)
(* A pass that was handed to a Codex child may be answered from then on,   *)
(* late, twice, or never, also after the child was killed.  Answers are    *)
(* abstract; the code compares them by their digest.                       *)
(***************************************************************************)
EXTENDS Naturals, FiniteSets

CONSTANTS
    Runs,            \* run ids, each a fresh uuid4
    DirectRuns,      \* the runs started with POST /runs
    QueuedRuns,      \* the runs of queue positions; all others are UI jobs
    Workers,         \* worker ids, a fresh uuid4 of each worker process
    Answers,         \* digests of submitted responses
    NoAnswer, NoRun, NoWorker,
    Unclaimed,       \* a job with worker_id None
    MaxActive,       \* CodexTrainingService.max_active
    KeepSessions,    \* sessions kept for late retries (128 in the code)
    MaxPasses,       \* bound: passes of a run (the player's max_model_calls)
    MaxFaults        \* bound: crashes, lost messages, refused writes

ASSUME CodexAssumption ==
    /\ IsFiniteSet(Runs)
    /\ DirectRuns \subseteq Runs /\ QueuedRuns \subseteq Runs
    /\ DirectRuns \cap QueuedRuns = {}
    /\ NoRun \notin Runs /\ NoAnswer \notin Answers
    /\ NoWorker \notin Workers /\ Unclaimed \notin Workers
    /\ NoWorker # Unclaimed
    /\ MaxActive \in Nat \ {0} /\ KeepSessions \in Nat \ {0}
    /\ MaxPasses \in Nat \ {0} /\ MaxFaults \in Nat

Terminal == {"completed", "failed", "cancelled"}
Live == {"starting", "waiting", "processing"}
Passes == 1..MaxPasses

VARIABLES
    \* bridge.RunSession, one per run
    status,      \* its status; "none" before it exists, "lost" when forgotten
    stopping,    \* cancel_requested
    passNo,      \* pass_number
    pending,     \* pending.response: none, open, answered, refused, expired
    accepted,    \* _accepted: pass -> digest
    used,        \* pass -> the answer exchange returned to the harness
    \* service.CodexTrainingService and the positional runner
    task,        \* where the task of a run is, and its way there
    recovered, closed,
    row,         \* model_runs.status
    torn,        \* runs one of whose writes or reads the database refused
    \* jobs.WorkerJobs
    jobs,        \* job -> the worker that claimed it
    lock,        \* the run whose enqueue holds the lock
    worker,      \* the registered worker
    fresh,       \* its last heartbeat is younger than WORKER_TTL
    \* worker.WindowsWorker, one per worker process
    phase,       \* where its run loop is
    hand,        \* active_run, and before it the run of a claim's reply
    assigned,    \* the pass its child works on
    cancel,      \* its cancel event
    quitting,    \* its stop event
    handed,      \* the passes given to a child: <<run, pass>>
    faults       \* faults injected so far

session == <<status, stopping, passNo, pending, accepted, used>>
store == <<row, torn, recovered>>
desk == <<jobs, lock, worker, fresh>>
windows == <<phase, hand, assigned, cancel, quitting, handed>>
vars == <<session, task, closed, store, desk, windows, faults>>

Executing == {"poll", "pass", "check", "quit"}

ActiveJobs == {r \in Runs : jobs[r] # NoWorker /\ status[r] \in Live}
Working == {r \in Runs : status[r] \in Live}
Sessions == {r \in Runs : status[r] \in Live \cup Terminal}
Ready == fresh /\ ActiveJobs = {}
Fault == faults < MaxFaults /\ faults' = faults + 1
LastAccepted(r) == {n \in Passes : /\ accepted[r][n] # NoAnswer
                                   /\ \A k \in Passes : accepted[r][k] # NoAnswer => k <= n}

-----------------------------------------------------------------------------
(* RunSession *)

\* cancel, of one session or of several by one event
Cancelled(rs) ==
    /\ stopping' = [r \in Runs |-> stopping[r] \/ r \in rs]
    /\ pending' = [r \in Runs |-> IF r \in rs /\ pending[r] = "open"
                                  THEN "refused" ELSE pending[r]]
    /\ status' = [r \in Runs |-> IF r \in rs /\ pending[r] = "open"
                                 THEN "processing" ELSE status[r]]
    /\ UNCHANGED <<passNo, accepted, used>>

\* mutants of Ask: the budget of passes, or the cancellation, is not looked at
AskForever(r) ==
    /\ task[r] = "think" /\ ~stopping[r]
    /\ passNo' = [passNo EXCEPT ![r] = @ + 1]
    /\ pending' = [pending EXCEPT ![r] = "open"]
    /\ status' = [status EXCEPT ![r] = "waiting"]
    /\ task' = [task EXCEPT ![r] = "parked"]
    /\ UNCHANGED <<stopping, accepted, used, closed, store, desk, windows, faults>>

AskStopped(r) ==
    /\ task[r] = "think" /\ passNo[r] < MaxPasses
    /\ passNo' = [passNo EXCEPT ![r] = @ + 1]
    /\ pending' = [pending EXCEPT ![r] = "open"]
    /\ status' = [status EXCEPT ![r] = "waiting"]
    /\ task' = [task EXCEPT ![r] = "parked"]
    /\ UNCHANGED <<stopping, accepted, used, closed, store, desk, windows, faults>>

\* exchange up to its await: the harness asks for the next pass
Ask(r) ==
    /\ task[r] = "think"
    /\ ~stopping[r]
    /\ passNo[r] < MaxPasses
    /\ passNo' = [passNo EXCEPT ![r] = @ + 1]
    /\ pending' = [pending EXCEPT ![r] = "open"]
    /\ status' = [status EXCEPT ![r] = "waiting"]
    /\ task' = [task EXCEPT ![r] = "parked"]
    /\ UNCHANGED <<stopping, accepted, used, closed, store, desk, windows, faults>>

\* The client of a direct run holds the token of the run, a worker's child the
\* token of the one pass it was handed, for as long as the session is kept.
MaySubmit(r, n) == r \in DirectRuns \/ <<r, n>> \in handed

\* submit, late retries included.  A repeated or conflicting answer changes
\* nothing.
Submit(r, n, a) ==
    /\ MaySubmit(r, n)
    /\ r \in Sessions
    /\ accepted[r][n] = NoAnswer
    /\ ~stopping[r] /\ status[r] = "waiting"
    /\ pending[r] = "open" /\ passNo[r] = n
    /\ accepted' = [accepted EXCEPT ![r][n] = a]
    /\ status' = [status EXCEPT ![r] = "processing"]
    /\ pending' = [pending EXCEPT ![r] = "answered"]
    /\ UNCHANGED <<stopping, passNo, used, task, closed, store, desk, windows, faults>>

\* a mutant of PassTimesOut: only the passes of a worker have a deadline
JobTimesOut(r) ==
    /\ task[r] = "parked" /\ r \in ActiveJobs
    /\ pending[r] \in {"open", "answered"}
    /\ pending' = [pending EXCEPT ![r] = "expired"]
    /\ UNCHANGED <<status, stopping, passNo, accepted, used, task, closed, store, desk,
                   windows, faults>>

\* The timer of wait_for cancels the task.  When the answer has just been
\* set and the task has not run since, the answer is acknowledged and lost.
PassTimesOut(r) ==
    /\ task[r] = "parked"
    /\ pending[r] \in {"open", "answered"}
    /\ pending' = [pending EXCEPT ![r] = "expired"]
    /\ UNCHANGED <<status, stopping, passNo, accepted, used, task, closed, store, desk,
                   windows, faults>>

\* exchange after its await
Wake(r) ==
    /\ task[r] = "parked"
    /\ pending[r] # "open"
    /\ pending' = [pending EXCEPT ![r] = "none"]
    /\ status' = [status EXCEPT ![r] = IF @ \in Terminal THEN @ ELSE "processing"]
    /\ IF pending[r] = "answered"
       THEN /\ used' = [used EXCEPT ![r][passNo[r]] = accepted[r][passNo[r]]]
            /\ task' = [task EXCEPT ![r] = "think"]
       ELSE /\ task' = [task EXCEPT ![r] = "failing"]
            /\ UNCHANGED used
    /\ UNCHANGED <<stopping, passNo, accepted, closed, store, desk, windows, faults>>

Finish(r, verdict) ==
    /\ status' = [status EXCEPT ![r] = verdict]
    /\ task' = [task EXCEPT ![r] = "done"]
    /\ UNCHANGED <<stopping, passNo, pending, accepted, used>>

-----------------------------------------------------------------------------
(* CodexTrainingService.start, and run_once as _run awaits it *)

\* The pruning keeps the newest sessions; which finished ones are the oldest
\* is left open here.
Forgettable(gone) ==
    /\ gone \subseteq {r \in Sessions : task[r] = "done"}
    /\ gone # {} => Cardinality(Sessions \ gone) >= KeepSessions - 1
    /\ \/ Cardinality(Sessions \ gone) < KeepSessions
       \/ gone = {r \in Sessions : task[r] = "done"}

\* a mutant of RecoveredRows: nothing is recovered
UnrecoveredRows == row

\* recover_codex_training, once in the life of the backend: rows of runs
\* that are not a queue's and that no process is working on any more.
RecoveredRows ==
    [r \in Runs |-> IF ~recovered /\ row[r] = "running" /\ r \notin QueuedRuns
                    THEN "failed" ELSE row[r]]

Admitted == ~closed /\ Cardinality(Working) < MaxActive

CreateSession(r) ==
    /\ Admitted
    /\ \E gone \in SUBSET Runs :
          /\ Forgettable(gone)
          /\ status' = [x \in Runs |-> IF x = r THEN "starting"
                                       ELSE IF x \in gone THEN "lost" ELSE status[x]]
    /\ row' = RecoveredRows
    /\ recovered' = TRUE
    /\ task' = [task EXCEPT ![r] = "setup"]
    /\ UNCHANGED <<stopping, passNo, pending, accepted, used, torn>>

\* POST /runs; a start that is refused or raises leaves everything as it was
StartDirect(r) ==
    /\ r \in DirectRuns /\ status[r] = "none" /\ row[r] = "none"
    /\ CreateSession(r)
    /\ UNCHANGED <<closed, desk, windows, faults>>

\* run_once up to the player: a queued run must find its claimed row.
Setup(r) ==
    /\ task[r] = "setup"
    /\ IF r \in QueuedRuns /\ row[r] # "running"
       THEN task' = [task EXCEPT ![r] = "fallen"] /\ UNCHANGED row
       ELSE /\ task' = [task EXCEPT ![r] = "think"]
            /\ row' = [row EXCEPT ![r] = "running"]
    /\ UNCHANGED <<session, closed, torn, recovered, desk, windows, faults>>

\* choose_move returns, on the answer it used last
Decide(r) ==
    /\ task[r] = "think"
    /\ passNo[r] > 0
    /\ task' = [task EXCEPT ![r] = "grade"]
    /\ UNCHANGED <<session, closed, store, desk, windows, faults>>

\* choose_move raises: stopped, out of budget, or a harness error
GiveUp(r) ==
    /\ task[r] = "think"
    /\ task' = [task EXCEPT ![r] = "failing"]
    /\ UNCHANGED <<session, closed, store, desk, windows, faults>>

\* the failure handler of run_once
FailRow(r) ==
    /\ task[r] = "failing"
    /\ row' = [row EXCEPT ![r] = "failed"]
    /\ task' = [task EXCEPT ![r] = "fallen"]
    /\ UNCHANGED <<session, closed, torn, recovered, desk, windows, faults>>

\* save_move, the evaluation, and finish with its grade or its failure
Grade(r) ==
    /\ task[r] = "grade"
    /\ \E verdict \in {"completed", "failed"} : row' = [row EXCEPT ![r] = verdict]
    /\ task' = [task EXCEPT ![r] = "stored"]
    /\ UNCHANGED <<session, closed, torn, recovered, desk, windows, faults>>

\* The database refuses one of these calls; run_once or _run's get raises.
Refused(r) ==
    /\ task[r] \in {"setup", "failing", "grade", "stored"}
    /\ Fault
    /\ torn' = torn \cup {r}
    /\ task' = [task EXCEPT ![r] = "fallen"]
    /\ UNCHANGED <<session, closed, row, recovered, desk, windows>>

\* a mutant of FinishStored: a stop that came during the grading has the last word
FinishAsStopped(r) ==
    /\ task[r] = "stored"
    /\ Finish(r, IF stopping[r] THEN "cancelled" ELSE row[r])
    /\ UNCHANGED <<closed, store, desk, windows, faults>>

\* _run after run_once returned: the bridge shows what was stored
FinishStored(r) ==
    /\ task[r] = "stored"
    /\ Finish(r, row[r])
    /\ UNCHANGED <<closed, store, desk, windows, faults>>

\* _run after an exception
FinishFallen(r) ==
    /\ task[r] = "fallen"
    /\ Finish(r, IF stopping[r] THEN "cancelled" ELSE "failed")
    /\ UNCHANGED <<closed, store, desk, windows, faults>>

\* The stop routes, and execute_codex when the queue's item times out.
Stop(r) ==
    /\ status[r] \in Live
    /\ r \in DirectRuns \/ jobs[r] # NoWorker
    /\ Cancelled({r})
    /\ UNCHANGED <<task, closed, store, desk, windows, faults>>

\* close, at the shutdown of the backend
Close ==
    /\ ~closed
    /\ Fault
    /\ closed' = TRUE
    /\ Cancelled(Working)
    /\ UNCHANGED <<task, store, desk, windows>>

\* The backend dies and is started again.  The queue recovers its own rows
\* at boot; the others wait for the first start.
Restart ==
    /\ Fault
    /\ status' = [r \in Runs |-> IF r \in Sessions THEN "lost" ELSE status[r]]
    /\ stopping' = [r \in Runs |-> FALSE]
    /\ pending' = [r \in Runs |-> "none"]
    /\ task' = [r \in Runs |-> IF r \in Sessions THEN "done" ELSE "none"]
    /\ row' = [r \in Runs |-> IF r \in QueuedRuns /\ row[r] = "running"
                              THEN "failed" ELSE row[r]]
    /\ recovered' = FALSE /\ closed' = FALSE /\ torn' = {}
    /\ jobs' = [r \in Runs |-> NoWorker]
    /\ lock' = NoRun /\ worker' = NoWorker /\ fresh' = FALSE
    /\ UNCHANGED <<passNo, accepted, used, windows>>

-----------------------------------------------------------------------------
(* The position queue as a client: serve and execute_item *)

QueueReads(r) ==
    /\ r \in QueuedRuns /\ row[r] = "none" /\ task[r] = "none"
    /\ \A x \in QueuedRuns : row[x] # "running" /\ task[x] # "ready"
    /\ Ready
    /\ task' = [task EXCEPT ![r] = "ready"]
    /\ UNCHANGED <<session, closed, store, desk, windows, faults>>

QueueClaims(r) ==
    /\ task[r] = "ready"
    /\ row' = [row EXCEPT ![r] = "running"]
    /\ task' = [task EXCEPT ![r] = "claimed"]
    /\ UNCHANGED <<session, closed, torn, recovered, desk, windows, faults>>

\* enqueue refuses, or the session could not write its row: finish_item
QueueFails(r) ==
    /\ row[r] = "running" /\ r \in QueuedRuns
    /\ \/ task[r] = "done"
       \/ task[r] = "claimed" /\ lock = NoRun /\ ~Ready
    /\ row' = [row EXCEPT ![r] = "failed"]
    /\ task' = [task EXCEPT ![r] = "done"]
    /\ UNCHANGED <<session, closed, torn, recovered, desk, windows, faults>>

-----------------------------------------------------------------------------
(* WorkerJobs *)

\* a mutant of EnqueueEnter: it only looks whether a worker is online
EnqueueOnline(r) ==
    /\ lock = NoRun /\ fresh
    /\ \/ task[r] = "claimed"
       \/ r \notin DirectRuns \cup QueuedRuns /\ row[r] = "none" /\ status[r] = "none"
    /\ lock' = r
    /\ task' = [task EXCEPT ![r] = "entered"]
    /\ UNCHANGED <<session, closed, store, jobs, worker, fresh, windows, faults>>

\* enqueue up to its await of training.start, by the UI or by the queue
EnqueueEnter(r) ==
    /\ lock = NoRun
    /\ Ready
    /\ \/ task[r] = "claimed"
       \/ r \notin DirectRuns \cup QueuedRuns /\ row[r] = "none" /\ status[r] = "none"
    /\ lock' = r
    /\ task' = [task EXCEPT ![r] = "entered"]
    /\ UNCHANGED <<session, closed, store, jobs, worker, fresh, windows, faults>>

\* training.start inside enqueue: the session, or a refusal
EnqueueStart(r) ==
    /\ lock = r /\ task[r] = "entered"
    /\ CreateSession(r)
    /\ UNCHANGED <<closed, desk, windows, faults>>

\* start raises inside enqueue: there is no room, or the database refuses the
\* read of the position or the recovery, which is then still to be made; the
\* queue fails its item with it
EnqueueRefused(r) ==
    /\ lock = r /\ task[r] = "entered"
    /\ \/ ~Admitted /\ UNCHANGED faults
       \/ Fault
    /\ lock' = NoRun
    /\ task' = [task EXCEPT ![r] = "none"]
    /\ row' = [row EXCEPT ![r] = IF r \in QueuedRuns THEN "failed" ELSE @]
    /\ UNCHANGED <<session, closed, torn, recovered, jobs, worker, fresh, windows>>

\* enqueue after session.current(10), which returns within ten seconds
EnqueueLeave(r) ==
    /\ lock = r /\ task[r] # "entered"
    /\ jobs' = [x \in Runs |-> IF x = r THEN Unclaimed
                               ELSE IF x \in Sessions THEN jobs[x] ELSE NoWorker]
    /\ lock' = NoRun
    /\ UNCHANGED <<session, task, closed, store, worker, fresh, windows, faults>>

Expire ==
    /\ fresh
    /\ \/ phase[worker] = "off" /\ UNCHANGED faults
       \/ phase[worker] # "off" /\ Fault
    /\ fresh' = FALSE
    /\ UNCHANGED <<session, task, closed, store, jobs, lock, worker, windows>>

Watch ==
    /\ ~fresh
    /\ \E r \in ActiveJobs : ~stopping[r]
    /\ Cancelled(ActiveJobs)
    /\ UNCHANGED <<task, closed, store, desk, windows, faults>>

\* heartbeat at the backend: a second worker is turned away while the first
\* is online, and takes its place, at the cost of its run, when it is not
TurnedAway(w) == fresh /\ worker # w

Registered(w) ==
    /\ worker' = w /\ fresh' = TRUE
    /\ IF worker \notin {w, NoWorker} THEN Cancelled(ActiveJobs) ELSE UNCHANGED session

\* one heartbeat whose reply reaches the worker
Heartbeat(w) ==
    /\ phase[w] \notin {"new", "off"} /\ ~quitting[w]
    /\ IF TurnedAway(w)
       THEN /\ quitting' = [quitting EXCEPT ![w] = TRUE]
            /\ cancel' = [cancel EXCEPT ![w] = @ \/ phase[w] \in Executing]
            /\ UNCHANGED <<session, worker, fresh>>
       ELSE /\ Registered(w)
            /\ cancel' = [cancel EXCEPT ![w] =
                 \/ @
                 \/ /\ phase[w] \in Executing
                    /\ hand[w] \notin ActiveJobs \/ stopping'[hand[w]]]
            /\ UNCHANGED quitting
    /\ UNCHANGED <<task, closed, store, jobs, lock, phase, hand, assigned, handed, faults>>

\* a mutant of Claim: the job is not marked as taken
ClaimUnmarked(w, r) ==
    /\ phase[w] = "idle" /\ ~quitting[w]
    /\ fresh /\ worker = w
    /\ r \in ActiveJobs /\ jobs[r] = Unclaimed
    /\ phase' = [phase EXCEPT ![w] = "offered"]
    /\ hand' = [hand EXCEPT ![w] = r]
    /\ UNCHANGED <<session, task, closed, store, desk, assigned, cancel, quitting, handed,
                   faults>>

\* claim, with its reply still on the way
Claim(w, r) ==
    /\ phase[w] = "idle" /\ ~quitting[w]
    /\ fresh /\ worker = w
    /\ r \in ActiveJobs /\ jobs[r] = Unclaimed
    /\ jobs' = [jobs EXCEPT ![r] = w]
    /\ phase' = [phase EXCEPT ![w] = "offered"]
    /\ hand' = [hand EXCEPT ![w] = r]
    /\ UNCHANGED <<session, task, closed, store, lock, worker, fresh, assigned, cancel,
                   quitting, handed, faults>>

-----------------------------------------------------------------------------
(* WindowsWorker and its children *)

backend == <<session, task, closed, store, desk>>

\* nothing in hand: active_run, the pass and the cancel event are forgotten
Idle(w) ==
    /\ hand' = [hand EXCEPT ![w] = NoRun]
    /\ assigned' = [assigned EXCEPT ![w] = 0]
    /\ cancel' = [cancel EXCEPT ![w] = FALSE]

StartWorker(w) ==
    /\ phase[w] = "new"
    /\ phase' = [phase EXCEPT ![w] = "idle"]
    /\ UNCHANGED <<backend, hand, assigned, cancel, quitting, handed, faults>>

\* The process dies; a child of it may live on and submit.
KillWorker(w) ==
    /\ phase[w] \notin {"new", "off"}
    /\ Fault
    /\ phase' = [phase EXCEPT ![w] = "off"]
    /\ Idle(w)
    /\ UNCHANGED <<backend, quitting, handed>>

\* No heartbeat succeeds for fifteen seconds, or the reply to one that was
\* sent before the claim arrives after it and names no active run.
MissBeats(w) ==
    /\ phase[w] \in Executing /\ ~cancel[w]
    /\ Fault
    /\ cancel' = [cancel EXCEPT ![w] = TRUE]
    /\ UNCHANGED <<backend, phase, hand, assigned, quitting, handed>>

\* execute begins.  It clears the cancel event, so that what set it between
\* two jobs is forgotten; the model keeps it cleared there.
TakeJob(w) ==
    /\ phase[w] = "offered"
    /\ phase' = [phase EXCEPT ![w] = "poll"]
    /\ UNCHANGED <<backend, hand, assigned, cancel, quitting, handed, faults>>

\* The claim's reply is lost; the job stays assigned to this worker.
LoseOffer(w) ==
    /\ phase[w] = "offered"
    /\ Fault
    /\ phase' = [phase EXCEPT ![w] = "idle"]
    /\ Idle(w)
    /\ UNCHANGED <<backend, quitting, handed>>

Turn(w, to) ==
    /\ phase' = [phase EXCEPT ![w] = to]
    /\ UNCHANGED <<backend, hand, cancel, quitting>>

\* the loop of execute: stop or fail, return, or hand the pass to a child
Poll(w) ==
    /\ phase[w] = "poll"
    /\ \/ /\ cancel[w] \/ hand[w] \notin Sessions
          /\ Turn(w, "quit") /\ UNCHANGED <<assigned, handed, faults>>
       \/ ~cancel[w] /\ Fault /\ Turn(w, "quit") /\ UNCHANGED <<assigned, handed>>
       \/ /\ ~cancel[w] /\ status[hand[w]] = "waiting"
          /\ Turn(w, "pass")
          /\ assigned' = [assigned EXCEPT ![w] = passNo[hand[w]]]
          /\ handed' = handed \cup {<<hand[w], passNo[hand[w]]>>}
          /\ UNCHANGED faults

\* The child exits; or it is killed after a cancellation or 870 seconds.
ChildEnds(w) ==
    /\ phase[w] = "pass"
    /\ \/ Turn(w, "check")
       \/ Turn(w, "quit")
    /\ UNCHANGED <<assigned, handed, faults>>

\* The backend owns acceptance: only its last accepted pass counts.
Check(w) ==
    /\ phase[w] = "check"
    /\ hand[w] \in Working \/ hand[w] \notin Sessions
    /\ IF hand[w] \in Working /\ LastAccepted(hand[w]) = {assigned[w]}
       THEN Turn(w, "poll") ELSE Turn(w, "quit")
    /\ UNCHANGED <<assigned, handed, faults>>

\* Either look at the run finds it ended.
JobDone(w) ==
    /\ phase[w] = "check" \/ (phase[w] = "poll" /\ ~cancel[w])
    /\ hand[w] \in Sessions /\ status[hand[w]] \in Terminal
    /\ phase' = [phase EXCEPT ![w] = "idle"]
    /\ Idle(w)
    /\ UNCHANGED <<backend, quitting, handed, faults>>

\* report with an error; the backend ignores it for a run it has forgotten
Report(w) ==
    /\ phase[w] = "quit"
    /\ phase' = [phase EXCEPT ![w] = "idle"]
    /\ Idle(w)
    /\ IF hand[w] \in Working /\ jobs[hand[w]] = w THEN Cancelled({hand[w]})
                                                   ELSE UNCHANGED session
    /\ UNCHANGED <<task, closed, store, desk, quitting, handed, faults>>

\* The report is lost, and the run is left to the watchdog or its deadline.
LoseReport(w) ==
    /\ phase[w] = "quit"
    /\ Fault
    /\ phase' = [phase EXCEPT ![w] = "idle"]
    /\ Idle(w)
    /\ UNCHANGED <<backend, quitting, handed>>

QuitWorker(w) ==
    /\ phase[w] = "idle" /\ quitting[w]
    /\ phase' = [phase EXCEPT ![w] = "off"]
    /\ UNCHANGED <<backend, hand, assigned, cancel, quitting, handed, faults>>

-----------------------------------------------------------------------------
Init ==
    /\ status = [r \in Runs |-> "none"]
    /\ stopping = [r \in Runs |-> FALSE]
    /\ passNo = [r \in Runs |-> 0]
    /\ pending = [r \in Runs |-> "none"]
    /\ accepted = [r \in Runs |-> [n \in Passes |-> NoAnswer]]
    /\ used = [r \in Runs |-> [n \in Passes |-> NoAnswer]]
    /\ task = [r \in Runs |-> "none"]
    /\ row = [r \in Runs |-> "none"]
    /\ torn = {} /\ recovered = FALSE /\ closed = FALSE
    /\ jobs = [r \in Runs |-> NoWorker]
    /\ lock = NoRun /\ worker = NoWorker /\ fresh = FALSE
    /\ phase = [w \in Workers |-> "new"]
    /\ hand = [w \in Workers |-> NoRun]
    /\ assigned = [w \in Workers |-> 0]
    /\ cancel = [w \in Workers |-> FALSE]
    /\ quitting = [w \in Workers |-> FALSE]
    /\ handed = {} /\ faults = 0

Harness(r) == Setup(r) \/ Ask(r) \/ Wake(r) \/ Decide(r) \/ GiveUp(r) \/ FailRow(r)
              \/ Grade(r) \/ FinishStored(r) \/ FinishFallen(r)

RunStep(r) ==
    \/ Harness(r) \/ PassTimesOut(r) \/ Refused(r) \/ Stop(r) \/ StartDirect(r)
    \/ \E n \in Passes, a \in Answers : Submit(r, n, a)
    \/ QueueReads(r) \/ QueueClaims(r) \/ QueueFails(r)
    \/ EnqueueEnter(r) \/ EnqueueStart(r) \/ EnqueueRefused(r) \/ EnqueueLeave(r)

WorkerStep(w) ==
    \/ StartWorker(w) \/ KillWorker(w) \/ Heartbeat(w) \/ MissBeats(w)
    \/ \E r \in Runs : Claim(w, r)
    \/ TakeJob(w) \/ LoseOffer(w) \/ Poll(w) \/ ChildEnds(w) \/ Check(w) \/ JobDone(w)
    \/ Report(w) \/ LoseReport(w) \/ QuitWorker(w)

Next ==
    \/ \E r \in Runs : RunStep(r)
    \/ \E w \in Workers : WorkerStep(w)
    \/ Expire \/ Watch \/ Close \/ Restart

Spec == Init /\ [][Next]_vars

\* The event loop runs what is ready and its timers fire.  A worker, its
\* child, an HTTP client and the queue owe nothing.
FairSpec ==
    /\ Spec
    /\ \A r \in Runs : WF_vars(Harness(r)) /\ WF_vars(PassTimesOut(r))
    /\ WF_vars(Watch)

-----------------------------------------------------------------------------
(* Properties *)

Seen == Live \cup Terminal \cup {"none", "lost"}
Stages == {"none", "ready", "claimed", "entered", "setup", "think", "parked",
           "failing", "grade", "stored", "fallen", "done"}

TypeOK ==
    /\ status \in [Runs -> Seen]
    /\ stopping \in [Runs -> BOOLEAN]
    /\ passNo \in [Runs -> 0..MaxPasses]
    /\ pending \in [Runs -> {"none", "open", "answered", "refused", "expired"}]
    /\ accepted \in [Runs -> [Passes -> Answers \cup {NoAnswer}]]
    /\ used \in [Runs -> [Passes -> Answers \cup {NoAnswer}]]
    /\ task \in [Runs -> Stages]
    /\ row \in [Runs -> {"none", "running", "completed", "failed"}]
    /\ torn \subseteq Runs /\ recovered \in BOOLEAN /\ closed \in BOOLEAN
    /\ jobs \in [Runs -> Workers \cup {NoWorker, Unclaimed}]
    /\ lock \in Runs \cup {NoRun}
    /\ worker \in Workers \cup {NoWorker} /\ fresh \in BOOLEAN
    /\ phase \in [Workers -> {"new", "idle", "offered", "poll", "pass", "check",
                              "quit", "off"}]
    /\ hand \in [Workers -> Runs \cup {NoRun}]
    /\ assigned \in [Workers -> 0..MaxPasses]
    /\ cancel \in [Workers -> BOOLEAN] /\ quitting \in [Workers -> BOOLEAN]
    /\ handed \subseteq Runs \X (0..MaxPasses)
    /\ faults \in 0..MaxFaults

\* However the queue, the UI and direct clients interleave with the awaits of
\* enqueue and start, one job is active at a time and no more than MaxActive
\* runs are (jobs.py:95-137, service.py:48-69).
AdmissionHolds ==
    /\ Cardinality(ActiveJobs) <= 1
    /\ Cardinality(Working) <= MaxActive

\* Two workers never carry out the same run, not even while one of them is
\* late to notice that the other was registered in its place (jobs.py:77-93,
\* 157-171), and a pass in the hands of a child is one the run has asked for.
OneWorkerPerRun ==
    \A w \in Workers : hand[w] # NoRun =>
        /\ \A v \in Workers : hand[v] = hand[w] => v = w
        /\ phase[w] = "pass" => assigned[w] \in 1..passNo[hand[w]]

\* What the bridge tells of an ended run is what its row says, also when a
\* stop arrives while the outcome is being written (service.py:117-139,
\* runner.py:110-150), as long as the database took every write.
SessionTellsTheRow ==
    \A r \in Runs \ torn : status[r] \in Terminal =>
        row[r] = IF status[r] = "completed" THEN "completed" ELSE "failed"

\* Once this backend has started its first run, every running row belongs to
\* a run that is still being worked on: the late recovery leaves none behind.
\* And it takes none of this backend's: a run in the hands of the player, or
\* waiting for its grade, has a running row (service.py:50-54,
\* run_repository.py:97-116).
NoOrphanRows ==
    /\ recovered => \A r \in Runs \ torn :
          row[r] = "running" => task[r] \notin {"none", "ready", "done"}
    /\ \A r \in Runs :
          task[r] \in {"think", "parked", "failing", "grade"} => row[r] = "running"

\* Each accepted answer is final, belongs to the pass that was pending, and is
\* the one the harness goes on with; a stopped run asks and accepts nothing.
BridgePhase == [r \in Runs |->
    IF status[r] = "none" THEN "new"
    ELSE IF status[r] \notin Live THEN "over"
    ELSE IF stopping[r] THEN "stopping" ELSE "open"]
Ledger == INSTANCE ExchangeLedger
    WITH phase <- BridgePhase, asked <- passNo, answer <- accepted
ImplementsLedger == Ledger!Spec

\* Every run comes to an end, whatever becomes of its worker, of replies and
\* of reports: by its answers, the watchdog, a stop, or a pass deadline.
EveryRunEnds == \A r \in Runs : status[r] \in Live ~> status[r] \notin Live
-----------------------------------------------------------------------------
(* The inductive invariant of CodexDeskProofs *)

\* The stages of a run whose task is in _run.
InTask == {"setup", "think", "parked", "failing", "grade", "stored", "fallen"}

\* A session is live as long as its task is, a run that is not yet in _run has
\* none, and a session waits only for the pass its task is parked at.
LifeOK(r) ==
    /\ task[r] \in InTask <=> status[r] \in Live
    /\ task[r] \in {"ready", "claimed", "entered"} => status[r] = "none"
    /\ task[r] \in {"ready", "claimed"} => r \in QueuedRuns
    /\ status[r] = "none" => ~stopping[r] /\ passNo[r] = 0 /\ jobs[r] = NoWorker
    /\ status[r] = "waiting" \/ pending[r] = "open" => task[r] = "parked"

\* How far the exchange of passes is.
PassOK(r) ==
    /\ task[r] = "setup" => passNo[r] = 0
    /\ task[r] = "think" => passNo[r] = 0 \/ used[r][passNo[r]] # NoAnswer
    /\ task[r] = "parked" =>
          /\ passNo[r] > 0 /\ used[r][passNo[r]] = NoAnswer
          /\ pending[r] = "answered" => accepted[r][passNo[r]] # NoAnswer
    /\ \A n \in Passes : n > passNo[r] => used[r][n] = NoAnswer /\ accepted[r][n] = NoAnswer

\* What the stage of a run says of its row.
RowOK(r) ==
    /\ status[r] = "none" /\ r \notin QueuedRuns => row[r] = "none"
    /\ status[r] # "none" /\ r \in QueuedRuns => row[r] # "none"
    /\ task[r] \in {"think", "parked", "failing", "grade", "claimed"} => row[r] = "running"
    /\ task[r] \in {"entered", "setup"} /\ r \in QueuedRuns => row[r] = "running"
    /\ task[r] = "stored" => row[r] \in {"completed", "failed"}
    /\ task[r] = "fallen" /\ r \notin torn => row[r] = "failed"
    /\ r \in QueuedRuns \ torn /\ row[r] = "running" => task[r] \notin {"none", "ready", "done"}

\* enqueue holds the lock from its look at the jobs until it adds one.
JobsOK ==
    /\ \A r, s \in ActiveJobs : r = s
    /\ lock # NoRun => /\ ActiveJobs = {}
                       /\ task[lock] = "entered" \/ status[lock] # "none"

\* A run in the hands of a worker was claimed, and no other will be.
HandOK(w) ==
    /\ phase[w] \in Executing \cup {"offered"} => hand[w] \in Runs
    /\ hand[w] # NoRun => /\ status[hand[w]] # "none"
                          /\ hand[w] # lock
                          /\ jobs[hand[w]] # Unclaimed

IInv ==
    /\ TypeOK
    /\ \A r \in Runs : LifeOK(r) /\ PassOK(r) /\ RowOK(r)
    /\ ~recovered => Sessions = {}
    /\ JobsOK
    /\ \A w \in Workers : HandOK(w)
    /\ AdmissionHolds /\ OneWorkerPerRun /\ SessionTellsTheRow /\ NoOrphanRows

=============================================================================
