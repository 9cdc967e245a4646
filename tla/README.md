# Verification of the chess harness

TLA+ models, TLC runs and machine-checked proofs for the backend of this
repository: the services that let language-model players choose chess moves,
store what they did, and grade it.

## 1. The system

A FastAPI process (`backend/app/main.py`) owns everything: it serves the HTTP
API, runs the match tasks, the positional queue's worker and the Codex training
service in one asyncio event loop. Matches are kept in SQLite, through one
connection and directly from the event loop; the position library and its runs in
PostgreSQL, through calls that run in a thread pool. Several processes may share
the PostgreSQL store; the SQLite file is for one process, whose boot fails every
match that is still running in it.

| Component | Code | State it keeps | Operations |
|---|---|---|---|
| Positional queue | `positional_testing/queue.py`, `queue_repository.py` | `model_runs` rows with a `queue_tag`; a session advisory lock (the lease); per process: the item being executed | enqueue, retry, stop, delete queue; worker: acquire lease, recover, claim, execute, finish |
| Run store and runner | `run_repository.py`, `runner.py`, `recording.py`, `exchange.py` | `model_runs`, `model_run_passes` | create, configure, save_move, finish, save_pass, delete_run; run_once |
| Codex training | `codex_training/bridge.py`, `service.py`, `jobs.py`, `provider.py` | sessions, their tasks and one pending pass each; the worker's last heartbeat; jobs offered and claimed | start, exchange, submit, cancel, stop, close; heartbeat, enqueue, claim, report, watch |
| Codex worker (Windows) | `codex_training/worker.py`, `mcp_server.py` | one job, one subprocess, a heartbeat thread | poll, run, report, cancel |
| Matches | `app/matches/manager.py`, `runner.py`, `repository.py`, `catalog.py` | matches, their turns and events; per process: tasks | start, stop, delete, recover, close; the turn loop |
| Turn loops | `harness/agent_player_1`, `agent_player_2`, `agent_player3`, `baseline` | the graph's state: messages, budgets, tested lines, drafts | model call, tool batch, submit, retry, give up |
| Tested lines and scratch board | `agent_player*/tested_lines.py`, `tools.py`, `chess_core/scratch.py` | a tree of tried lines; a board with at most four halfmoves | test, extend, reset, rollback of a failed batch |
| Chess core | `chess_core/position.py`, `analysis.py` | none (pure) | legal moves, static exchange evaluation, attack maps |
| Evaluation | `positional_testing/evaluation.py` | an engine process per grade | candidates, expected points, classification |
| Position library | `positional_testing/datasets/*` | positions, datasets, provenance | curate, validate, import, upgrade |
| Prompts, model transport | `*/prompt_builder`, `prompts.py`, `harness/model.py` | none | text building, HTTP calls |
| Front end, scripts, training data | `frontend`, `scripts`, `models` | the browser's | views, checks, data files |

How they interact. The queue worker calls `run_once`, which asks a harness for a
move (a turn loop that calls a model over HTTP) and then the evaluator; each
result is a transaction on the run's row. For a Codex queue `run_once` runs in a
task of the training service and its model calls are passes that an external
worker answers over HTTP. HTTP handlers change the same rows at any moment; the
transaction lock `lock_state` serialises enqueue, claim, stop, retry and delete,
but not `recover`, `save_move`, `finish` and `finish_item`, which update by id.
A match is a task that alternates between its two players and commits each move
to SQLite; requests start, stop, file and delete it meanwhile.
Cancellation (a time limit, a shutdown, a stop) cuts a coroutine at an `await`,
and a database call it waited for goes on in its thread.

What is hard here: two processes that both believe they hold the lease; a
transaction that outlives the coroutine that issued it; handlers of a failure
that fail themselves; a claim whose reply is lost; recovery that meets a worker
that is still alive; stop, retry and delete in long alternations; a worker that
heartbeats while its job is cancelled; a turn that is submitted after its match
was stopped; budgets and roll-backs of a turn loop.

What makes each component correct:

- Queue: one row runs at a time; batches do not overlap; an attempt is executed
  at most once (model calls are paid for); a grade and an answer, once stored,
  survive; a row is completed exactly when it is graded; retries keep one current
  row per position; every scheduled position settles.
- Codex training: at most one pending pass per session, answered at most once; a
  cancelled or finished session accepts no answer; one job per worker; everything
  that waits for a dead worker ends.
- Matches: never more active matches than `max_active`; plies are contiguous; a
  finished match never changes; a deleted one never comes back; at most one active
  event.
- Turn loops: every turn ends, by a legal submitted move or a named failure,
  within its budgets; a failed tool batch leaves the tested lines as they were.
- Chess core and evaluation: static exchange and the grade's thresholds agree
  with a reference definition.

## 2. Modules

| Module | What it is |
|---|---|
| `PositionQueue` | the queue: table, HTTP transactions, workers of any number of processes, faults, properties, the inductive invariant |
| `QueueLedger` | what the queue promises, without leases, processes, transactions or faults |
| `MCPositionQueue` + `MCQueue*.cfg` | its small instances for TLC |
| `PositionQueueProofs` | types, the inductive invariant, the safety and action properties, the refinement of `QueueLedger` |
| `MatchDesk` | matches: tables, manager, game loop, recovery and shutdown of one process, faults, properties, the inductive invariant |
| `MatchBook` | what the desk promises of its games, without tasks, restarts or refused writes |
| `MCMatchDesk` + `MCMatchDesk*.cfg` | its small instances for TLC |
| `MatchDeskProofs` | the inductive invariant, all safety and action properties, the refinement of `MatchBook` |
| `CodexDesk` | Codex training: sessions, service, jobs and watchdog of one backend, the queue and the UI as its clients, the Windows workers with their children, faults, properties, the inductive invariant |
| `ExchangeLedger` | what the bridge promises of one run's passes, without workers, rows or restarts |
| `MCCodexDesk` + `MCCodexDesk.cfg`, `MCCodexLedger.cfg` | its small instances for TLC |
| `CodexDeskProofs` | the inductive invariant, the safety properties, the refinement of `ExchangeLedger` |
| `TurnShape`, `TestedLines` | what the players share: an abstract game, the budgets, the state of a turn; the tree of tried lines |
| `ChessTools`, `TurnPrompt` | the tools of players 2 and 3 and the rules of a batch; which states the prompt builders refuse |
| `PlayerThree`, `PlayerTwo`, `PlayerOne`, `BaselinePlayer` | the nodes and the graph of each player |
| `PassBook` | the recorder: the row of a pass and its exchange snapshots |
| `TurnLoop` | one turn of any player for any host: graph, model, tools, recorder, cancellation and interruption; its properties |
| `MCTurnLoop` + `MCTurnLoop.cfg` | its instance for TLC |
| `ChessToolsProofs` | sound trees of tested lines: what the climb returns, that new numbers are fresh, that every tool keeps a tree sound |
| `TurnLoopProofs` | the recursion limit, the closed rows, the replayed history, the verified decision and the sound tree, for all budgets and answers |
| `TurnTraceProofs` | the rows of a turn replay to the board of the player, for batches of any length and every way a turn can stop |
| `EngineLines`, `Grading`, `GradingProofs` | which engine output is complete, the grade computed from it, and the proofs about both |
| `DatasetRules`, `Curation`, `PositionLibrary` | the rules of a frozen set, the curator, the curator beside the importers |
| `MCPositionLibrary` + `MCPositionLibrary.cfg` | its instance for TLC |
| `PositionLibraryProofs` | what an import reports is stored, a full selection splits into two balanced halves, and a resumed curation selects what one pass would |

### PositionQueue and the code

One step of the model is one transaction, or one stretch of a coroutine between
two awaits.

- `runs` is the table `model_runs`, one `Row` per `RunId` = (queue, position,
  attempt). Ids are fresh uuid4s, so an id whose row was deleted stays
  `"deleted"`. `move` says whether `final_move_uci` is set, `grade` is
  `evaluation.status`, `superseded` whether `superseded_by_run_id` is set, `stop`
  the row's copy of `stop_requested`, `created` the order of the inserting
  transactions. Left out: error texts, `failure_stage`, timestamps, scores.
- `holder` is the session that owns the advisory lock, as PostgreSQL sees it.
  A worker learns that it lost it only in `CheckLease` (`SELECT 1`).
- `pc[p]` is where process p's `serve` stands: `acquire`, `recover`, `check`,
  `claim`, then inside the item `begin`, `choose`, `save_move`, `grade`,
  `finish_grade`, `finish_error`, `read`, and `finish_item`. `item`, `stage` and
  `grade` are the locals of `execute_item` and `run_once`.
- `late` holds the transactions whose coroutine was cancelled while it waited.
  They commit, or fail, at any later moment (`LateWrite`).
- `Enqueue`, `RetryFailed`, `Stop`, `DeleteQueue`, `DeleteRun` are the HTTP
  transactions; `AcquireLease` to `ClaimNothing` are `serve`; `Begin` to
  `FinishItem` are `execute_item` with `run_once`; `TimeOut`, `Shutdown`, `Crash`,
  `Restart`, `DropLease`, `CallFails`, `LateWrite` are what disturbs them.
- A Codex item runs in a task of its own. A cancellation asks the session to stop
  and waits for that task, so its steps go on with the cancellation pending and
  no transaction is left behind. Not modelled: a second cancellation of an item
  that is already being stopped.
- Whether a Codex worker is ready is an input of `ClaimNext` and `Begin`.

### MatchDesk and the code

One step is one stretch of a coroutine between two awaits, cut once more where it
commits twice.

- `row` is a row of `matches` with its `positions` (`plies`, `moves` is
  `move_count`) and `events`. Of an event the phase, ply and status are kept.
  Ids are fresh uuid4s, so a deleted id stays `"deleted"`.
- `tasks` is the key set of `MatchManager._tasks`; `pc[m]` is where the task
  stands: `loop`, the head of the game loop after a commit, or `thinking`, at the
  await of its player. `board[m]` is the length of the task's own move stack.
  `cancelled[m]` is the task's event, which is always set together with
  `task.cancel()`.
- `starting[c]` is a request that holds the manager's lock and awaits the model's
  resolution. The new task runs to its first await before any request can name
  the match, hence no task is cancelled before its first step.
- `StartCheck`, `StartFails`, `StartCreate`, `Stop`, `Close`, `Exit` are the
  manager; `GameOver`, `Turn`, `TurnFails`, `Play`, `PlayFails`, `Cancelled` the
  game loop with the handlers of `_execute`; `DeleteMatch`, `CreateFolder`,
  `AssignFolder` the requests that run in threads and so at any point, also
  between two commits of one coroutine; `Boot`, `Recover`, `Recovered` the
  lifespan's start.
- A fault is a crash or a write that SQLite refuses. In WAL mode a locked database
  refuses the first statement of a transaction, so a refused write changes
  nothing. A failure between two statements of a transaction is not modelled.
- `OverrunsCancel` lets a player's `choose_move` return or raise although its task
  was cancelled. Then the check after the await (runner.py:65) is what stops it.
- The check at the head of the loop (runner.py:41) never fires: between the
  commit of a move and that check nothing is awaited. The model has no step for
  it.
- Left out: texts, player names, `current_player`, `current_phase`, timestamps.

### CodexDesk and the code

One step is one stretch of a coroutine of the backend between two awaits, or one
HTTP request with its effect; the reply to a claim is a message of its own.

- `status`, `stopping`, `passNo`, `pending`, `accepted` are the fields of
  `bridge.RunSession`; a session that `service` has forgotten is `"lost"`. `used`
  records what `exchange` returned to the harness. Answers are compared by digest
  in the code and are abstract here.
- `task[r]` is where the run's coroutine stands, from the reading of the queue or
  the wait for `enqueue`'s lock (`ready`, `claimed`, `entered`) through `_run`
  (`setup` to `fallen`) to `done`. `row[r]` is its `model_runs.status`; `torn` are
  the runs one of whose database calls was refused.
- `jobs`, `lock`, `worker`, `fresh` are `WorkerJobs`: a job's claimant, the run whose
  `enqueue` holds the lock, the registered worker and whether its last heartbeat is
  younger than `WORKER_TTL`.
- `phase`, `hand`, `assigned`, `cancel`, `quitting` are a `WindowsWorker`; `handed`
  the passes a child was ever given: from then on the child may answer them, late,
  twice or never, also after it was killed (`MaySubmit`).
- A start can raise at the limit, at the look-up of the position and at the recovery of
  the first start. `EnqueueRefused` is that failure of a UI job or a queue position,
  which leave a trace (the lock, the client that waited); a direct start that raises has
  changed nothing and is no step.
- `Ask` and `Wake` are `exchange` before and after its await, `Submit` the endpoint,
  `PassTimesOut` and `JobTimesOut` the deadlines, `StartDirect`, `EnqueueEnter`,
  `EnqueueStart`, `EnqueueLeave` and `EnqueueRefused` the ways to start a run,
  `Setup` to `FinishFallen` the task of a run, `Stop`, `Close`, `Restart` the ways to
  end it, `QueueReads`, `QueueClaims`, `QueueFails` the queue as a client,
  `Heartbeat`, `Claim`, `TakeJob`, `Poll`, `Check`, `ChildEnds`, `Report` the worker,
  `Expire` and `Watch` its watchdog. `LoseOffer`, `LoseReport`, `KillWorker`,
  `MissBeats` and refused writes are the faults.
- When a worker cannot report a failed job it logs that the "backend watchdog will
  finish the run" (`worker.py:434-436`). The watchdog cancels jobs only when the
  heartbeats stop, and this worker's thread goes on sending them: what ends the run
  is the deadline of its pass. `EveryRunEnds` therefore rests on `PassTimesOut`.
- Left out: packets, credentials, progress texts, logs.

### TurnLoop and the code

One step is one node of the graph up to its request, the node after its answer, a
tool node's start, one tool call, or the end of a batch.

- A board is the line of moves that leads to it, and legality is membership in
  `Plays`; `Spelling` maps the model's text to a move, so that `e8` and `e8=Q` may be
  the same. The list of nodes of the code is a set; its order is read only where it
  is sorted again. A call's arguments are compared as normalized values.
- `turn` is the graph's state: the phase and the next one, the tree with its active
  branch and scratch board, pending calls, the history player 3 replays, the counters
  of the budgets, reports and decision. `work` is a batch in progress with the board
  it works on, `row` the recorder's row, `replayed` what the completed rows replay to.
- The players share `TurnLoop` and differ in their modules: native calls with ids and
  a replayed history (3), batches in text (2), one call per answer with three phases
  (1), one phase (baseline). The tools modules of players 2 and 3 are the same file.
  The recursion limits are `2M + 4`, `2M + 4`, `6M + 10`, `2M + 10`.
- `host` is who asks: a match (cancellation flag, no recorder), a position run
  (recorder, no flag), a Codex run (both, player 2 only). `Interrupt` is the
  cancellation of the task at an await; a tool node runs in a thread that an
  interrupted turn leaves behind, and it goes on writing to the recorder. A client that
  raises does so before the node looks at the cancellation flag (`ReceiveAnswer`).
- `PassBook` has one operator per method of `PassRecorder`; each is one step. Not
  modelled: how the recorder aligns indices when a text also contains tool tags.
- Left out: events, texts of prompts and notes.

### The position library and the code

`Curation` follows `curate.py` between two writes to the disk: `BeginKind`,
`BeginPage`, `ReadRecord`, `Accept`, `MarkRecord`, `EndPage` are `gather` with
`puzzle`, `quiet_game` and `accept`; `BeginSave`, `OpenFile`, `FillFile` are `save`.

- `selected` and `progress` are the two files of a curation, `cached` the cache files
  with a whole answer, `spoilt` those a crash left created and empty or cut off, which
  every later launch takes for the answer. A JSON answer that is cut off cannot be
  parsed. The export of a game can: `CutOff` are the spoilt exports, and each reading
  chooses those that still reach the position asked for (`reaching`); the others make
  the curator give the record up, like an exception. `memory` is what the process holds.
- A record is given up when reading it raises, also at a variation of the engine that is
  illegal (`Illegal`), before its analysis is cached.
- The seeded orders are constants: the offsets of the pages, the records of a page as
  shuffled, `Shuffled`, the places a seed gives to the boards of a game that were kept
  (which depend on which were kept), and `Arrange`, the order a seed gives to a bucket. A
  digest is modelled as
  the content it digests. `Streams` gives the engine's infos for each board;
  `EngineLines` keeps the deepest search whose lines are all there.
- An unfinished curation is resumed with the command that began it; a second seed and
  directory is launched only once the selection is complete.
- `PositionLibrary` adds importers: `Load` reads and validates the files, `Lock`,
  `Insert`, `InsertFails`, `FindPresent`, `Refuse` are the transaction of
  `import_collection` under its advisory lock. `InsertFails` undoes the insertion, or
  stores it and loses the reply to the commit; the importer raises either way. There is one dataset version, and the
  lock of `ensure_schema` is merged into it.
- Left out: counters of rejections, the list of visited pages, printed progress; a
  puzzle's `source_id` never raises; replaying the exported moves is the identity on
  the model's boards; the append to `selected.jsonl` is one step (a torn last line is
  listed as a hazard that no property covers).

### Grading and the code

`Grading` is `grade_candidates` and `classification` of `evaluation.py` as operators
over the lines of one complete depth, an illegal variation among them an error
(`GradeRaises`). It has no state and no run: its properties are
proved for every position, move and evaluation.

### Runs

| Run | Instance | Question |
|---|---|---|
| `queue_batches` | 2 processes, an ordinary and a Codex queue, 1 position, 1 late transaction, 2 faults, leases drop | do batches overlap, is anything replayed or lost when everything goes wrong? |
| `queue_retries` | 2 processes, 1 queue, 2 positions, 2 attempts each, 1 late transaction, no faults but time limits | do stop, retry and delete keep one current row per position, in order, and does the queue refine its ledger? |
| `queue_liveness` | 2 processes, 1 queue, 2 positions, 1 late transaction, 2 faults, leases do not drop | is one row running and one attempt executed at a time, does every position settle? |
| `queue_overlap` (violation) | as above, leases drop | documented: "Each position and its grading finish before the next begins" |
| `queue_stall` (violation) | one fault | documented: "Restart ... continues pending rows" |
| `desk_safety` | 3 matches, 2 callers, 1 folder, limit 2, 2 plies, 1 fault | do limit, replay, trace, board and verdict agree, and does the desk refine its book, when requests, answers, cancellation and a fault interleave? |
| `desk_liveness` | 2 matches, 1 caller, limit 2, 2 plies, 1 fault | is a stop obeyed although its write is refused, is an interrupted match over after the restart? |
| `desk_stranded` (violation) | the same | documented: "conversion of runner exceptions into durable failed records" |
| `codex_desk` | a UI job and a queue position, 2 workers, 1 pass, 1 answer, limit 2, 1 fault | is one job active at a time, does one worker carry out a run, do bridge, rows and workers agree? |
| `codex_ledger` | a direct run and a UI job of 2 passes each, 1 worker, limit 1, 1 kept session, 1 fault | does the exchange refine its ledger, does every run end whatever its worker does? |
| `turn_loop` | one turn of each of the 4 players for each host; a game of 5 lines, 12 batches or steps, 4 passes per phase, 5 tool calls | is the tree sound, the decision verified, the trace replayable, the history answered, the limit out of reach, a closed row closed? |
| `library` | pages of 8 puzzles and 8 games, 2 quotas of 2 per split, 4 pages per kind, 2 seeds, 2 importers, 2 faults | is resuming transparent, is a full selection always valid, is what an import reports what is stored? |

Bounds of the queue. Two processes are enough for one to act on a lease the other has lost;
two queues for batches to overlap; two positions for an order and for one to wait
on the other; two attempts for a retry to be superseded and late transactions to
reach a superseded row; one late transaction for it to meet the owner's own
writes, a recovery or a later attempt; two faults for a failure inside the
handling of another. `MaxAttempts`, `MaxLate`, `MaxFaults` are the only bounds and
stand in the guards of `RetryFailed`, `Leave` and `Fault`. The theorems hold for
every value of them.

Bounds of the desk. Two callers race for the lock; two matches at a time interleave
and a third meets the limit and the place a stale task leaves; two plies give every
order of announcement, move, next announcement and end (a game may end after any
ply); one fault falls on any commit, and the recovery meets what it left. `MaxPly`
and `MaxFaults` are the only bounds and stand in the guards of `Turn` and `Faults`.

Bounds of the Codex desk. Two runs compete for the job slot and the lock, two workers
for the registration; `codex_desk` takes the two kinds of run that go through
`enqueue` and the worker, `codex_ledger` the direct run beside a job with two passes,
so that a late answer to the first pass meets the second, one slot and one kept
session, so that sessions are forgotten. One fault falls on any step. Two runs cannot exceed
the limit of two of `codex_desk`, one job at a time leaves no other run alive that a
late recovery could fail, and with one answer a second one cannot differ from the first:
for these the theorems about every instance stand (`AdmissionHolds`,
`NoOrphanRows` and `ImplementsLedger` are proved). `MaxPasses` and
`MaxFaults` are the only bounds (guards of `Ask` and `Fault`); `MaxPasses` is also the
player's own `max_model_calls`.

Bounds of the turn. Four passes per phase, one protocol retry, one forced retry, two
rejected batches and five tool calls let every budget run out before another. The game
has a line that ends by a finished game, one at the depth of the scratch board, two
replies to a first move, and a text with two spellings; the batches contain each tool,
each refusal and each rule of a batch. The model's answers are complete, incomplete,
failed and lost ones, with fresh, repeated, blank and doubled identifiers. Nothing
bounds the runs but the program's own budgets, and deadlock is not looked for because
a turn ends.

Bounds of the library. The pages hold a record for every filter that decides a phase
or a bucket at its boundary value, a page drawn twice, a game that gives a puzzle and a
quiet position, streams that stop in the middle of a depth, one with an illegal variation,
and a record that raises.
Two faults put a crash into the recovery of another. The constraint
`ImportsOfWholeReading` stops the importers where a fault made the curator pass over a
record or left a spoilt file: such a set is followed up to its files only. `MaxFaults` is the only bound.

Fairness (`FairSpec` of the queue): each process's own next step (serve, execute, its time
limit, its restart) is weakly fair. The event loop schedules every task; a turn
ends by itself or by `asyncio.timeout`; a stopped process is started again by its
operator. Nothing is assumed about users, faults or late transactions.

Fairness (`FairSpec` of the desk): the step of each task (the event loop runs what
is ready; a player's calls have time limits and its loops budgets), the end of a
pending start, the exit, boot and recovery of the process. Nothing is assumed about
users, faults or shutdowns.

Fairness (`FairSpec` of the Codex desk): of each run, the next step of its coroutine
(`Harness`) and the deadline of its pass (`PassTimesOut`), and `Watch`: the event loop
runs what is ready, and its timers fire. Workers, their children, clients and the
queue owe nothing. The turn and the library have no liveness property: a turn is
bounded by its budgets (`LimitNeverReached` and the counters of `TypeOK`), a curation
by `--max-pages`.

### The three disagreements with the documentation

`queue_overlap`: the lease is looked at between items only, so a worker whose
session PostgreSQL has ended goes on with its item while another process recovers
the row and starts the next. The table stays consistent (the theorems hold with
leases that drop), but two items are executed at once.

`queue_stall`: `claim_next` runs in a thread; a shutdown cancels the coroutine,
not the thread. If the claim commits after the next worker's `recover`, the row is
running for ever: `claim_next` refuses while a row runs, `stop` spares it, enqueue,
retry and delete are refused, and recovery happens only when a lease is acquired.
`queue_liveness` shows that this is the only way: unless a claim is left behind,
every position settles.

`desk_stranded`: an exception of a player is written to the row once. If SQLite
refuses that write, the task is gone and the row stays running; it counts against
the limit of active matches until a user stops it or the backend restarts.
`OnlyFaultsAbandon` shows that nothing but a crash or a refused write does this, and
`RestartEndsMatches` that the restart repairs it.

## 3. Proofs

### The queue

For every set of processes, queues and positions, every number of attempts, late
transactions and faults, with leases that drop or not. Assumptions:
`QueueAssumption` (types of the constants, positions are naturals) and
`NoRunAssumption`.

The safety properties are not inductive: `CompletedIffGraded` says nothing of a
`finish_item` that is on its way with "no error", or of a `finish(error)` that was
abandoned before a grade was stored. `IInv` adds:

- `WorkerOK`: the row a worker owns was claimed; before its grade it has none;
  the transaction it is about to issue is `Harmless` (it can neither erase an
  answer or a grade nor complete a row without one).
- `OneOwner`: no two workers own one run, although two may be executing. A claim
  takes only queued rows, and every owned or written row has left the queue.
- `LateInv`: an abandoned transaction is harmless too; its row's owner is gone or
  at `finish_item`; and a run has at most one abandoned transaction besides
  `finish_item`. So two writers of one row are always a `finish_item` and
  something else, and those commute as far as answers and grades go
  (`HarmlessPair`).
- `AttemptsFollow`: of two attempts at a position the earlier is superseded or
  deleted; this makes the id of a retry fresh.

`PositionQueueProofs` proves that each transaction preserves the row invariant
(`EnqueueRows` to `EffectRows`), then that each step keeps workers and abandoned
transactions harmless (`QuietStep` for steps that execute nothing, `AttemptStep`
for those that do, `ClaimNextInv`, `LateWriteInv`), and gets `Invariance` and the
safety theorems. `OneAttemptWithLease` has an assumption of its own, that lease
sessions do not drop (`MCQueueOverlap` shows why), and an invariant of its own,
`HolderOK`: a worker past the lease holds it. Then it shows what a step can do to a row
(`StatusSteps`, `ResultSteps`), hence the action properties, and that every step
is a ledger step or a stutter, hence `QueueImplementsLedger`.

### The match desk

For every set of matches and callers, every limit, length of game and number of
faults, with players that outlive their cancellation or not. Assumption:
`DeskAssumption` (matches are finite, the limit is positive, `"idle"` is no folder).

The limit is not inductive because it is looked at one step and used another, and
the replay is not because a task appends `board + 1`, not `move_count + 1`. `IInv`
adds:

- `StartInv`: one start at a time is past the check, and the limit still has room
  for it (nothing else makes a match run).
- `TaskOK`: the task table is the set of live tasks; a task whose match no longer
  runs was told; one whose match runs has the row's move count on its board; a
  cancelled task is at its await; at the head of the loop no turn is announced.
- `LoopInv`: one game at a time is between two commits.
- `RowOK`: an absent or deleted match has nothing stored, every other a whole
  replay and an orderly trace.

`MatchDeskProofs` shows what each write does to a row (`NewRows`, `TurnedRow`,
`AppendedRow`, `FinishedRow`, `FiledRow`), then that each step keeps `IInv`
(`Invariance`), then that a step changes rows only as a book knows (`RowSteps`);
`FinishedIsFrozenAlways`, `OnlyFaultsAbandonAlways` and `DeskImplementsBook` follow
from that.

### The Codex desk

For every set of runs, workers and answers, every limit, number of kept sessions,
passes and faults. Assumption: `CodexAssumption` (runs are finite, the classes of runs
are disjoint, the markers are no members, the limits are positive).

`AdmissionHolds` is not inductive because `enqueue` looks at the jobs at one await and
adds its own after another; `OneWorkerPerRun` is not because a worker may still hold a
run when another has taken its place; `SessionTellsTheRow` is not because the outcome
of a run is decided before its row is written. `IInv` adds:

- `LifeOK`: a session is live exactly while its task is in `_run`, and waits only at
  the pass its task is parked at.
- `PassOK`: where the task is in the exchange; nothing is accepted or used beyond the
  pass that was asked, and a parked pass has not been used.
- `RowOK`: what the stage of a task says of its row, for queued runs from their claim
  and for others from `setup`.
- `JobsOK`: one job at a time is active, and while `enqueue`'s lock is held none is.
- `NoOrphanRows` is one of its parts. Its second half says that the row of a run whose
  task is at work is running, so that the recovery of the first start may not come later.
- `HandOK`: a run in the hands of a worker was claimed and is offered to no other.

`CodexDeskProofs` treats the steps of one run (`Alone`), the cancellations and the
restart as calm: they create no session and no job. Creation, entering and leaving
the lock, and the claim have lemmas of their own. `CodexImplementsLedger` maps every
step to a step of `ExchangeLedger` or to none.

### The turn loop

For every game, player and host, all budgets, and whatever the model answers.
Assumptions: `GameAssumption`, `BudgetAssumption` (the budgets are positive, the
retries naturals) and `BatchAssumption` (a batch that can be read is a sequence of at
least one call, as `parse_agent_response` demands).

- `LimitNeverReached` is not inductive: it needs to know who pays for a superstep.
  `LoopOK` says that the supersteps taken are at most `Spent`, twice the passes of
  this phase and of the phases before it, strictly fewer at a tool node. `PassCounts`
  shows that every pass of every player counts itself, `RejectSettles` and
  `CommitSettles` that the end of a batch takes no pass back and leads to no tool
  node, also where player 1 opens its next phase with counters at zero, and `Room`
  that `Spent` stays below the limit.
- `ClosedPassStaysClosed` needs `RecordOK`: while the model is asked or tools are to
  run the row is open, and in a batch only a failed row can be closed already (by an
  interruption). So what a late thread still saves meets a failed row and leaves it
  failed. `AbortKeeps`, `SettleKeeps` and one lemma per action carry it.
- `HistoryIsAnswered` needs `HistoryOK`: while a batch is pending or runs, the history
  followed by the output of its call is whole. `ExchangeKeepsWhole` is the lemma about
  sequences (calls and outputs of fresh, distinct identifiers keep the history whole);
  `ThreeHears` applies it to what a pass keeps of an answer, accepted or refused.
- `DecisionIsVerified` speaks of the end of a turn, while the move was verified in the
  middle of a batch, on a board that later calls may change and the commit copies into
  the turn. `DecisionOK` says that the decision of the batch is verified on the board of
  the batch and the decision of the turn on the tree of the turn, and for player 1 which
  reports each phase has behind it. A tree that grows, or whose branches get notes,
  keeps what was verified on it (`GrownKeepsVerified`), and every tool only does that
  (`ThreeTools`; `TwoTools` goes through the tools of player 2 by showing that they
  are the same operators). So the result depends neither on the order of a batch nor
  on the tree being sound.
- `TreeIsSound` says that the fields of a tree agree; that no tool raises needs more:
  the climb along the parent fields ends at a base branch, the moves on the way lead to
  the branch's board, and the number a new branch gets is free. Those are facts about
  recursive functions over trees of any size. The library's induction theorems take an
  operator as a parameter, which the provers cannot instantiate; `SetInduction` of
  `ChessToolsProofs` takes a set instead and follows from the well-foundedness of `<`.
  With it a recursive function is known as soon as one solution of its equation is
  written down (`LineageIsPath`: the last `k` branches of the path) and any other is
  shown to agree with it. `SoundTree` is the inductive form of `TreeIsSound`; every tool
  keeps it (`ToolKeepsSound`, with `TreeGrows` and `TreeIsAnnotated`). In `TurnLoop`,
  `PlaysOK` carries it along the turn: which board a batch works on and what it leaves
  behind when it commits or is rolled back, which reports of player 1 are there when
  its synthesis asks for them, and which calls a node of each player can meet, so that
  neither a prompt nor an edge breaks. `RestOK` adds what only `TypeOK` asks for.
- `TraceReplays` (`TurnTraceProofs`) compares a row with the board only when the row is
  closed, while the recorder writes it call by call, finding each call by its name and
  arguments. `RowTraced` says what a row in the middle of a batch of any length shows:
  for some `n` the first `n` calls of the batch order have run, are numbered as they ran,
  and lead from the board of the turn to the board of the batch (`RanTo`, `LedTo`).
  `BatchIsOrdered` (the order is a permutation that never swaps equal calls) makes the
  call the recorder finds the call that ran (`NextIsSought`), so that one call keeps the
  invariant (`OneCallFurther`, `OneBoardFurther`); `ReplayIs` and `BatchReplays` turn the
  finished batch into the recursive replay; `CommitLeavesBoard` shows that each player's
  commit copies that board, or opens player 1's next phase on an empty one. A refused
  call needs `RefusedIsMarked`, an interrupted one `LateCallRow`: the tool thread then
  notes its call on a row the runner has closed, which is why an interrupted turn is
  left out of the property's second part.

### The grade

For every number of legal moves and every bound on the scores (`GradingProofs`):
a best line exists, the loss is between zero and the whole point so that
`classification` never raises (`LossIsInRange`), and there is a better move exactly when
points were lost (`BetterMovesMatchTheGrade`).

### The library

For every source of records, every output of the engine, any quotas, seeds, importers and
faults (`PositionLibraryProofs`). Assumptions: `QuotaAssumption` (quotas are even, their
buckets are a phase and a kind) and `CurationAssumption` (pages and streams are lists,
enough pages were drawn, a shuffle gives no two kept boards the same place).

- `ReportedIsStored` needs to know that a manifest is the last file of its directory and
  is never written again (`FoldersOK`), so that a set that passed, on its way to the
  library or stored there, stays the one its directory holds (`ImportsOK`).
- `FullSelectionIsBalanced` looks at the end of a curation. `CuratorOK` says of every
  state that what is on the disk is a `Selection`: sound items, no game or board twice, at
  most half of a phase mating puzzles, and `Tracked` counts each side of each bucket. What
  a record gives to `accept` may join it (`ReadJoins`): an analysis has different first
  moves (`CompleteIsDifferent`), the six candidates of a game are boards that passed its
  filters (`CandidatesAreEligible`), the item comes from one of them (`ScreenedFromBoard`),
  and `SelectionGrows`. Then `Halves` cuts each side of a full selection in two
  (`FullIsBalanced`). The theorem has a hypothesis of its own, `ArrangeKeepsTheItems`: the
  shuffle of `save` neither drops nor repeats an item. The loops of the code are recursive
  functions here, and `SetInduction` stands for their induction, as for the turn.

- `ResumeIsTransparent` compares every state with a whole other run of the curator.
  `ResumeOK`, checked by TLC on the instance before it was proved, keeps a pass at hand:
  one that reads up to the cursors, the lost records left out, holds what the disk holds
  (`PassOK`). Between `accept` and its checkpoint, and after a crash there, that pass is
  one record ahead of the cursor; the record is then settled (its game has given an item,
  `AheadOf`), so the next launch passes it by (`SettledPasses`) and the cursor catches up.
  While a record is being given up or accepted the pass stands before it (`BeforeOK`,
  `FoundOK`), afterwards behind it (`BehindOK`). Three facts carry the steps: what a record
  gives depends only on what is held and tracked (`SameRead`), a spoilt cache file can make
  the curator give a record up and never read something else in it (`UnbrokenRead`), and records given
  up later make no difference to a pass that has not reached them (`LostOK`, `UptoSame`).
  A page that cannot be had is not cached, and no cursor stands inside such a page
  (`CursorOK`), so that leaving it out forgets nothing that was selected.

Only model-checked: everything about liveness, which is out of the prover's reach:
`SettlesUnlessClaimIsLeft`, `StopIsObeyed`, `RestartEndsMatches`, `EveryRunEnds`.

## 4. Not modelled, and what is left

Not modelled on purpose: the front end, prompt texts, the HTTP transport to models,
data files, training scripts and command lines (no state the properties could tell
apart); `failure_stage` and error texts; projections (`COUNTS`, `queue_summary`) and
the read queries of the library; the chess core, whose static exchange and attack maps
are pure functions over python-chess boards, so that a model would restate the
library's move generation.

What is modelled in part and could go further:

1. The engine process of an evaluation: its start, time limit and cleanup. The queue's
   model lets a grade fail, raise or be cancelled, and says nothing of the process.
2. One shutdown of all services. Each component has its own (`Shutdown`, `Close`,
   `Exit`); their order in the lifespan, and that `close()` of the queue returns when
   `finish_item` fails in the cancellation's handler, are not composed.
3. A failure between two statements of one SQLite transaction (a full disk): the desk
   refuses writes at the first statement, where a locked database does.
4. The upgrade of old library rows and of the schema.
