----------------------------- MODULE MatchDesk -----------------------------
(***************************************************************************)
(* Matches between two move-producing players: the SQLite tables, the HTTP *)
(* operations on them, and the tasks that play the games.                  *)
(*                                                                         *)
(*   backend/app/matches/repository.py   the tables, one commit per call   *)
(*   backend/app/matches/manager.py      start, stop, close, task table    *)
(*   backend/app/matches/runner.py       the game loop                     *)
(*   backend/app/main.py                 recovery first, close last        *)
(*                                                                         *)
(* One step is one stretch of a coroutine between two awaits, cut once     *)
(* more where it commits twice, since a crash can fall between: after      *)
(* append_move_if_running the game is at the head of its loop ("loop"),    *)
(* and nothing else runs on the event loop until it awaits its player.     *)
(* DELETE and PATCH are served by threads and can run at any point.        *)
(***************************************************************************)
EXTENDS Naturals, Sequences, FiniteSets

CONSTANTS
    Matches,          \* match ids, each a fresh uuid4 of one start
    Folders,          \* folders, named apart by their NOCASE UNIQUE name
    NoFolder,
    Callers,          \* requests that may be in MatchManager.start at a time
    MaxActive,        \* MatchSettings.max_active
    OverrunsCancel,   \* may a player's choose_move outlive its cancellation?
    MaxPly,           \* bound: half-moves after which a game is over
    MaxFaults         \* bound: crashes and writes that SQLite refuses

ASSUME DeskAssumption ==
    /\ IsFiniteSet(Matches)
    /\ "idle" \notin Folders \cup {NoFolder}
    /\ MaxActive \in Nat \ {0}
    /\ OverrunsCancel \in BOOLEAN
    /\ MaxPly \in Nat
    /\ MaxFaults \in Nat

Verdicts == {"completed", "stopped", "failed"}
Statuses == {"absent", "running", "deleted"} \cup Verdicts
Event == [phase: {"plan", "act", "verify"}, ply: Nat,
          status: {"active", "complete", "failed"}]
Filing == Folders \cup {NoFolder}
Row == [status: Statuses, moves: Nat, plies: SUBSET Nat, events: Seq(Event),
        folder: Filing]

VARIABLES
    row,        \* [Matches -> a row of matches with its positions and events]
    folders,    \* the rows of game_folders
    process,    \* the backend: down, recovering, serving, closing
    starting,   \* [Callers -> the folder a started match goes to, or "idle"]
    pc,         \* [Matches -> where the task of a match is]
    board,      \* [Matches -> len(board.move_stack) of its task]
    cancelled,  \* [Matches -> its event is set and its task.cancel() called]
    tasks,      \* the keys of MatchManager._tasks
    faults      \* faults injected so far

vars == <<row, folders, process, starting, pc, board, cancelled, tasks, faults>>
memory == <<starting, pc, board, cancelled, tasks>>

Active == {m \in Matches : row[m].status = "running"}
Live(m) == pc[m] # "none"

----------------------------------------------------------------------------
(* The tables.  A deleted id never comes back: ids are uuid4s.             *)

NoMatch == [status |-> "absent", moves |-> 0, plies |-> {}, events |-> <<>>,
            folder |-> NoFolder]
Deleted == [NoMatch EXCEPT !.status = "deleted"]

Noted(events, phase, ply, status) ==
    Append(events, [phase |-> phase, ply |-> ply, status |-> status])

\* UPDATE events SET status = ... WHERE status = 'active'
Settled(events, status) ==
    [i \in DOMAIN events |->
        IF events[i].status = "active" THEN [events[i] EXCEPT !.status = status]
                                       ELSE events[i]]

Created(f) == [status |-> "running", moves |-> 0, plies |-> {0}, events |-> <<>>,
               folder |-> f]

Turned(r, ply) ==
    IF r.status = "running"
    THEN [r EXCEPT !.events = Noted(@, "plan", ply, "active")] ELSE r

UncountedAppended(r, ply) ==
    IF r.status = "running"
    THEN [r EXCEPT !.plies = @ \cup {ply},
                   !.events = Noted(Settled(@, "complete"), "act", ply, "complete")]
    ELSE r
UnsettledAppended(r, ply) ==
    IF r.status = "running"
    THEN [r EXCEPT !.plies = @ \cup {ply}, !.moves = ply,
                   !.events = Noted(@, "act", ply, "complete")]
    ELSE r
Appended(r, ply) ==
    IF r.status = "running"
    THEN [r EXCEPT !.plies = @ \cup {ply}, !.moves = ply,
                   !.events = Noted(Settled(@, "complete"), "act", ply, "complete")]
    ELSE r

UnguardedFinished(r, verdict) ==
    LET status == IF verdict = "failed" THEN "failed" ELSE "complete"
    IN  IF r.status \notin {"absent", "deleted"}
        THEN [r EXCEPT !.status = verdict,
                       !.events = Noted(Settled(@, status), "verify", r.moves, status)]
        ELSE r
Finished(r, verdict) ==
    LET status == IF verdict = "failed" THEN "failed" ELSE "complete"
    IN  IF r.status = "running"
        THEN [r EXCEPT !.status = verdict,
                       !.events = Noted(Settled(@, status), "verify", r.moves, status)]
        ELSE r

----------------------------------------------------------------------------
(* The event loop.                                                         *)

OnLoop == process = "serving" /\ \A m \in Matches : pc[m] # "loop"
Faults(n) == faults + n <= MaxFaults /\ faults' = faults + n

\* The task of m ends: _execute's finally.
Ends(m) ==
    /\ pc' = [pc EXCEPT ![m] = "none"]
    /\ board' = [board EXCEPT ![m] = 0]
    /\ cancelled' = [cancelled EXCEPT ![m] = FALSE]
    /\ tasks' = tasks \ {m}
    /\ UNCHANGED <<folders, process, starting>>

SilentFailsAfter(m, n) == Faults(n) /\ UNCHANGED row /\ Ends(m)

\* _execute's handler of an exception, after n refused writes: fail the match.
\* If SQLite refuses that write too, the row is left as it is.
FailsAfter(m, n) ==
    /\ \/ Faults(n) /\ row' = [row EXCEPT ![m] = Finished(@, "failed")]
       \/ Faults(n + 1) /\ UNCHANGED row
    /\ Ends(m)

\* The game concludes itself; a refused write is an exception like any other.
Concludes(m, verdict) ==
    \/ Faults(0) /\ row' = [row EXCEPT ![m] = Finished(@, verdict)] /\ Ends(m)
    \/ FailsAfter(m, 1)

----------------------------------------------------------------------------
(* MatchManager.start, under its lock: the limit and the folder are        *)
(* looked at, then the players' model is resolved over the network, then   *)
(* the match is inserted and its task created.                             *)

UnlockedStartCheck(c, f) ==
    /\ OnLoop
    /\ starting[c] = "idle"
    /\ Cardinality(Active) < MaxActive
    /\ f \in folders \cup {NoFolder}
    /\ starting' = [starting EXCEPT ![c] = f]
    /\ UNCHANGED <<row, folders, process, pc, board, cancelled, tasks, faults>>

StartCheck(c, f) ==
    /\ OnLoop
    /\ \A d \in Callers : starting[d] = "idle"
    /\ Cardinality(Active) < MaxActive
    /\ f \in folders \cup {NoFolder}
    /\ starting' = [starting EXCEPT ![c] = f]
    /\ UNCHANGED <<row, folders, process, pc, board, cancelled, tasks, faults>>

\* The model cannot be resolved, or the insert is refused.
StartFails(c) ==
    /\ OnLoop
    /\ starting[c] # "idle"
    /\ Faults(0) \/ Faults(1)
    /\ starting' = [starting EXCEPT ![c] = "idle"]
    /\ UNCHANGED <<row, folders, process, pc, board, cancelled, tasks>>

UnfiledStartCreate(c, m) ==
    /\ OnLoop
    /\ starting[c] # "idle"
    /\ row[m].status = "absent"
    /\ starting' = [starting EXCEPT ![c] = "idle"]
    /\ row' = [row EXCEPT ![m] = Created(starting'[c])]
    /\ pc' = [pc EXCEPT ![m] = "loop"]
    /\ board' = [board EXCEPT ![m] = 0]
    /\ tasks' = tasks \cup {m}
    /\ UNCHANGED <<folders, process, cancelled, faults>>

\* The new task takes its first step before any request can name its match.
StartCreate(c, m) ==
    /\ OnLoop
    /\ starting[c] # "idle"
    /\ row[m].status = "absent"
    /\ row' = [row EXCEPT ![m] = Created(starting[c])]
    /\ starting' = [starting EXCEPT ![c] = "idle"]
    /\ pc' = [pc EXCEPT ![m] = "loop"]
    /\ board' = [board EXCEPT ![m] = 0]
    /\ tasks' = tasks \cup {m}
    /\ UNCHANGED <<folders, process, cancelled, faults>>

----------------------------------------------------------------------------
(* MatchRunner.run.  Nothing is awaited between a commit and the head of   *)
(* the loop, so `cancelled' is still clear there.                          *)

Running(m) == process \in {"serving", "closing"}
              /\ \A o \in Matches : pc[o] = "loop" => o = m

\* The rules end the game; MaxPly stands for the longest game.
GameOver(m) ==
    /\ pc[m] = "loop" /\ Running(m)
    /\ board[m] > 0
    /\ Concludes(m, "completed")

Turn(m) ==
    /\ pc[m] = "loop" /\ Running(m)
    /\ board[m] < MaxPly
    /\ IF row[m].status = "running"
       THEN /\ row' = [row EXCEPT ![m] = Turned(@, board[m])]
            /\ pc' = [pc EXCEPT ![m] = "thinking"]
            /\ UNCHANGED <<folders, process, starting, board, cancelled, tasks, faults>>
       ELSE Ends(m) /\ UNCHANGED <<row, faults>>

TurnFails(m) ==
    /\ pc[m] = "loop" /\ Running(m)
    /\ board[m] < MaxPly
    /\ FailsAfter(m, 1)

\* The player's answer arrives: a legal move, which is committed.
Play(m) ==
    /\ pc[m] = "thinking" /\ Running(m)
    /\ cancelled[m] => OverrunsCancel
    /\ IF cancelled[m]
       THEN Concludes(m, "stopped")
       ELSE IF row[m].status = "running"
       THEN /\ row' = [row EXCEPT ![m] = Appended(@, board[m] + 1)]
            /\ board' = [board EXCEPT ![m] = @ + 1]
            /\ pc' = [pc EXCEPT ![m] = "loop"]
            /\ UNCHANGED <<folders, process, starting, cancelled, tasks, faults>>
       ELSE Ends(m) /\ UNCHANGED <<row, faults>>

\* The player raises, its move is illegal or its SAN and UCI disagree (0), or
\* the commit is refused (1).
PlayFails(m) ==
    /\ pc[m] = "thinking" /\ Running(m)
    /\ cancelled[m] => OverrunsCancel
    /\ \/ FailsAfter(m, 0)
       \/ ~cancelled[m] /\ FailsAfter(m, 1)

UnstoppedCancelled(m) ==
    /\ pc[m] = "thinking" /\ Running(m)
    /\ cancelled[m]
    /\ Faults(0) /\ UNCHANGED row
    /\ Ends(m)

\* CancelledError is raised at the await; a refused write leaves the row.
Cancelled(m) ==
    /\ pc[m] = "thinking" /\ Running(m)
    /\ cancelled[m]
    /\ \/ Faults(0) /\ row' = [row EXCEPT ![m] = Finished(@, "stopped")]
       \/ Faults(1) /\ UNCHANGED row
    /\ Ends(m)

----------------------------------------------------------------------------
(* The other requests.                                                     *)

UntoldStop(m) ==
    /\ OnLoop
    /\ row[m].status = "running"
    /\ \/ Faults(0) /\ row' = [row EXCEPT ![m] = Finished(@, "stopped")]
       \/ Faults(1) /\ UNCHANGED row
    /\ UNCHANGED <<folders, process, starting, pc, board, cancelled, tasks>>

\* The task is told first; the row is stopped even if there is no task.
Stop(m) ==
    /\ OnLoop
    /\ row[m].status = "running"
    /\ cancelled' = [cancelled EXCEPT ![m] = m \in tasks]
    /\ \/ Faults(0) /\ row' = [row EXCEPT ![m] = Finished(@, "stopped")]
       \/ Faults(1) /\ UNCHANGED row
    /\ UNCHANGED <<folders, process, starting, pc, board, tasks>>

AnyDeleteMatch(m) ==
    /\ process = "serving"
    /\ row[m].status \in {"running"} \cup Verdicts
    /\ row' = [row EXCEPT ![m] = Deleted]
    /\ UNCHANGED <<folders, process, faults, memory>>

DeleteMatch(m) ==
    /\ process = "serving"
    /\ row[m].status \in Verdicts
    /\ row' = [row EXCEPT ![m] = Deleted]
    /\ UNCHANGED <<folders, process, faults, memory>>

CreateFolder(f) ==
    /\ process = "serving"
    /\ f \notin folders
    /\ folders' = folders \cup {f}
    /\ UNCHANGED <<row, process, faults, memory>>

AssignFolder(m, f) ==
    /\ process = "serving"
    /\ row[m].status \in {"running"} \cup Verdicts
    /\ f \in folders \cup {NoFolder}
    /\ row' = [row EXCEPT ![m].folder = f]
    /\ UNCHANGED <<folders, process, faults, memory>>

----------------------------------------------------------------------------
(* The process.                                                            *)

\* MatchManager.close, once no request is pending: every match of the task
\* table is stopped and its task cancelled, then the tasks are awaited.
Close ==
    /\ OnLoop
    /\ \A c \in Callers : starting[c] = "idle"
    /\ row' = [m \in Matches |-> IF m \in tasks THEN Finished(row[m], "stopped")
                                                ELSE row[m]]
    /\ cancelled' = [m \in Matches |-> m \in tasks]
    /\ process' = "closing"
    /\ UNCHANGED <<folders, starting, pc, board, tasks, faults>>

Gone ==
    /\ process' = "down"
    /\ starting' = [c \in Callers |-> "idle"]
    /\ pc' = [m \in Matches |-> "none"]
    /\ board' = [m \in Matches |-> 0]
    /\ cancelled' = [m \in Matches |-> FALSE]
    /\ tasks' = {}

Exit ==
    /\ process = "closing"
    /\ \A m \in tasks : ~Live(m)
    /\ Gone
    /\ UNCHANGED <<row, folders, faults>>

\* The process dies: killed, or close or the recovery met a refused write.
\* What close had stopped by then stays stopped.
Crash ==
    /\ process # "down"
    /\ Faults(1)
    /\ Gone
    /\ UNCHANGED <<row, folders>>

CloseFails(stopped) ==
    /\ OnLoop
    /\ \A c \in Callers : starting[c] = "idle"
    /\ Faults(1)
    /\ row' = [m \in Matches |-> IF m \in stopped THEN Finished(row[m], "stopped")
                                                  ELSE row[m]]
    /\ Gone
    /\ UNCHANGED folders

Boot ==
    /\ process = "down"
    /\ process' = "recovering"
    /\ UNCHANGED <<row, folders, faults, memory>>

\* recover_interrupted fails the matches one by one.
Recover(m) ==
    /\ process = "recovering"
    /\ row[m].status = "running"
    /\ row' = [row EXCEPT ![m] = Finished(@, "failed")]
    /\ UNCHANGED <<folders, process, faults, memory>>

HastyRecovered ==
    /\ process = "recovering"
    /\ process' = "serving"
    /\ UNCHANGED <<row, folders, faults, memory>>
Recovered ==
    /\ process = "recovering"
    /\ Active = {}
    /\ process' = "serving"
    /\ UNCHANGED <<row, folders, faults, memory>>

----------------------------------------------------------------------------
(* The specification. *)

Init ==
    /\ row = [m \in Matches |-> NoMatch]
    /\ folders = {}
    /\ process = "recovering"
    /\ starting = [c \in Callers |-> "idle"]
    /\ pc = [m \in Matches |-> "none"]
    /\ board = [m \in Matches |-> 0]
    /\ cancelled = [m \in Matches |-> FALSE]
    /\ tasks = {}
    /\ faults = 0

Step(m) == GameOver(m) \/ Turn(m) \/ TurnFails(m) \/ Play(m) \/ PlayFails(m)
           \/ Cancelled(m)

Next ==
    \/ \E c \in Callers : \/ \E f \in Filing : StartCheck(c, f)
                          \/ StartFails(c)
                          \/ \E m \in Matches : StartCreate(c, m)
    \/ \E m \in Matches : \/ Step(m)
                          \/ Stop(m)
                          \/ DeleteMatch(m)
                          \/ \E f \in Filing : AssignFolder(m, f)
                          \/ Recover(m)
    \/ \E f \in Folders : CreateFolder(f)
    \/ \E stopped \in SUBSET tasks : CloseFails(stopped)
    \/ Close \/ Exit \/ Crash \/ Boot \/ Recovered

Spec == Init /\ [][Next]_vars

\* The event loop runs what is ready, a player's turn ends (its calls have
\* time limits and its loops budgets), and a process that is down is booted
\* and recovers.  Users, faults and shutdowns are free.
FairSpec ==
    /\ Spec
    /\ \A m \in Matches : WF_vars(Step(m)) /\ WF_vars(Recover(m))
    /\ \A c \in Callers :
           WF_vars(StartFails(c) \/ \E m \in Matches : StartCreate(c, m))
    /\ WF_vars(Exit) /\ WF_vars(Boot) /\ WF_vars(Recovered)

----------------------------------------------------------------------------
(* Properties. *)

\* Every variable has its type.
TypeOK ==
    /\ row \in [Matches -> Row]
    /\ folders \subseteq Folders
    /\ process \in {"down", "recovering", "serving", "closing"}
    /\ starting \in [Callers -> Filing \cup {"idle"}]
    /\ pc \in [Matches -> {"none", "loop", "thinking"}]
    /\ board \in [Matches -> Nat]
    /\ cancelled \in [Matches -> BOOLEAN]
    /\ tasks \subseteq Matches
    /\ faults \in Nat

\* MATCH_MAX_ACTIVE matches at most are active, although the limit is looked at
\* before an await and the match is inserted after it (manager.py:61-84).
AdmissionLimit == Cardinality(Active) <= MaxActive

\* The stored positions of a match are those of every ply up to move_count, so
\* that the replay has no hole and no extra ply (repository.py:357-392).
PliesAreContiguous ==
    \A m \in Matches : row[m].status \in {"running"} \cup Verdicts =>
        row[m].plies = 0..row[m].moves

\* The events of a match are a trace a reader can follow: only the last can
\* be active, it announces the move that comes next, and only while the match
\* runs; "Match completed/stopped/failed" stands last, once, and in every
\* finished match (set_turn, append_move_if_running and _finish together).
OrderlyTrace(r) ==
    /\ \A i \in DOMAIN r.events :
        /\ r.events[i].status = "active" =>
               /\ i = Len(r.events)
               /\ r.status = "running"
               /\ r.events[i].phase = "plan" /\ r.events[i].ply = r.moves
        /\ r.events[i].phase = "verify" =>
               i = Len(r.events) /\ r.status \in Verdicts
    /\ r.status \in Verdicts =>
        /\ Len(r.events) > 0
        /\ r.events[Len(r.events)].phase = "verify"
TracesAreOrderly == \A m \in Matches : OrderlyTrace(row[m])

\* A task that outlives its match has been told: it can only wind up, and the
\* match that is started meanwhile is safe from it (manager.py:114-120).
StaleTasksAreTold ==
    \A m \in Matches : Live(m) /\ row[m].status # "running" => cancelled[m]

\* The board in memory and the stored match agree as long as the match runs:
\* no move is played but not stored, or stored twice (runner.py:74-84).
BoardIsTheBook ==
    \A m \in Matches : Live(m) /\ row[m].status = "running" =>
        board[m] = row[m].moves

\* A running match that no task plays comes only from a crash or a refused
\* write: no request, answer, cancellation or shutdown loses a task by itself,
\* and a match is never left to run without one (manager.py:99-134).
Abandoned(m) == row[m].status = "running" /\ ~Live(m)
OnlyFaultsAbandon ==
    [][\A m \in Matches : ~Abandoned(m) /\ Abandoned(m)' => faults' > faults]_vars

\* A finished match never changes, whatever its task, a late answer, a second
\* stop, a shutdown or a recovery still does: it is filed in another folder or
\* deleted as a whole (the guards of _finish and append_move_if_running).
FinishedIsFrozen ==
    [][\A m \in Matches : row[m].status \in Verdicts =>
           \/ row'[m] = Deleted
           \/ \E f \in Filing : row'[m] = [row[m] EXCEPT !.folder = f]]_vars

\* The desk keeps the book MatchBook describes.
Page == [m \in Matches |-> [status |-> row[m].status, moves |-> row[m].moves]]
Book == INSTANCE MatchBook WITH page <- Page
ImplementsBook == Book!Spec

\* A stop ends its match although SQLite refuses to store it, or the process
\* dies: the task's own handler, or the recovery, stores it again, and a player
\* that answers nevertheless changes nothing (manager.py:99-121).
StopIsObeyed ==
    \A m \in Matches : cancelled[m] ~> row[m].status # "running"

\* A match that a shutdown or a crash interrupts is over when the backend serves
\* again: it neither stays running nor blocks the next start (main.py:40).
RestartEndsMatches ==
    \A m \in Matches : process # "serving" /\ row[m].status = "running"
                       ~> row[m].status # "running"

\* docs/match-runner.md:15-16: the manager owns "conversion of runner exceptions
\* into durable failed records".  The code writes the record once.
EveryMatchEnds ==
    \A m \in Matches : row[m].status = "running" ~> row[m].status # "running"

----------------------------------------------------------------------------
(* The inductive invariant. *)

\* A match that is not there has nothing stored; one that is has a whole replay
\* and an orderly trace.
RowOK(r) ==
    /\ r.status \in {"absent", "deleted"} =>
           r.moves = 0 /\ r.plies = {} /\ r.events = <<>>
    /\ r.status \in {"running"} \cup Verdicts => r.plies = 0..r.moves
    /\ OrderlyTrace(r)

NoTurnAnnounced(r) == \A i \in DOMAIN r.events : r.events[i].status # "active"

\* A task belongs to a match of this process and knows where the match stands;
\* at the head of its loop the match runs and no turn is announced.
TaskOK(m) ==
    /\ Live(m) <=> m \in tasks
    /\ Live(m) => process \in {"serving", "closing"}
    /\ Live(m) => row[m].status # "absent"
    /\ Live(m) /\ row[m].status # "running" => cancelled[m]
    /\ Live(m) /\ row[m].status = "running" => board[m] = row[m].moves
    /\ cancelled[m] => pc[m] = "thinking"
    /\ pc[m] = "loop" => NoTurnAnnounced(row[m])

\* One start at a time is past the limit, and the limit still holds for it.
StartInv ==
    /\ \A c, d \in Callers : starting[c] # "idle" /\ starting[d] # "idle" => c = d
    /\ \A c \in Callers : starting[c] # "idle" =>
           process = "serving" /\ Cardinality(Active) < MaxActive

LoopInv == \A m, o \in Matches : pc[m] = "loop" /\ pc[o] = "loop" => m = o

IInv ==
    /\ TypeOK
    /\ AdmissionLimit
    /\ StartInv
    /\ LoopInv
    /\ \A m \in Matches : RowOK(row[m]) /\ TaskOK(m)
=============================================================================
