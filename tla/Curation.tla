------------------------------ MODULE Curation ------------------------------
(***************************************************************************)
(* The curator of the position library (datasets/curate.py): it reads      *)
(* pages of public records in a seeded order, screens them with the        *)
(* engine, appends what it accepts to selected.jsonl, and records how far  *)
(* it came in progress.json; when every quota is full it writes a frozen   *)
(* set of three files.  It can stop anywhere, by a crash, or by an error   *)
(* of the network that nothing catches, and is then launched again.        *)
(*                                                                         *)
(* A download or an analysis is kept in a cache file that is first created *)
(* and then filled: a crash meanwhile leaves an empty or a cut-off file,   *)
(* which every later launch takes for the answer.  An answer in JSON that  *)
(* is cut off cannot be parsed; the export of a game can, and then it      *)
(* reaches the position that a puzzle asks for or it does not.  The        *)
(* counters of rejections, the list of visited pages and the progress      *)
(* printed are left out.                                                   *)
(***************************************************************************)
EXTENDS DatasetRules

CONSTANTS
    PageOrder,      \* [kind |-> the offsets its seeded generator draws, in order]
    PageRows,       \* [kind |-> [offset |-> the records of the page, as shuffled]]
    Streams,        \* [board name |-> [nodes |-> the infos of its analysis]]
    MaxPages,       \* --max-pages
    Dirs,           \* output directories, each written with a seed of its own
    MainDir,        \* the directory, and seed, of the command being resumed
    Shuffled(_, _), \* the place that the seed of a game gives each of its kept boards
    Arrange(_, _),  \* the selected items, bucket by bucket and side by side, each side
                    \* in the order that the seed of a directory gives it
    MaxFaults       \* bound: crashes and failed downloads

Kinds == {"tactical", "quiet"}
Nodes == {"screen", "reference"}
OutputFiles == <<"positions", "evaluations", "manifest">>

IsList(s) == s \in Seq(ToSet(s))

BoardsOf(kind, record) == IF kind = "tactical" THEN {record.board} ELSE ToSet(record.boards)

\* A side to move, a number of replies, and an engine's output for each budget.
BoardKnown(board) ==
    /\ board.turn \in Colors /\ board.replies \in Nat
    /\ \A nodes \in Nodes : /\ IsList(Streams[board.name][nodes])
                            /\ \A info \in ToSet(Streams[board.name][nodes]) : info.depth \in Nat

\* Whichever boards of a game are kept, no two of them get the same place.
Shuffles(game, boards) ==
    \A kept \in SUBSET DOMAIN boards : Shuffled(game, kept) \in Injection(kept, Nat)

ASSUME CurationAssumption ==
    /\ MaxPages \in Nat /\ MaxFaults \in Nat /\ MainDir \in Dirs
    /\ \A kind \in Kinds :
          /\ IsList(PageOrder[kind]) /\ Len(PageOrder[kind]) >= MaxPages
          /\ \A offset \in ToSet(PageOrder[kind]) :
                /\ IsList(PageRows[kind][offset])
                /\ \A record \in ToSet(PageRows[kind][offset]) :
                      /\ kind = "quiet" => /\ IsList(record.boards)
                                            /\ Shuffles(record.game, record.boards)
                      /\ \A board \in BoardsOf(kind, record) : BoardKnown(board)

VARIABLES
    selected,   \* selected.jsonl: the accepted items, in order
    progress,   \* progress.json: [kind |-> <<page, row>>], the next record to read
    cached,     \* cache files that hold an answer
    spoilt,     \* cache files that were created and hold no whole answer
    folder,     \* [dir |-> [file |-> NoFile, EmptyFile or its content]]
    pc,         \* where the process is; "off" when there is none
    at,         \* its place: kind, page, row, the file it writes
    resume,     \* the cursor of the kind as gather found it
    memory,     \* selected, tracked and cursors as the process holds them
    found,      \* the item accept was called with
    givenUp,    \* whether the record just read was given up
    target,     \* the output directory of this launch
    lost,       \* ghost: records passed over because they were given up
    faults      \* bound

disk == <<selected, progress, cached, spoilt>>
process == <<at, resume, memory, found, givenUp, target>>
curationVars == <<disk, process, folder, pc, lost, faults>>

NoFile == [is |-> "missing"]
EmptyFile == [is |-> "empty"]
NoItem == <<"no item">>
NoGame == "no game"

-----------------------------------------------------------------------------
(* The records already taken, as track counts them.                         *)

Nothing == [counts |-> [bucket \in (DOMAIN Quotas) \X Colors |-> 0], games |-> {}, boards |-> {}]

Bucket(row) == <<<<row.phase, row.kind>>, row.board.turn>>

Track(known, row) ==
    [counts |-> [known.counts EXCEPT ![Bucket(row)] = @ + 1],
     games  |-> known.games \cup {row.game},
     boards |-> known.boards \cup {row.board.key}]

\* Mutant: what is on the disk is loaded and not tracked.
LoadedOnly(items, cursors) == [held |-> items, known |-> Nothing, cursors |-> cursors]

Tracked(items) ==
    LET known[n \in 0 .. Len(items)] ==
            IF n = 0 THEN Nothing ELSE Track(known[n - 1], items[n].position)
    IN  known[Len(items)]

Loaded(items, cursors) == [held |-> items, known |-> Tracked(items), cursors |-> cursors]

Kept(mem, item) ==
    [held |-> Append(mem.held, item), known |-> Track(mem.known, item.position),
     cursors |-> mem.cursors]

Needed(known, board, kind) ==
    /\ PhaseOf(board) # "none"
    /\ known.counts[<<<<PhaseOf(board), kind>>, board.turn>>]
           < Quotas[<<PhaseOf(board), kind>>]

Complete(known, kind) ==
    \A bucket \in DOMAIN Quotas, color \in Colors :
        bucket[2] = kind => known.counts[<<bucket, color>>] = Quotas[bucket]

-----------------------------------------------------------------------------
(* The screening of one record.                                             *)

Magnitude(x) == IF x < 0 THEN -x ELSE x

Least(a, b) == IF a < b THEN a ELSE b

Analysed(board, nodes) == CompleteVariations(Streams[board.name][nodes], Least(3, board.replies))

\* analyse raises at a variation that is illegal, before it writes its file.
Illegal(lines) == \E k \in DOMAIN lines : ~lines[k].legal

\* quiet_rejection: some reason to drop a board, whichever comes first.
Rejected(lines) ==
    \/ Len(lines) < 3
    \/ \E k \in DOMAIN lines : lines[k].mate
    \/ Magnitude(lines[1].cp) > 180
    \/ lines[1].forcing
    \/ Cardinality({k \in DOMAIN lines : ~lines[k].forcing}) < 2
    \/ lines[1].cp - lines[2].cp > 100
    \/ lines[1].plies < 8
    \/ Magnitude(lines[1].swing) > 100

AnalysisKey(board, nodes) == <<"analysis", board.name, nodes>>
ExportKey(game) == <<"export", game>>
CountKey(kind) == <<"count", kind>>
PageKey(kind, number) == <<"page", kind, PageOrder[kind][number + 1]>>
InfoKey(kind) == <<"info", kind>>

MakeRow(board, game, kind, mating) ==
    [id |-> <<game, board.name>>, board |-> board, game |-> game, kind |-> kind,
     phase |-> PhaseOf(board), split |-> "train", mating |-> mating]

Item(row, lines) ==
    [position   |-> row,
     evaluation |-> [position |-> row.id, best |-> lines[1].move,
                     moves |-> [k \in DOMAIN lines |-> lines[k].move]]]

\* Mutant: a game that gave a position may give another.
OnlyTheBoard(known, game, board) == board.key \in known.boards

Taken(known, game, board) == game \in known.games \/ board.key \in known.boards

\* How reading a record ends, and the cache files it has the answers of by then.
\* It is given up by an exception, or when its game export is cut off too early.
Passed(keys) == [end |-> "passed", keys |-> keys, item |-> NoItem]
GivesUp(keys) == [end |-> "given_up", keys |-> keys, item |-> NoItem]
Accepts(keys, item) ==
    IF PositionRaises(item.position) THEN GivesUp(keys)
    ELSE [end |-> "accepted", keys |-> keys, item |-> item]

\* Mating puzzles among the accepted tactical rows of a phase, both sides.
MatesIn(items, phase) ==
    Rows(items, LAMBDA i : /\ i.position.phase = phase
                           /\ i.position.kind = "tactical" /\ i.position.mating)

\* Mutant: the cap on mating puzzles is left out.
UncappedPuzzle(mem, p) ==
    /\ p.rated /\ p.setup
    /\ Needed(mem.known, p.board, "tactical") /\ PhaseOf(p.board) \in p.themes
    /\ ~Taken(mem.known, p.game, p.board)

\* The filters of puzzle before it asks for the source game.
WantedPuzzle(mem, p) ==
    /\ p.rated /\ p.setup
    /\ Needed(mem.known, p.board, "tactical") /\ PhaseOf(p.board) \in p.themes
    /\ ~Taken(mem.known, p.game, p.board)
    /\ ~("mate" \in p.themes
            /\ MatesIn(mem.held, PhaseOf(p.board)) >= Quotas[<<PhaseOf(p.board), "tactical">>])

Puzzle(mem, p, broken) ==
    LET export == ExportKey(p.game)
        study  == AnalysisKey(p.board, "reference")
        lines  == Analysed(p.board, "reference")
    IN  IF ~WantedPuzzle(mem, p) THEN Passed(<<>>)
        ELSE IF export \in broken THEN GivesUp(<<>>)
        ELSE IF ~p.matches \/ p.board.over \/ ~p.solved THEN Passed(<<export>>)
        ELSE IF study \in broken \/ Illegal(lines) THEN GivesUp(<<export>>)
        ELSE IF lines = <<>> \/ Head(lines).move # p.answer THEN Passed(<<export, study>>)
        ELSE Accepts(<<export, study>>,
                     Item(MakeRow(p.board, p.game, "tactical", "mate" \in p.themes), lines))

\* The boards of a game that quiet_game keeps.
Eligible(known, board) ==
    /\ board.fullmove >= 6
    /\ Needed(known, board, "quiet")
    /\ ~board.check /\ board.pieces >= 8 /\ board.replies >= 6
    /\ Magnitude(board.balance) <= 300
    /\ ~board.over
    /\ board.key \notin known.boards

\* The first six of the boards that were kept, taking the phases in turn.
Sampled(boards, kept, place) ==
    LET turn(i)   == CASE PhaseOf(boards[i]) = "endgame" -> 1
                       [] PhaseOf(boards[i]) = "middlegame" -> 2
                       [] OTHER -> 3
        round(i)  == Cardinality({j \in kept : place[j] < place[i] /\ turn(j) = turn(i)})
        before(i) == {j \in kept : \/ round(j) < round(i)
                                   \/ round(j) = round(i) /\ turn(j) < turn(i)}
        nth(k)    == CHOOSE i \in kept : Cardinality(before(i)) = k - 1
    IN  [k \in 1 .. Least(6, Cardinality(kept)) |-> boards[nth(k)]]

Candidates(known, game, boards) ==
    LET kept == {i \in DOMAIN boards : Eligible(known, boards[i])}
    IN  Sampled(boards, kept, Shuffled(game, kept))

\* One board at both budgets; the screening goes on while it is "passed".
Examine(seen, board, game, broken) ==
    LET quickly == AnalysisKey(board, "screen")
        slowly  == AnalysisKey(board, "reference")
        quick   == Analysed(board, "screen")
        slow    == Analysed(board, "reference")
    IN  IF seen.end # "passed" THEN seen
        ELSE IF quickly \in broken \/ Illegal(quick) THEN GivesUp(seen.keys)
        ELSE IF Rejected(quick) THEN Passed(Append(seen.keys, quickly))
        ELSE IF slowly \in broken \/ Illegal(slow) THEN GivesUp(Append(seen.keys, quickly))
        ELSE IF Rejected(slow) \/ Magnitude(slow[1].cp - quick[1].cp) > 40
             THEN Passed(seen.keys \o <<quickly, slowly>>)
        ELSE Accepts(seen.keys \o <<quickly, slowly>>,
                     Item(MakeRow(board, game, "quiet", FALSE), slow))

\* One candidate after the other.
Screened(boards, game, broken) ==
    LET seen[n \in 0 .. Len(boards)] ==
            IF n = 0 THEN Passed(<<>>) ELSE Examine(seen[n - 1], boards[n], game, broken)
    IN  seen[Len(boards)]

QuietGame(mem, g, broken) ==
    IF g.elo < 1600 \/ g.seconds < 600 THEN Passed(<<>>)
    ELSE IF g.game = NoGame THEN GivesUp(<<>>)
    ELSE IF g.game \in mem.known.games THEN Passed(<<>>)
    ELSE IF ~g.standard THEN GivesUp(<<>>)
    ELSE Screened(Candidates(mem.known, g.game, g.boards), g.game, broken)

Read(kind, mem, record, broken) ==
    IF kind = "tactical" THEN Puzzle(mem, record, broken) ELSE QuietGame(mem, record, broken)

-----------------------------------------------------------------------------
(* The process.                                                             *)

PageHere == PageRows[at.kind][PageOrder[at.kind][at.page + 1]]
RecordHere == PageHere[at.row + 1]
Full == Complete(memory.known, at.kind)
\* Game exports that were cut off, any of which may still reach what is asked of it.
CutOff == {key \in spoilt : Head(key) = "export"}
ReadHere(reaching) == Read(at.kind, memory, RecordHere, spoilt \ reaching)

\* What the next step asks the cache for, in order.
Wanted(reaching) ==
    CASE pc = "kind" /\ ~Full -> <<CountKey(at.kind)>>
      [] pc = "page" /\ ~Full /\ at.page < MaxPages -> <<PageKey(at.kind, at.page)>>
      [] pc = "row" /\ ~Full /\ at.row < Len(PageHere) -> ReadHere(reaching).keys
      [] pc = "save" -> <<InfoKey("quiet"), InfoKey("tactical")>>
      [] OTHER -> <<>>

Fetched(keys) == cached' = cached \cup (ToSet(keys) \ spoilt)

WholeLibrary == \A kind \in Kinds : Complete(Loaded(selected, progress).known, kind)

Start == [kind |-> "tactical", page |-> 0, row |-> 0, file |-> 1]

Origin == [kind \in Kinds |-> <<0, 0>>]

InitCuration ==
    /\ selected = <<>>
    /\ progress = Origin
    /\ cached = {} /\ spoilt = {}
    /\ folder = [d \in Dirs |-> [f \in ToSet(OutputFiles) |-> NoFile]]
    /\ pc = "off"
    /\ at = Start
    /\ resume = <<0, 0>>
    /\ memory = Loaded(<<>>, Origin)
    /\ found = NoItem /\ givenUp = FALSE
    /\ target = MainDir
    /\ lost = {} /\ faults = 0

\* The process is gone, with all it held.
Halt ==
    /\ pc' = "off"
    /\ at' = Start
    /\ resume' = <<0, 0>>
    /\ memory' = Loaded(<<>>, Origin)
    /\ found' = NoItem /\ givenUp' = FALSE
    /\ target' = MainDir

\* An unfinished curation is resumed with the command that began it.
Launch(d) ==
    /\ pc = "off"
    /\ d = MainDir \/ WholeLibrary
    /\ pc' = "kind"
    /\ target' = d
    /\ memory' = Loaded(selected, progress)
    /\ at' = [at EXCEPT !.kind = "tactical"]
    /\ UNCHANGED <<disk, folder, resume, found, givenUp, lost, faults>>

\* gather(kind): it looks at the size of the source, and at its own cursor.
BeginKind ==
    /\ pc = "kind" /\ ~Full
    /\ CountKey(at.kind) \notin spoilt
    /\ Fetched(<<CountKey(at.kind)>>)
    /\ resume' = memory.cursors[at.kind]
    /\ at' = [at EXCEPT !.page = memory.cursors[at.kind][1]]
    /\ pc' = "page"
    /\ UNCHANGED <<selected, progress, spoilt, folder, memory, found, givenUp, target, lost, faults>>

\* The quotas of the kind are full, before its first page or after some page.
EndKind ==
    /\ pc \in {"kind", "page"} /\ Full
    /\ IF at.kind = "tactical"
       THEN pc' = "kind" /\ at' = [at EXCEPT !.kind = "quiet"]
       ELSE pc' = "save" /\ UNCHANGED at
    /\ UNCHANGED <<disk, folder, resume, memory, found, givenUp, target, lost, faults>>

BeginPage ==
    /\ pc = "page" /\ ~Full /\ at.page < MaxPages
    /\ PageKey(at.kind, at.page) \notin spoilt
    /\ Fetched(<<PageKey(at.kind, at.page)>>)
    /\ at' = [at EXCEPT !.row = IF at.page = resume[1] THEN resume[2] ELSE 0]
    /\ pc' = "row"
    /\ UNCHANGED <<selected, progress, spoilt, folder, resume, memory, found, givenUp, target, lost,
                   faults>>

\* The cursor moves, and progress.json is replaced by a whole new file.
Checkpoint(page, row) ==
    /\ memory' = [memory EXCEPT !.cursors[at.kind] = <<page, row>>]
    /\ progress' = memory'.cursors

\* The page cannot be had: gather goes on with the next one.
PageUnavailable ==
    /\ pc = "page" /\ ~Full /\ at.page < MaxPages
    /\ PageKey(at.kind, at.page) \notin cached \cup spoilt
    /\ faults < MaxFaults /\ faults' = faults + 1
    /\ Checkpoint(at.page + 1, 0)
    /\ lost' = lost \cup {<<at.kind, at.page, row>> : row \in DOMAIN PageHere}
    /\ at' = [at EXCEPT !.page = @ + 1]
    /\ UNCHANGED <<selected, cached, spoilt, folder, pc, resume, found, givenUp, target>>

EndPage ==
    /\ pc = "row"
    /\ at.row >= Len(PageHere) \/ Full
    /\ Checkpoint(at.page + 1, 0)
    /\ at' = [at EXCEPT !.page = @ + 1]
    /\ pc' = "page"
    /\ UNCHANGED <<selected, cached, spoilt, folder, resume, found, givenUp, target, lost, faults>>

Take(read) ==
    /\ found' = read.item
    /\ givenUp' = (read.end = "given_up")
    /\ pc' = IF read.end = "accepted" THEN "accept" ELSE "mark"
    /\ Fetched(read.keys)

\* puzzle or quiet_game, up to its call of accept.
ReadRecord ==
    /\ pc = "row" /\ at.row < Len(PageHere) /\ ~Full
    /\ \E reaching \in SUBSET CutOff : Take(ReadHere(reaching))
    /\ UNCHANGED <<selected, progress, spoilt, folder, at, resume, memory, target, lost, faults>>

\* The source game of a puzzle cannot be had: the record is given up.
ExportUnavailable ==
    /\ pc = "row" /\ at.row < Len(PageHere) /\ ~Full
    /\ at.kind = "tactical" /\ WantedPuzzle(memory, RecordHere)
    /\ ExportKey(RecordHere.game) \notin cached \cup spoilt
    /\ faults < MaxFaults /\ faults' = faults + 1
    /\ givenUp' = TRUE
    /\ pc' = "mark"
    /\ UNCHANGED <<disk, folder, at, resume, memory, found, target, lost>>

\* accept: the item is on the disk before the process counts it.
Accept ==
    /\ pc = "accept"
    /\ selected' = Append(selected, found)
    /\ memory' = Kept(memory, found)
    /\ found' = NoItem
    /\ pc' = "mark"
    /\ UNCHANGED <<progress, cached, spoilt, folder, at, resume, givenUp, target, lost, faults>>

MarkRecord ==
    /\ pc = "mark"
    /\ Checkpoint(at.page, at.row + 1)
    /\ lost' = IF givenUp THEN lost \cup {<<at.kind, at.page, at.row + 1>>} ELSE lost
    /\ at' = [at EXCEPT !.row = @ + 1]
    /\ givenUp' = FALSE
    /\ pc' = "row"
    /\ UNCHANGED <<selected, cached, spoilt, folder, resume, found, target, faults>>

-----------------------------------------------------------------------------
(* save: the split, its validation and the three files.                     *)

\* Half of each bucket and side, in the order of the seed, is for training.
Positions(items, d) ==
    LET order    == Arrange(d, items)
        side(k)  == Bucket(order[k].position)
        peers(k) == {j \in DOMAIN order : side(j) = side(k)}
        place(k) == Cardinality({j \in peers(k) : j < k})
    IN  [k \in DOMAIN order |->
            [order[k].position EXCEPT !.split = IF place(k) < Cardinality(peers(k)) \div 2
                                                THEN "train" ELSE "test"]]

Evaluations(items, d) ==
    LET order == Arrange(d, items) IN [k \in DOMAIN order |-> order[k].evaluation]

\* The manifest names the seed, and the other two files by their digests.
Content(file, items, d) ==
    CASE file = "positions" -> [rows |-> Positions(items, d)]
      [] file = "evaluations" -> [rows |-> Evaluations(items, d)]
      [] file = "manifest" -> [seed |-> d, positions |-> [rows |-> Positions(items, d)],
                               evaluations |-> [rows |-> Evaluations(items, d)]]

SaveRaises ==
    \/ CollectionRaises(Positions(memory.held, target))
    \/ folder[target]["manifest"] # NoFile
    \/ \E kind \in Kinds : InfoKey(kind) \in spoilt

BeginSave ==
    /\ pc = "save" /\ ~SaveRaises
    /\ Fetched(<<InfoKey("quiet"), InfoKey("tactical")>>)
    /\ at' = [at EXCEPT !.file = 1]
    /\ pc' = "open"
    /\ UNCHANGED <<selected, progress, spoilt, folder, resume, memory, found, givenUp, target, lost,
                   faults>>

OpenFile ==
    /\ pc = "open"
    /\ folder' = [folder EXCEPT ![target][OutputFiles[at.file]] = EmptyFile]
    /\ pc' = "fill"
    /\ UNCHANGED <<disk, process, lost, faults>>

FillFile ==
    /\ pc = "fill"
    /\ LET file == OutputFiles[at.file]
       IN  folder' = [folder EXCEPT ![target][file] = Content(file, memory.held, target)]
    /\ IF at.file < Len(OutputFiles)
       THEN /\ pc' = "open"
            /\ at' = [at EXCEPT !.file = @ + 1]
            /\ UNCHANGED <<resume, memory, found, givenUp, target>>
       ELSE Halt
    /\ UNCHANGED <<disk, lost, faults>>

\* An error that nothing catches: an empty answer of the source, the budget of
\* pages used up, or a set that save refuses.
Exit ==
    /\ \/ pc = "kind" /\ ~Full /\ CountKey(at.kind) \in spoilt
       \/ pc = "page" /\ ~Full /\ at.page >= MaxPages
       \/ pc = "page" /\ ~Full /\ at.page < MaxPages /\ PageKey(at.kind, at.page) \in spoilt
       \/ pc = "save" /\ SaveRaises
    /\ Halt
    /\ UNCHANGED <<disk, folder, lost, faults>>

\* The process dies, or a download that must succeed fails for good.
Crash ==
    /\ pc # "off"
    /\ faults < MaxFaults /\ faults' = faults + 1
    /\ Halt
    /\ UNCHANGED <<disk, folder, lost>>

\* The last file holds its answer by then, or it does not.
FetchedUpTo(keys, i) ==
    /\ keys[i] \notin cached \cup spoilt
    /\ \/ Fetched(SubSeq(keys, 1, i - 1)) /\ spoilt' = spoilt \cup {keys[i]}
       \/ Fetched(SubSeq(keys, 1, i)) /\ UNCHANGED spoilt

CutShort(keys) == \E i \in DOMAIN keys : FetchedUpTo(keys, i)

\* It dies while it fills a cache file.
CrashInCache ==
    /\ faults < MaxFaults /\ faults' = faults + 1
    /\ \E reaching \in SUBSET CutOff : CutShort(Wanted(reaching))
    /\ Halt
    /\ UNCHANGED <<selected, progress, folder, lost>>

CurationNext ==
    \/ \E d \in Dirs : Launch(d)
    \/ BeginKind \/ EndKind \/ BeginPage \/ PageUnavailable \/ EndPage
    \/ ReadRecord \/ ExportUnavailable \/ Accept \/ MarkRecord
    \/ BeginSave \/ OpenFile \/ FillFile
    \/ Exit \/ Crash \/ CrashInCache

-----------------------------------------------------------------------------
(* The pass that a curation interrupted and resumed is compared with.       *)

PageAt(kind, number) == PageRows[kind][PageOrder[kind][number + 1]]

Gained(mem, read) == IF read.end = "accepted" THEN Kept(mem, read.item) ELSE mem

\* One more record, with no cache file spoilt and no crash.
Undisturbed(skipped, mem, place) ==
    LET kind == place[1]
    IN  IF place \in skipped \/ Complete(mem.known, kind)
        THEN mem
        ELSE Gained(mem, Read(kind, mem, PageAt(kind, place[2])[place[3]], {}))

ThroughRows(skipped, mem, kind, number, count) ==
    LET after[n \in 0 .. count] ==
            IF n = 0 THEN mem ELSE Undisturbed(skipped, after[n - 1], <<kind, number, n>>)
    IN  after[count]

ThroughPages(skipped, mem, kind, count) ==
    LET after[n \in 0 .. count] ==
            IF n = 0 THEN mem
            ELSE ThroughRows(skipped, after[n - 1], kind, n - 1, Len(PageAt(kind, n - 1)))
    IN  after[count]

\* The records before a cursor, in the order gather reads them.
Through(skipped, mem, kind, cursor) ==
    ThroughRows(skipped, ThroughPages(skipped, mem, kind, cursor[1]), kind, cursor[1], cursor[2])

\* One launch that reads the records before these cursors, the lost ones left out.
Uninterrupted(puzzles, games) ==
    Through(lost, Through(lost, Loaded(<<>>, Origin), "tactical", puzzles), "quiet", games)

\* The cursor of a kind, or one record further if accept got to it.
ReadSoFar(kind) ==
    LET page == progress[kind][1]
        row  == progress[kind][2]
    IN  {<<page, row>>} \cup
        (IF page < MaxPages /\ row < Len(PageAt(kind, page)) THEN {<<page, row + 1>>} ELSE {})

(* However often a curation is interrupted and resumed, every launch finds,  *)
(* and every record is read with, a selected.jsonl that holds                *)
(* what a single launch would have accepted from the records read so far,    *)
(* those given up left out: nothing twice, nothing forgotten and nothing     *)
(* chosen differently ("Re-run the same command to resume",                  *)
(* docs/position-library.md).  A crash between accept and the checkpoint     *)
(* leaves it one record ahead of the cursor.                                 *)
ResumeIsTransparent ==
    pc \in {"kind", "row"} =>
        \E puzzles \in ReadSoFar("tactical"), games \in ReadSoFar("quiet") :
            selected = Uninterrupted(puzzles, games).held

(* When the last quota fills, whatever was read on the way, the split of     *)
(* every seed passes the validation that save and the importer apply (no     *)
(* game or board twice, exact quotas and sides), so a finished curation can  *)
(* always be written; and at most half the tactical rows of a phase are      *)
(* mating puzzles.                                                           *)
FullSelectionIsBalanced ==
    pc = "save" =>
        /\ \A d \in Dirs : /\ ~CollectionRaises(Positions(memory.held, d))
                           /\ ~EvaluationsRaise(Positions(memory.held, d),
                                                Evaluations(memory.held, d))
        /\ \A bucket \in DOMAIN Quotas :
              bucket[2] = "tactical" => MatesIn(memory.held, bucket[1]) <= Quotas[bucket]
=============================================================================
