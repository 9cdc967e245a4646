------------------------------ MODULE PassBook ------------------------------
(***************************************************************************)
(* The recorder a positional run installs for its turn                     *)
(* (positional_testing/recording.py): the row of the pass in progress, as  *)
(* it was last saved.  Number 0 is the recorder before its first pass.     *)
(* Each method is one step: it changes the row and upserts it.             *)
(***************************************************************************)
EXTENDS Integers, Sequences, FiniteSets

NoRow == [number |-> 0, phase |-> "none", status |-> "none", finished |-> FALSE,
          calls |-> <<>>, exchange |-> "none"]

\* begin
Begin(row, phase) ==
    [number |-> row.number + 1, phase |-> phase, status |-> "running",
     finished |-> FALSE, calls |-> <<>>, exchange |-> "none"]

\* capture_input, before the request is sent, and capture_output, before the
\* answer is looked at; save_pass_exchange writes each of them once.
CaptureInput(row)  == IF row.exchange = "none" THEN [row EXCEPT !.exchange = "asked"] ELSE row
CaptureOutput(row) == IF row.exchange = "asked" THEN [row EXCEPT !.exchange = "answered"] ELSE row

\* call: a tool call read from the answer, whether or not it will run.
Listing(call) ==
    [call |-> call, executed |-> FALSE, order |-> 0, error |-> FALSE, rolledBack |-> FALSE]

\* response: every call that can be read is listed, even of a refused answer.
Listed(row, calls) ==
    [row EXCEPT !.calls = [i \in DOMAIN calls |-> Listing(calls[i])]]

\* tool_started looks for the call by name and arguments, then by name among
\* the calls not executed yet, and appends one when neither is listed.
Sought(row, call) ==
    LET free  == {i \in DOMAIN row.calls : ~row.calls[i].executed /\ row.calls[i].call.tool = call.tool}
        exact == {i \in free : row.calls[i].call = call}
        first(found) == CHOOSE i \in found : \A j \in found : i <= j
    IN  IF exact # {} THEN first(exact)
        ELSE IF free # {} THEN first(free)
        ELSE Len(row.calls) + 1

ToolStarted(row, call) ==
    LET i      == Sought(row, call)
        before == Cardinality({j \in DOMAIN row.calls : row.calls[j].executed})
        listed == IF i \in DOMAIN row.calls THEN row.calls ELSE Append(row.calls, Listing(call))
    IN  [row EXCEPT !.calls = [listed EXCEPT ![i].executed = TRUE, ![i].order = before + 1]]

\* tool_finished
ToolFinished(row, i, rejected) ==
    [row EXCEPT !.calls[i].error = rejected]

\* Mutant: the calls undone with a rejected batch keep their results.
OnlyRefusedMarked(row, retried, undone, failing, pending) ==
    LET bad    == retried \/ (failing \cap DOMAIN row.calls) # {}
        status == IF bad THEN "failed"
                  ELSE IF ~pending /\ row.status = "running" THEN "completed"
                  ELSE row.status
    IN  IF row.number = 0 THEN row
        ELSE [row EXCEPT !.status = status, !.finished = @ \/ ~pending]

\* state: a node returned.  retried: its events hold a forced_tool_retry;
\* refused: the batch was refused, after the calls numbered in undone had run
\* (empty when none was undone); failing: the calls whose event is not ok;
\* pending: tools are still to run.
StateSaved(row, retried, undone, failing, pending) ==
    LET marked == [i \in DOMAIN row.calls |->
                     [row.calls[i] EXCEPT !.rolledBack = @ \/ i \in undone,
                                          !.error = @ \/ i \in failing]]
        bad    == retried \/ (failing \cap DOMAIN row.calls) # {}
        status == IF bad THEN "failed"
                  ELSE IF ~pending /\ row.status = "running" THEN "completed"
                  ELSE row.status
    IN  IF row.number = 0 THEN row
        ELSE [row EXCEPT !.calls = marked, !.status = status, !.finished = @ \/ ~pending]

\* Mutant: a finished row can be failed again.
FailAgain(row, rollback) ==
    IF row.number = 0 THEN row ELSE [row EXCEPT !.status = "failed", !.finished = TRUE]

\* fail: never reopens or closes again a row that has been finished.
Fail(row, rollback) ==
    IF row.number = 0 \/ row.finished THEN row
    ELSE [row EXCEPT !.status = "failed", !.finished = TRUE,
                     !.calls = [i \in DOMAIN row.calls |->
                        [row.calls[i] EXCEPT !.rolledBack =
                            @ \/ (rollback /\ row.calls[i].executed /\ ~row.calls[i].error)]]]
=============================================================================
