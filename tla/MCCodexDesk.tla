---------------------------- MODULE MCCodexDesk ----------------------------
(* Small instances of CodexDesk for TLC. *)
EXTENDS CodexDesk, TLC

CONSTANTS direct, job, queued, w1, w2, a1

TwoRuns == {job, queued}
OneQueued == {queued}
TwoWorkers == {w1, w2}
OneAnswer == {a1}
DirectAndJob == {direct, job}
OneDirect == {direct}
OneWorker == {w1}
None == {}
Symmetry == Permutations(TwoWorkers)
=============================================================================
