----------------------------- MODULE MatchBook -----------------------------
(***************************************************************************)
(* What the match desk promises about its games, without tasks, requests,  *)
(* restarts or failed writes: a bounded number of games is open at a time, *)
(* an open game grows by one half-move after another, and a closed game    *)
(* keeps its moves and its verdict until it is deleted, for good.          *)
(* MatchDesk implements this module.                                       *)
(***************************************************************************)
EXTENDS Naturals, FiniteSets

CONSTANTS Matches, MaxActive

Verdicts == {"completed", "stopped", "failed"}

VARIABLE page    \* [Matches -> [status, moves]]

Blank == [status |-> "absent", moves |-> 0]
OpenGames == {m \in Matches : page[m].status = "running"}

Open(m) ==
    /\ page[m] = Blank
    /\ Cardinality(OpenGames) < MaxActive
    /\ page' = [page EXCEPT ![m].status = "running"]

Play(m) ==
    /\ page[m].status = "running"
    /\ page' = [page EXCEPT ![m].moves = @ + 1]

Close(m) ==
    /\ page[m].status = "running"
    /\ \E v \in Verdicts : page' = [page EXCEPT ![m].status = v]

\* A shutdown stops several games at once.
StopAll(ms) ==
    /\ \A m \in ms : page[m].status = "running"
    /\ page' = [m \in Matches |-> IF m \in ms
                                  THEN [page[m] EXCEPT !.status = "stopped"]
                                  ELSE page[m]]

Delete(m) ==
    /\ page[m].status \in Verdicts
    /\ page' = [page EXCEPT ![m] = [status |-> "deleted", moves |-> 0]]

Init == page = [m \in Matches |-> Blank]

Next ==
    \/ \E m \in Matches : Open(m) \/ Play(m) \/ Close(m) \/ Delete(m)
    \/ \E ms \in SUBSET Matches : StopAll(ms)

Spec == Init /\ [][Next]_page
=============================================================================
