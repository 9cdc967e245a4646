---------------------------- MODULE QueueLedger ----------------------------
(***************************************************************************)
(* What the positional queue promises about its attempts, without leases,  *)
(* processes, transactions or faults: batches are scheduled one at a time, *)
(* one attempt is underway at a time, an attempt happens at most once, and *)
(* a grade, once given, stays.  PositionQueue implements this module.      *)
(***************************************************************************)
EXTENDS Naturals

CONSTANT Run    \* the attempts there can be, each with a queue and a position

VARIABLES
    phase,      \* [Run -> Phases]
    graded      \* the attempts that have a completed evaluation

Phases == {"absent", "waiting", "underway", "settled", "gone"}

LedgerTypeOK ==
    /\ phase \in [Run -> Phases]
    /\ graded \subseteq Run

Idle == \A r \in Run : phase[r] \notin {"waiting", "underway"}
Moved(rows, to) == phase' = [r \in Run |-> IF r \in rows THEN to ELSE phase[r]]

\* A new batch, or the retries of an old one: attempts that never were, of
\* one queue and at different positions, when nothing else is pending.
Schedule(rows) ==
    /\ Idle
    /\ rows # {}
    /\ \A r \in rows : phase[r] = "absent"
    /\ \A r, s \in rows : r.queue = s.queue /\ (r.pos = s.pos => r = s)
    /\ Moved(rows, "waiting")
    /\ UNCHANGED graded

\* The first waiting position starts, alone.
Start(r) ==
    /\ phase[r] = "waiting"
    /\ \A s \in Run : phase[s] # "underway"
    /\ \A s \in Run : phase[s] = "waiting" => r.pos <= s.pos
    /\ Moved({r}, "underway")
    /\ UNCHANGED graded

\* The attempt ends, with a grade or without.
Settle(r) ==
    /\ phase[r] = "underway"
    /\ Moved({r}, "settled")
    /\ graded' \in {graded, graded \cup {r}}

\* A grade that arrives after its attempt was given up still counts.
GradeLate(r) ==
    /\ phase[r] = "settled"
    /\ graded' = graded \cup {r}
    /\ UNCHANGED phase

\* A stop gives up all that waits.
Skip ==
    /\ Moved({r \in Run : phase[r] = "waiting"}, "settled")
    /\ UNCHANGED graded

\* History is deleted, with its grades, only after it is settled.
Remove(rows) ==
    /\ \A r \in rows : phase[r] = "settled"
    /\ Moved(rows, "gone")
    /\ graded' = graded \ rows

Init == phase = [r \in Run |-> "absent"] /\ graded = {}

Next ==
    \/ \E rows \in SUBSET Run : Schedule(rows) \/ Remove(rows)
    \/ \E r \in Run : Start(r) \/ Settle(r) \/ GradeLate(r)
    \/ Skip

Spec == Init /\ [][Next]_<<phase, graded>>
=============================================================================
