--------------------------- MODULE ExchangeLedger ---------------------------
(***************************************************************************)
(* What the Codex bridge promises about one run's exchange of passes: the  *)
(* passes are asked one after another, a pass is answered at most once and *)
(* for good, the harness uses the answer that was accepted and no other,   *)
(* a run that was told to stop asks and accepts nothing more, and a run    *)
(* that is over stays over.  Tokens, retries, workers, timeouts, rows and  *)
(* restarts do not appear.  CodexDesk implements this module.              *)
(***************************************************************************)
EXTENDS Naturals

CONSTANTS Runs, Answers, NoAnswer, MaxPasses

VARIABLES
    phase,     \* [Runs -> "new", "open", "stopping" or "over"]
    asked,     \* [Runs -> passes asked so far]
    answer,    \* [Runs -> [1..MaxPasses -> the accepted answer]]
    used       \* [Runs -> [1..MaxPasses -> the answer the harness went on with]]

ledger == <<phase, asked, answer, used>>

Open(r) ==
    /\ phase[r] = "new"
    /\ phase' = [phase EXCEPT ![r] = "open"]
    /\ UNCHANGED <<asked, answer, used>>

Ask(r) ==
    /\ phase[r] = "open"
    /\ asked[r] < MaxPasses
    /\ asked[r] = 0 \/ used[r][asked[r]] # NoAnswer
    /\ asked' = [asked EXCEPT ![r] = @ + 1]
    /\ UNCHANGED <<phase, answer, used>>

Answer(r, a) ==
    /\ phase[r] = "open"
    /\ asked[r] > 0
    /\ answer[r][asked[r]] = NoAnswer
    /\ answer' = [answer EXCEPT ![r][asked[r]] = a]
    /\ UNCHANGED <<phase, asked, used>>

Use(r) ==
    /\ phase[r] \in {"open", "stopping"}
    /\ asked[r] > 0
    /\ answer[r][asked[r]] # NoAnswer
    /\ used[r][asked[r]] = NoAnswer
    /\ used' = [used EXCEPT ![r][asked[r]] = answer[r][asked[r]]]
    /\ UNCHANGED <<phase, asked, answer>>

\* One event can tell several runs to stop: a watchdog, a shutdown.
Stop(rs) ==
    /\ \A r \in rs : phase[r] = "open"
    /\ phase' = [r \in Runs |-> IF r \in rs THEN "stopping" ELSE phase[r]]
    /\ UNCHANGED <<asked, answer, used>>

\* One event can end several runs: the backend restarts.
End(rs) ==
    /\ \A r \in rs : phase[r] \in {"open", "stopping"}
    /\ phase' = [r \in Runs |-> IF r \in rs THEN "over" ELSE phase[r]]
    /\ UNCHANGED <<asked, answer, used>>

Init ==
    /\ phase = [r \in Runs |-> "new"]
    /\ asked = [r \in Runs |-> 0]
    /\ answer = [r \in Runs |-> [n \in 1..MaxPasses |-> NoAnswer]]
    /\ used = [r \in Runs |-> [n \in 1..MaxPasses |-> NoAnswer]]

Next ==
    \/ \E r \in Runs : Open(r) \/ Ask(r) \/ Use(r) \/ \E a \in Answers : Answer(r, a)
    \/ \E rs \in SUBSET Runs : Stop(rs) \/ End(rs)

Spec == Init /\ [][Next]_ledger
=============================================================================
