-------------------------- MODULE CodexDeskProofs --------------------------
(***************************************************************************)
(* Proofs about CodexDesk, for every set of runs, workers and answers,     *)
(* every limit on runs and on kept sessions, every number of passes and of *)
(* faults.                                                                 *)
(***************************************************************************)
EXTENDS CodexDesk, FiniteSetTheorems, TLAPS

----------------------------------------------------------------------------
(* One run.                                                                *)

\* Its share of SessionTellsTheRow and NoOrphanRows.
OutcomeOK(r) ==
    r \notin torn =>
        /\ status[r] \in Terminal =>
              row[r] = IF status[r] = "completed" THEN "completed" ELSE "failed"
        /\ recovered /\ row[r] = "running" => task[r] \notin {"none", "ready", "done"}

RunOK(r) == LifeOK(r) /\ PassOK(r) /\ RowOK(r) /\ OutcomeOK(r)

\* The step leaves run x alone.
Kept(x) ==
    /\ status'[x] = status[x] /\ stopping'[x] = stopping[x] /\ passNo'[x] = passNo[x]
    /\ pending'[x] = pending[x] /\ accepted'[x] = accepted[x] /\ used'[x] = used[x]
    /\ task'[x] = task[x] /\ row'[x] = row[x] /\ jobs'[x] \in {jobs[x], NoWorker}
    /\ x \in torn' <=> x \in torn
    /\ recovered' = recovered

\* The step neither makes run x active nor undoes what is known of it.
CalmRun(x) ==
    /\ status'[x] \in Live => status[x] \in Live
    /\ status'[x] \in Terminal => status[x] \in Live \cup Terminal
    /\ status[x] # "none" => status'[x] # "none"
    /\ jobs'[x] # NoWorker => jobs[x] # NoWorker
    /\ jobs'[x] = Unclaimed => jobs[x] = Unclaimed
    /\ passNo'[x] >= passNo[x]
    /\ lock' = x /\ task[x] = "entered" => task'[x] = "entered" \/ status'[x] # "none"

\* The step is about run r only, and no worker takes or drops it.
Alone(r) ==
    /\ RunOK(r)' /\ CalmRun(r)
    /\ \A x \in Runs \ {r} : Kept(x)
    /\ lock' \in {lock, NoRun}
    /\ UNCHANGED <<recovered, phase, hand, assigned>>

LEMMA KeptRun ==
    ASSUME NEW x \in Runs, RunOK(x), Kept(x)
    PROVE  RunOK(x)'
<1>1. LifeOK(x)'
  BY DEF RunOK, Kept, LifeOK
<1>2. PassOK(x)'
  BY DEF RunOK, Kept, PassOK
<1>3. RowOK(x)'
  BY DEF RunOK, Kept, RowOK
<1>4. OutcomeOK(x)'
  BY DEF RunOK, Kept, OutcomeOK
<1> QED BY <1>1, <1>2, <1>3, <1>4 DEF RunOK

\* The harness asks for a pass.
LEMMA AskRun ==
    ASSUME TypeOK, NEW r \in Runs, RunOK(r), Ask(r)
    PROVE  Alone(r)
<1> USE DEF Ask, desk, store, TypeOK, Live, Terminal, InTask
<1>1. \A x \in Runs \ {r} : Kept(x)
  BY DEF Kept
<1>2. LifeOK(r)'
  BY DEF RunOK, LifeOK, RowOK
<1>3. PassOK(r)'
  BY CodexAssumption DEF RunOK, PassOK, LifeOK, Passes
<1>4. RowOK(r)'
  BY DEF RunOK, RowOK, LifeOK
<1>5. OutcomeOK(r)'
  BY DEF RunOK, OutcomeOK, LifeOK, RowOK
<1>6. CalmRun(r)
  BY CodexAssumption DEF RunOK, LifeOK, RowOK, CalmRun
<1>7. lock' \in {lock, NoRun} /\ UNCHANGED <<recovered, phase, hand, assigned>>
  BY DEF windows, store, desk
<1> QED BY <1>1, <1>2, <1>3, <1>4, <1>5, <1>6, <1>7 DEF RunOK, Alone

\* An answer is accepted.
LEMMA SubmitRun ==
    ASSUME TypeOK, NEW r \in Runs, NEW n \in Passes, NEW a \in Answers, RunOK(r), Submit(r, n, a)
    PROVE  Alone(r)
<1> USE DEF Submit, desk, store, Sessions, TypeOK, Live, Terminal, InTask
<1>1. \A x \in Runs \ {r} : Kept(x)
  BY DEF Kept
<1>2. LifeOK(r)'
  BY DEF RunOK, LifeOK, RowOK
<1>3. PassOK(r)'
  BY CodexAssumption DEF RunOK, PassOK, LifeOK, Passes
<1>4. RowOK(r)'
  BY DEF RunOK, RowOK, LifeOK
<1>5. OutcomeOK(r)'
  BY DEF RunOK, OutcomeOK, LifeOK, RowOK
<1>6. CalmRun(r)
  BY CodexAssumption DEF RunOK, LifeOK, RowOK, CalmRun
<1>7. lock' \in {lock, NoRun} /\ UNCHANGED <<recovered, phase, hand, assigned>>
  BY DEF windows, store, desk
<1> QED BY <1>1, <1>2, <1>3, <1>4, <1>5, <1>6, <1>7 DEF RunOK, Alone

\* A pass reaches its deadline.
LEMMA PassTimesOutRun ==
    ASSUME TypeOK, NEW r \in Runs, RunOK(r), PassTimesOut(r)
    PROVE  Alone(r)
<1> USE DEF PassTimesOut, desk, store, TypeOK, Live, Terminal, InTask
<1>1. \A x \in Runs \ {r} : Kept(x)
  BY DEF Kept
<1>2. LifeOK(r)'
  BY DEF RunOK, LifeOK, RowOK
<1>3. PassOK(r)'
  BY CodexAssumption DEF RunOK, PassOK, LifeOK, Passes
<1>4. RowOK(r)'
  BY DEF RunOK, RowOK, LifeOK
<1>5. OutcomeOK(r)'
  BY DEF RunOK, OutcomeOK, LifeOK, RowOK
<1>6. CalmRun(r)
  BY CodexAssumption DEF RunOK, LifeOK, RowOK, CalmRun
<1>7. lock' \in {lock, NoRun} /\ UNCHANGED <<recovered, phase, hand, assigned>>
  BY DEF windows, store, desk
<1> QED BY <1>1, <1>2, <1>3, <1>4, <1>5, <1>6, <1>7 DEF RunOK, Alone

\* exchange returns or raises.
LEMMA WakeRun ==
    ASSUME TypeOK, NEW r \in Runs, RunOK(r), Wake(r)
    PROVE  Alone(r)
<1> USE DEF Wake, desk, store, TypeOK, Live, Terminal, InTask
<1>1. \A x \in Runs \ {r} : Kept(x)
  BY DEF Kept
<1>2. LifeOK(r)'
  BY DEF RunOK, LifeOK, RowOK
<1>3. PassOK(r)'
  BY CodexAssumption DEF RunOK, PassOK, LifeOK, Passes
<1>4. RowOK(r)'
  BY DEF RunOK, RowOK, LifeOK
<1>5. OutcomeOK(r)'
  BY DEF RunOK, OutcomeOK, LifeOK, RowOK
<1>6. CalmRun(r)
  BY CodexAssumption DEF RunOK, LifeOK, RowOK, CalmRun
<1>7. lock' \in {lock, NoRun} /\ UNCHANGED <<recovered, phase, hand, assigned>>
  BY DEF windows, store, desk
<1> QED BY <1>1, <1>2, <1>3, <1>4, <1>5, <1>6, <1>7 DEF RunOK, Alone

\* The row is taken over or created.
LEMMA SetupRun ==
    ASSUME TypeOK, NEW r \in Runs, RunOK(r), Setup(r)
    PROVE  Alone(r)
<1> USE DEF Setup, session, desk, TypeOK, Live, Terminal, InTask
<1>1. \A x \in Runs \ {r} : Kept(x)
  BY DEF Kept
<1>2. LifeOK(r)'
  BY DEF RunOK, LifeOK, RowOK
<1>3. PassOK(r)'
  BY CodexAssumption DEF RunOK, PassOK, LifeOK, Passes
<1>4. RowOK(r)'
  BY DEF RunOK, RowOK, LifeOK
<1>5. OutcomeOK(r)'
  BY DEF RunOK, OutcomeOK, LifeOK, RowOK
<1>6. CalmRun(r)
  BY CodexAssumption DEF RunOK, LifeOK, RowOK, CalmRun
<1>7. lock' \in {lock, NoRun} /\ UNCHANGED <<recovered, phase, hand, assigned>>
  BY DEF windows, store, desk
<1> QED BY <1>1, <1>2, <1>3, <1>4, <1>5, <1>6, <1>7 DEF RunOK, Alone

\* The player has its move.
LEMMA DecideRun ==
    ASSUME TypeOK, NEW r \in Runs, RunOK(r), Decide(r)
    PROVE  Alone(r)
<1> USE DEF Decide, session, store, desk, TypeOK, Live, Terminal, InTask
<1>1. \A x \in Runs \ {r} : Kept(x)
  BY DEF Kept
<1>2. LifeOK(r)'
  BY DEF RunOK, LifeOK, RowOK
<1>3. PassOK(r)'
  BY CodexAssumption DEF RunOK, PassOK, LifeOK, Passes
<1>4. RowOK(r)'
  BY DEF RunOK, RowOK, LifeOK
<1>5. OutcomeOK(r)'
  BY DEF RunOK, OutcomeOK, LifeOK, RowOK
<1>6. CalmRun(r)
  BY CodexAssumption DEF RunOK, LifeOK, RowOK, CalmRun
<1>7. lock' \in {lock, NoRun} /\ UNCHANGED <<recovered, phase, hand, assigned>>
  BY DEF windows, store, desk
<1> QED BY <1>1, <1>2, <1>3, <1>4, <1>5, <1>6, <1>7 DEF RunOK, Alone

\* The player raises.
LEMMA GiveUpRun ==
    ASSUME TypeOK, NEW r \in Runs, RunOK(r), GiveUp(r)
    PROVE  Alone(r)
<1> USE DEF GiveUp, session, store, desk, TypeOK, Live, Terminal, InTask
<1>1. \A x \in Runs \ {r} : Kept(x)
  BY DEF Kept
<1>2. LifeOK(r)'
  BY DEF RunOK, LifeOK, RowOK
<1>3. PassOK(r)'
  BY CodexAssumption DEF RunOK, PassOK, LifeOK, Passes
<1>4. RowOK(r)'
  BY DEF RunOK, RowOK, LifeOK
<1>5. OutcomeOK(r)'
  BY DEF RunOK, OutcomeOK, LifeOK, RowOK
<1>6. CalmRun(r)
  BY CodexAssumption DEF RunOK, LifeOK, RowOK, CalmRun
<1>7. lock' \in {lock, NoRun} /\ UNCHANGED <<recovered, phase, hand, assigned>>
  BY DEF windows, store, desk
<1> QED BY <1>1, <1>2, <1>3, <1>4, <1>5, <1>6, <1>7 DEF RunOK, Alone

\* The failure is stored.
LEMMA FailRowRun ==
    ASSUME TypeOK, NEW r \in Runs, RunOK(r), FailRow(r)
    PROVE  Alone(r)
<1> USE DEF FailRow, session, desk, TypeOK, Live, Terminal, InTask
<1>1. \A x \in Runs \ {r} : Kept(x)
  BY DEF Kept
<1>2. LifeOK(r)'
  BY DEF RunOK, LifeOK, RowOK
<1>3. PassOK(r)'
  BY CodexAssumption DEF RunOK, PassOK, LifeOK, Passes
<1>4. RowOK(r)'
  BY DEF RunOK, RowOK, LifeOK
<1>5. OutcomeOK(r)'
  BY DEF RunOK, OutcomeOK, LifeOK, RowOK
<1>6. CalmRun(r)
  BY CodexAssumption DEF RunOK, LifeOK, RowOK, CalmRun
<1>7. lock' \in {lock, NoRun} /\ UNCHANGED <<recovered, phase, hand, assigned>>
  BY DEF windows, store, desk
<1> QED BY <1>1, <1>2, <1>3, <1>4, <1>5, <1>6, <1>7 DEF RunOK, Alone

\* Move and grade are stored.
LEMMA GradeRun ==
    ASSUME TypeOK, NEW r \in Runs, RunOK(r), Grade(r)
    PROVE  Alone(r)
<1> USE DEF Grade, session, desk, TypeOK, Live, Terminal, InTask
<1>1. \A x \in Runs \ {r} : Kept(x)
  BY DEF Kept
<1>2. LifeOK(r)'
  BY DEF RunOK, LifeOK, RowOK
<1>3. PassOK(r)'
  BY CodexAssumption DEF RunOK, PassOK, LifeOK, Passes
<1>4. RowOK(r)'
  BY DEF RunOK, RowOK, LifeOK
<1>5. OutcomeOK(r)'
  BY DEF RunOK, OutcomeOK, LifeOK, RowOK
<1>6. CalmRun(r)
  BY CodexAssumption DEF RunOK, LifeOK, RowOK, CalmRun
<1>7. lock' \in {lock, NoRun} /\ UNCHANGED <<recovered, phase, hand, assigned>>
  BY DEF windows, store, desk
<1> QED BY <1>1, <1>2, <1>3, <1>4, <1>5, <1>6, <1>7 DEF RunOK, Alone

\* The database refuses a call.
LEMMA RefusedRun ==
    ASSUME TypeOK, NEW r \in Runs, RunOK(r), Refused(r)
    PROVE  Alone(r)
<1> USE DEF Refused, session, desk, Fault, TypeOK, Live, Terminal, InTask
<1>1. \A x \in Runs \ {r} : Kept(x)
  BY DEF Kept
<1>2. LifeOK(r)'
  BY DEF RunOK, LifeOK, RowOK
<1>3. PassOK(r)'
  BY CodexAssumption DEF RunOK, PassOK, LifeOK, Passes
<1>4. RowOK(r)'
  BY DEF RunOK, RowOK, LifeOK
<1>5. OutcomeOK(r)'
  BY DEF RunOK, OutcomeOK, LifeOK, RowOK
<1>6. CalmRun(r)
  BY CodexAssumption DEF RunOK, LifeOK, RowOK, CalmRun
<1>7. lock' \in {lock, NoRun} /\ UNCHANGED <<recovered, phase, hand, assigned>>
  BY DEF windows, store, desk
<1> QED BY <1>1, <1>2, <1>3, <1>4, <1>5, <1>6, <1>7 DEF RunOK, Alone

\* The session ends as its row did.
LEMMA FinishStoredRun ==
    ASSUME TypeOK, NEW r \in Runs, RunOK(r), FinishStored(r)
    PROVE  Alone(r)
<1> USE DEF FinishStored, Finish, store, desk, TypeOK, Live, Terminal, InTask
<1>1. \A x \in Runs \ {r} : Kept(x)
  BY DEF Kept
<1>2. LifeOK(r)'
  BY DEF RunOK, LifeOK, RowOK
<1>3. PassOK(r)'
  BY CodexAssumption DEF RunOK, PassOK, LifeOK, Passes
<1>4. RowOK(r)'
  BY DEF RunOK, RowOK, LifeOK
<1>5. OutcomeOK(r)'
  BY DEF RunOK, OutcomeOK, LifeOK, RowOK
<1>6. CalmRun(r)
  BY CodexAssumption DEF RunOK, LifeOK, RowOK, CalmRun
<1>7. lock' \in {lock, NoRun} /\ UNCHANGED <<recovered, phase, hand, assigned>>
  BY DEF windows, store, desk
<1> QED BY <1>1, <1>2, <1>3, <1>4, <1>5, <1>6, <1>7 DEF RunOK, Alone

\* The session ends after an exception.
LEMMA FinishFallenRun ==
    ASSUME TypeOK, NEW r \in Runs, RunOK(r), FinishFallen(r)
    PROVE  Alone(r)
<1> USE DEF FinishFallen, Finish, store, desk, TypeOK, Live, Terminal, InTask
<1>1. \A x \in Runs \ {r} : Kept(x)
  BY DEF Kept
<1>2. LifeOK(r)'
  BY DEF RunOK, LifeOK, RowOK
<1>3. PassOK(r)'
  BY CodexAssumption DEF RunOK, PassOK, LifeOK, Passes
<1>4. RowOK(r)'
  BY DEF RunOK, RowOK, LifeOK
<1>5. OutcomeOK(r)'
  BY DEF RunOK, OutcomeOK, LifeOK, RowOK
<1>6. CalmRun(r)
  BY CodexAssumption DEF RunOK, LifeOK, RowOK, CalmRun
<1>7. lock' \in {lock, NoRun} /\ UNCHANGED <<recovered, phase, hand, assigned>>
  BY DEF windows, store, desk
<1> QED BY <1>1, <1>2, <1>3, <1>4, <1>5, <1>6, <1>7 DEF RunOK, Alone

\* The queue finds a worker ready.
LEMMA QueueReadsRun ==
    ASSUME TypeOK, NEW r \in Runs, RunOK(r), QueueReads(r)
    PROVE  Alone(r)
<1> USE DEF QueueReads, session, store, desk, TypeOK, Live, Terminal, InTask
<1>1. \A x \in Runs \ {r} : Kept(x)
  BY DEF Kept
<1>2. LifeOK(r)'
  BY DEF RunOK, LifeOK, RowOK
<1>3. PassOK(r)'
  BY CodexAssumption DEF RunOK, PassOK, LifeOK, Passes
<1>4. RowOK(r)'
  BY DEF RunOK, RowOK, LifeOK
<1>5. OutcomeOK(r)'
  BY DEF RunOK, OutcomeOK, LifeOK, RowOK
<1>6. CalmRun(r)
  BY CodexAssumption DEF RunOK, LifeOK, RowOK, CalmRun
<1>7. lock' \in {lock, NoRun} /\ UNCHANGED <<recovered, phase, hand, assigned>>
  BY DEF windows, store, desk
<1> QED BY <1>1, <1>2, <1>3, <1>4, <1>5, <1>6, <1>7 DEF RunOK, Alone

\* The queue claims a position.
LEMMA QueueClaimsRun ==
    ASSUME TypeOK, NEW r \in Runs, RunOK(r), QueueClaims(r)
    PROVE  Alone(r)
<1> USE DEF QueueClaims, session, desk, TypeOK, Live, Terminal, InTask
<1>1. \A x \in Runs \ {r} : Kept(x)
  BY DEF Kept
<1>2. LifeOK(r)'
  BY DEF RunOK, LifeOK, RowOK
<1>3. PassOK(r)'
  BY CodexAssumption DEF RunOK, PassOK, LifeOK, Passes
<1>4. RowOK(r)'
  BY DEF RunOK, RowOK, LifeOK
<1>5. OutcomeOK(r)'
  BY DEF RunOK, OutcomeOK, LifeOK, RowOK
<1>6. CalmRun(r)
  BY CodexAssumption DEF RunOK, LifeOK, RowOK, CalmRun
<1>7. lock' \in {lock, NoRun} /\ UNCHANGED <<recovered, phase, hand, assigned>>
  BY DEF windows, store, desk
<1> QED BY <1>1, <1>2, <1>3, <1>4, <1>5, <1>6, <1>7 DEF RunOK, Alone

\* The queue closes the row of an item that ended.
LEMMA QueueFailsRun ==
    ASSUME TypeOK, NEW r \in Runs, RunOK(r), QueueFails(r)
    PROVE  Alone(r)
<1> USE DEF QueueFails, session, desk, TypeOK, Live, Terminal, InTask
<1>1. \A x \in Runs \ {r} : Kept(x)
  BY DEF Kept
<1>2. LifeOK(r)'
  BY DEF RunOK, LifeOK, RowOK
<1>3. PassOK(r)'
  BY CodexAssumption DEF RunOK, PassOK, LifeOK, Passes
<1>4. RowOK(r)'
  BY DEF RunOK, RowOK, LifeOK
<1>5. OutcomeOK(r)'
  BY DEF RunOK, OutcomeOK, LifeOK, RowOK
<1>6. CalmRun(r)
  BY CodexAssumption DEF RunOK, LifeOK, RowOK, CalmRun
<1>7. lock' \in {lock, NoRun} /\ UNCHANGED <<recovered, phase, hand, assigned>>
  BY DEF windows, store, desk
<1> QED BY <1>1, <1>2, <1>3, <1>4, <1>5, <1>6, <1>7 DEF RunOK, Alone

\* A job is about to be enqueued.
LEMMA EnqueueEnterRun ==
    ASSUME TypeOK, NEW r \in Runs, RunOK(r), EnqueueEnter(r)
    PROVE  RunOK(r)' /\ \A x \in Runs \ {r} : Kept(x)
<1> USE DEF EnqueueEnter, session, store, TypeOK, Live, Terminal, InTask
<1>1. \A x \in Runs \ {r} : Kept(x)
  BY DEF Kept
<1>2. LifeOK(r)'
  BY DEF RunOK, LifeOK, RowOK
<1>3. PassOK(r)'
  BY CodexAssumption DEF RunOK, PassOK, LifeOK, Passes
<1>4. RowOK(r)'
  BY DEF RunOK, RowOK, LifeOK
<1>5. OutcomeOK(r)'
  BY DEF RunOK, OutcomeOK, LifeOK, RowOK
<1> QED BY <1>1, <1>2, <1>3, <1>4, <1>5 DEF RunOK

\* The service refuses the session of a job.
LEMMA EnqueueRefusedRun ==
    ASSUME TypeOK, NEW r \in Runs, RunOK(r), EnqueueRefused(r)
    PROVE  Alone(r)
<1> USE DEF EnqueueRefused, session, TypeOK, Live, Terminal, InTask
<1>1. \A x \in Runs \ {r} : Kept(x)
  BY DEF Kept
<1>2. LifeOK(r)'
  BY DEF RunOK, LifeOK, RowOK
<1>3. PassOK(r)'
  BY CodexAssumption DEF RunOK, PassOK, LifeOK, Passes
<1>4. RowOK(r)'
  BY DEF RunOK, RowOK, LifeOK
<1>5. OutcomeOK(r)'
  BY DEF RunOK, OutcomeOK, LifeOK, RowOK
<1>6. CalmRun(r)
  BY CodexAssumption DEF RunOK, LifeOK, RowOK, CalmRun
<1>7. lock' \in {lock, NoRun} /\ UNCHANGED <<recovered, phase, hand, assigned>>
  BY DEF windows, store, desk
<1> QED BY <1>1, <1>2, <1>3, <1>4, <1>5, <1>6, <1>7 DEF RunOK, Alone

\* A session is created: the first one of this backend recovers the rows of the
\* last, and old ones are forgotten.
LEMMA CreateRuns ==
    ASSUME TypeOK, NEW r \in Runs, \A x \in Runs : RunOK(x), ~recovered => Sessions = {},
           CreateSession(r), status[r] = "none",
           r \in QueuedRuns => task[r] = "entered", UNCHANGED jobs
    PROVE  /\ \A x \in Runs : RunOK(x)'
           /\ \A x \in Runs \ {r} : status'[x] \in {status[x], "lost"}
           /\ status'[r] = "starting"
<1> USE DEF CreateSession, TypeOK, Live, Terminal, InTask
<1>1. PICK gone \in SUBSET Runs :
          /\ \A x \in gone : x \in Sessions /\ task[x] = "done"
          /\ status' = [x \in Runs |-> IF x = r THEN "starting"
                                       ELSE IF x \in gone THEN "lost" ELSE status[x]]
  BY DEF Forgettable
<1>2. ASSUME NEW x \in Runs
      PROVE  row'[x] = IF ~recovered /\ row[x] = "running" /\ x \notin QueuedRuns
                       THEN "failed" ELSE row[x]
  BY DEF RecoveredRows
<1>3. ASSUME ~recovered, NEW x \in Runs
      PROVE  status[x] \in {"none", "lost"} /\ task[x] \notin InTask
  BY <1>3 DEF Sessions, RunOK, LifeOK, Seen
<1>4. ASSUME NEW x \in Runs
      PROVE  LifeOK(x)'
  BY <1>1, <1>4 DEF RunOK, LifeOK, Sessions
<1>5. ASSUME NEW x \in Runs
      PROVE  PassOK(x)'
  <2>1. RunOK(x)
    BY <1>5
  <2>2. passNo'[x] = passNo[x] /\ used'[x] = used[x] /\ accepted'[x] = accepted[x]
        /\ pending'[x] = pending[x] /\ (x # r => task'[x] = task[x])
    OBVIOUS
  <2>3. x = r => task'[x] = "setup" /\ passNo[x] = 0
    BY <2>1 DEF RunOK, LifeOK
  <2> QED BY <2>1, <2>2, <2>3 DEF RunOK, PassOK
<1>6. ASSUME NEW x \in Runs
      PROVE  RowOK(x)'
  <2>1. RunOK(x) /\ RunOK(r)
    BY <1>6
  <2>2. CASE x = r
    BY <1>1, <1>2, <2>1, <2>2 DEF RunOK, RowOK, LifeOK
  <2>3. CASE x # r
    BY <1>1, <1>2, <1>3, <2>1, <2>3 DEF RunOK, RowOK, LifeOK, Sessions
  <2> QED BY <2>2, <2>3
<1>7. ASSUME NEW x \in Runs
      PROVE  OutcomeOK(x)'
  <2>1. RunOK(x) /\ RunOK(r)
    BY <1>7
  <2>2. CASE x = r
    BY <1>1, <1>2, <2>1, <2>2 DEF RunOK, OutcomeOK, LifeOK
  <2>3. CASE x # r
    BY <1>1, <1>2, <1>3, <2>1, <2>3 DEF RunOK, OutcomeOK, RowOK, LifeOK
  <2> QED BY <2>2, <2>3
<1>8. \A x \in Runs : RunOK(x)'
  BY <1>4, <1>5, <1>6, <1>7 DEF RunOK
<1> QED BY <1>1, <1>8

\* Some sessions that are worked on are told to stop.
LEMMA CancelledRuns ==
    ASSUME TypeOK, NEW rs \in SUBSET Runs, \A x \in Runs : RunOK(x), Cancelled(rs),
           \A x \in rs : status[x] \in Live,
           UNCHANGED <<task, store, jobs>>
    PROVE  /\ \A x \in Runs : RunOK(x)'
           /\ \A x \in Runs : status'[x] = status[x] \/ {status[x], status'[x]} \subseteq Live
<1> USE DEF Cancelled, TypeOK, Live, Terminal, InTask, store
<1>1. ASSUME NEW x \in Runs
      PROVE  /\ LifeOK(x)'
             /\ status'[x] = status[x] \/ {status[x], status'[x]} \subseteq Live
  BY <1>1 DEF RunOK, LifeOK
<1>2. ASSUME NEW x \in Runs
      PROVE  PassOK(x)'
  BY <1>2 DEF RunOK, PassOK
<1>3. ASSUME NEW x \in Runs
      PROVE  RowOK(x)' /\ OutcomeOK(x)'
  BY <1>1, <1>3 DEF RunOK, RowOK, OutcomeOK
<1> QED BY <1>1, <1>2, <1>3 DEF RunOK

\* The backend is started again.
LEMMA RestartRuns ==
    ASSUME TypeOK, \A x \in Runs : RunOK(x), Restart
    PROVE  (\A x \in Runs : RunOK(x)') /\ Sessions' = {}
<1> USE DEF Restart, TypeOK, Live, Terminal, InTask
<1>1. ASSUME NEW x \in Runs
      PROVE  LifeOK(x)'
  BY <1>1 DEF RunOK, LifeOK, Sessions, Seen
<1>2. ASSUME NEW x \in Runs
      PROVE  PassOK(x)'
  BY <1>2 DEF RunOK, PassOK, Sessions
<1>3. ASSUME NEW x \in Runs
      PROVE  RowOK(x)'
  BY <1>3 DEF RunOK, RowOK, Sessions
<1>4. \A x \in Runs : status'[x] \in {"none", "lost"}
  BY DEF Sessions, Seen
<1>5. ASSUME NEW x \in Runs
      PROVE  OutcomeOK(x)'
  BY <1>4, <1>5 DEF RunOK, OutcomeOK
<1>6. Sessions' = {}
  BY <1>4 DEF Sessions
<1> QED BY <1>1, <1>2, <1>3, <1>5, <1>6 DEF RunOK

----------------------------------------------------------------------------
(* Types.                                                                  *)

SessionTypes ==
    /\ status \in [Runs -> Seen]
    /\ stopping \in [Runs -> BOOLEAN]
    /\ passNo \in [Runs -> 0..MaxPasses]
    /\ pending \in [Runs -> {"none", "open", "answered", "refused", "expired"}]
    /\ accepted \in [Runs -> [Passes -> Answers \cup {NoAnswer}]]
    /\ used \in [Runs -> [Passes -> Answers \cup {NoAnswer}]]

RowTypes ==
    /\ task \in [Runs -> Stages]
    /\ row \in [Runs -> {"none", "running", "completed", "failed"}]
    /\ torn \subseteq Runs /\ recovered \in BOOLEAN /\ closed \in BOOLEAN

DeskTypes ==
    /\ jobs \in [Runs -> Workers \cup {NoWorker, Unclaimed}]
    /\ lock \in Runs \cup {NoRun}
    /\ worker \in Workers \cup {NoWorker} /\ fresh \in BOOLEAN

WindowsTypes ==
    /\ phase \in [Workers -> {"new", "idle", "offered", "poll", "pass", "check",
                              "quit", "off"}]
    /\ hand \in [Workers -> Runs \cup {NoRun}]
    /\ assigned \in [Workers -> 0..MaxPasses]
    /\ cancel \in [Workers -> BOOLEAN] /\ quitting \in [Workers -> BOOLEAN]
    /\ handed \subseteq Runs \X (0..MaxPasses)

\* What a step leaves alone keeps its types.
LEMMA TypeFrame ==
    /\ TypeOK <=> SessionTypes /\ RowTypes /\ DeskTypes /\ WindowsTypes
                       /\ faults \in 0..MaxFaults
    /\ TypeOK' <=> SessionTypes' /\ RowTypes' /\ DeskTypes' /\ WindowsTypes'
                        /\ faults' \in 0..MaxFaults
    /\ SessionTypes /\ UNCHANGED session => SessionTypes'
    /\ RowTypes /\ UNCHANGED <<task, closed, store>> => RowTypes'
    /\ DeskTypes /\ UNCHANGED desk => DeskTypes'
    /\ WindowsTypes /\ UNCHANGED windows => WindowsTypes'
<1>1. SessionTypes /\ UNCHANGED session => SessionTypes'
  BY DEF SessionTypes, session
<1>2. RowTypes /\ UNCHANGED <<task, closed, store>> => RowTypes'
  BY DEF RowTypes, store
<1>3. DeskTypes /\ UNCHANGED desk => DeskTypes'
  BY DEF DeskTypes, desk
<1>4. WindowsTypes /\ UNCHANGED windows => WindowsTypes'
  BY DEF WindowsTypes, windows
<1> QED BY <1>1, <1>2, <1>3, <1>4, Zenon
         DEF TypeOK, SessionTypes, RowTypes, DeskTypes, WindowsTypes

\* A cancellation is well typed.
LEMMA CancelledTypes ==
    ASSUME SessionTypes, NEW rs, Cancelled(rs)
    PROVE  SessionTypes'
<1> QED BY DEF SessionTypes, Cancelled, Seen, Live

\* An answer that is used was accepted for the same pass.
LEMMA WakeTypes ==
    ASSUME TypeOK, NEW r \in Runs, PassOK(r), Wake(r)
    PROVE  TypeOK'
<1>1. SessionTypes /\ RowTypes /\ DeskTypes /\ WindowsTypes /\ faults \in 0..MaxFaults
  BY TypeFrame
<1>2. passNo[r] \in Passes
  BY <1>1, CodexAssumption DEF Wake, PassOK, SessionTypes, Passes
<1>3. accepted[r][passNo[r]] \in Answers \cup {NoAnswer}
  BY <1>1, <1>2 DEF SessionTypes
<1>4. used' \in [Runs -> [Passes -> Answers \cup {NoAnswer}]]
  <2>1. CASE used' = used
    BY <1>1, <2>1 DEF SessionTypes
  <2>2. CASE used' = [used EXCEPT ![r][passNo[r]] = accepted[r][passNo[r]]]
    BY <1>1, <1>2, <1>3, <2>2 DEF SessionTypes
  <2> QED BY <2>1, <2>2 DEF Wake
<1>5. SessionTypes'
  BY <1>1, <1>4 DEF Wake, SessionTypes, Seen, Live
<1>6. RowTypes'
  BY <1>1 DEF Wake, RowTypes, Stages, store
<1>7. UNCHANGED <<desk, windows, faults>>
  BY DEF Wake
<1> QED BY <1>1, <1>5, <1>6, <1>7, TypeFrame

LEMMA HeartbeatTypes ==
    ASSUME TypeOK, NEW w \in Workers, Heartbeat(w)
    PROVE  TypeOK'
<1>1. SessionTypes /\ RowTypes /\ DeskTypes /\ WindowsTypes /\ faults \in 0..MaxFaults
  BY TypeFrame
<1>2. session' = session \/ Cancelled(ActiveJobs)
  BY DEF Heartbeat, Registered
<1>3. SessionTypes'
  BY <1>1, <1>2, CancelledTypes, TypeFrame
<1>4. DeskTypes'
  BY <1>1 DEF Heartbeat, Registered, DeskTypes
<1>5. UNCHANGED <<task, closed, store, phase, hand, assigned, handed, faults>>
  BY DEF Heartbeat
<1>6. /\ quitting' = quitting \/ quitting' = [quitting EXCEPT ![w] = TRUE]
      /\ \E b \in BOOLEAN : cancel' = [cancel EXCEPT ![w] = b]
  <2>1. CASE TurnedAway(w)
    <3>1. cancel' = [cancel EXCEPT ![w] = cancel[w] \/ phase[w] \in Executing]
      BY <2>1, <1>1 DEF Heartbeat, WindowsTypes
    <3>2. (cancel[w] \/ phase[w] \in Executing) \in BOOLEAN
      OBVIOUS
    <3> QED BY <2>1, <3>1, <3>2 DEF Heartbeat
  <2>2. CASE ~TurnedAway(w)
    <3> DEFINE b == \/ cancel[w]
                    \/ /\ phase[w] \in Executing
                       /\ hand[w] \notin ActiveJobs \/ stopping'[hand[w]]
    <3>1. cancel' = [cancel EXCEPT ![w] = b]
      BY <2>2, <1>1 DEF Heartbeat, WindowsTypes
    <3>2. b \in BOOLEAN
      OBVIOUS
    <3> HIDE DEF b
    <3> QED BY <2>2, <3>1, <3>2 DEF Heartbeat
  <2> QED BY <2>1, <2>2
<1>7. WindowsTypes'
  BY <1>1, <1>5, <1>6 DEF WindowsTypes
<1> QED BY <1>1, <1>3, <1>4, <1>5, <1>7, TypeFrame

LEMMA ReportTypes ==
    ASSUME TypeOK, NEW w \in Workers, Report(w)
    PROVE  TypeOK'
<1>1. SessionTypes /\ RowTypes /\ DeskTypes /\ WindowsTypes /\ faults \in 0..MaxFaults
  BY TypeFrame
<1>2. session' = session \/ Cancelled({hand[w]})
  BY DEF Report
<1>3. SessionTypes'
  BY <1>1, <1>2, CancelledTypes, TypeFrame
<1>4. UNCHANGED <<task, closed, store, desk, faults>>
  BY DEF Report
<1>5. WindowsTypes'
  BY <1>1, CodexAssumption DEF Report, Idle, WindowsTypes
<1> QED BY <1>1, <1>3, <1>4, <1>5, TypeFrame

\* A child that ends leaves its worker to look at the run.
LEMMA ChildEndsTypes ==
    ASSUME TypeOK, NEW w \in Workers, ChildEnds(w)
    PROVE  TypeOK'
<1>1. SessionTypes /\ RowTypes /\ DeskTypes /\ WindowsTypes /\ faults \in 0..MaxFaults
  BY TypeFrame
<1>2. /\ UNCHANGED <<backend, hand, assigned, cancel, quitting, handed, faults>>
      /\ \E to \in {"check", "quit"} : phase' = [phase EXCEPT ![w] = to]
  BY DEF ChildEnds, Turn
<1>3. WindowsTypes'
  BY <1>1, <1>2 DEF WindowsTypes
<1> QED BY <1>1, <1>2, <1>3, TypeFrame DEF backend

LEMMA RestartTypes ==
    ASSUME TypeOK, Restart
    PROVE  TypeOK'
<1>1. SessionTypes /\ RowTypes /\ DeskTypes /\ WindowsTypes /\ faults \in 0..MaxFaults
  BY TypeFrame
<1>2. SessionTypes'
  BY <1>1 DEF Restart, SessionTypes, Seen
<1>3. RowTypes'
  BY <1>1 DEF Restart, RowTypes, Stages
<1>4. DeskTypes'
  BY <1>1 DEF Restart, DeskTypes
<1>5. UNCHANGED windows /\ faults' \in 0..MaxFaults
  BY <1>1, CodexAssumption DEF Restart, Fault
<1> QED BY <1>1, <1>2, <1>3, <1>4, <1>5, TypeFrame

\* What a worker has in its hands is a run, so that its passes are numbers.
LEMMA TypeStep ==
    ASSUME TypeOK, \A r \in Runs : PassOK(r) /\ RowOK(r),
           \A w \in Workers : HandOK(w), [Next]_vars
    PROVE  TypeOK'
<1> USE CodexAssumption DEF TypeOK, Passes, Seen, Stages, Terminal, Live,
        session, store, desk, windows, backend
<1>1. CASE UNCHANGED vars
  BY <1>1 DEF vars
<1>2. ASSUME NEW r \in Runs, RunStep(r)
      PROVE  TypeOK'
  <2>1. CASE Setup(r)
    BY <2>1 DEF Setup
  <2>2. CASE Ask(r)
    BY <2>2 DEF Ask
  <2>3. CASE Wake(r)
    BY <2>3, WakeTypes
  <2>4. CASE Decide(r)
    BY <2>4 DEF Decide
  <2>5. CASE GiveUp(r)
    BY <2>5 DEF GiveUp
  <2>6. CASE FailRow(r)
    BY <2>6 DEF FailRow
  <2>7. CASE Grade(r)
    BY <2>7 DEF Grade
  <2>8. CASE FinishStored(r)
    BY <2>8 DEF FinishStored, Finish, RowOK
  <2>9. CASE FinishFallen(r)
    BY <2>9 DEF FinishFallen, Finish
  <2>10. CASE PassTimesOut(r)
    BY <2>10 DEF PassTimesOut
  <2>11. CASE Refused(r)
    BY <2>11 DEF Refused, Fault
  <2>12. CASE Stop(r)
    BY <2>12 DEF Stop, Cancelled
  <2>13. CASE StartDirect(r)
    BY <2>13 DEF StartDirect, CreateSession, RecoveredRows, Forgettable
  <2>14. CASE QueueReads(r)
    BY <2>14 DEF QueueReads
  <2>15. CASE QueueClaims(r)
    BY <2>15 DEF QueueClaims
  <2>16. CASE QueueFails(r)
    BY <2>16 DEF QueueFails
  <2>17. CASE EnqueueEnter(r)
    BY <2>17 DEF EnqueueEnter
  <2>18. CASE EnqueueStart(r)
    BY <2>18 DEF EnqueueStart, CreateSession, RecoveredRows, Forgettable
  <2>19. CASE EnqueueRefused(r)
    BY <2>19 DEF EnqueueRefused, Fault
  <2>20. CASE EnqueueLeave(r)
    BY <2>20 DEF EnqueueLeave, Sessions
  <2>21. ASSUME NEW n \in Passes, NEW a \in Answers, Submit(r, n, a)
         PROVE  TypeOK'
    BY <2>21 DEF Submit
  <2> QED BY <1>2, <2>1, <2>2, <2>3, <2>4, <2>5, <2>6, <2>7, <2>8, <2>9, <2>10, <2>11, <2>12, <2>13, <2>14, <2>15, <2>16, <2>17, <2>18, <2>19, <2>20, <2>21 DEF RunStep, Harness
<1>3. ASSUME NEW w \in Workers, WorkerStep(w)
      PROVE  TypeOK'
  <2>1. CASE StartWorker(w)
    BY <2>1, SMTT(20) DEF StartWorker
  <2>2. CASE KillWorker(w)
    BY <2>2, SMTT(20) DEF KillWorker, Fault, Idle
  <2>3. CASE Heartbeat(w)
    BY <2>3, HeartbeatTypes
  <2>4. CASE MissBeats(w)
    BY <2>4, SMTT(20) DEF MissBeats, Fault
  <2>5. CASE TakeJob(w)
    BY <2>5, SMTT(20) DEF TakeJob
  <2>6. CASE LoseOffer(w)
    BY <2>6, SMTT(20) DEF LoseOffer, Fault, Idle
  <2>7. CASE Poll(w)
    <3>1. hand[w] \in Runs /\ passNo[hand[w]] \in 0..MaxPasses
      BY <2>7 DEF Poll, HandOK, Executing
    <3>2. /\ UNCHANGED <<backend, hand, cancel, quitting>>
          /\ \E to \in {"quit", "pass"} : phase' = [phase EXCEPT ![w] = to]
          /\ faults' \in 0..MaxFaults
          /\ \/ UNCHANGED <<assigned, handed>>
             \/ /\ assigned' = [assigned EXCEPT ![w] = passNo[hand[w]]]
                /\ handed' = handed \cup {<<hand[w], passNo[hand[w]]>>}
      BY <2>7 DEF Poll, Fault, Turn
    <3> QED BY <3>1, <3>2
  <2>8. CASE ChildEnds(w)
    BY <2>8, ChildEndsTypes
  <2>9. CASE Check(w)
    <3>1. /\ UNCHANGED <<backend, hand, assigned, cancel, quitting, handed, faults>>
          /\ \E to \in {"poll", "quit"} : phase' = [phase EXCEPT ![w] = to]
      BY <2>9 DEF Check, Turn
    <3> QED BY <3>1
  <2>10. CASE JobDone(w)
    BY <2>10, SMTT(20) DEF JobDone, Idle
  <2>11. CASE Report(w)
    BY <2>11, ReportTypes
  <2>12. CASE LoseReport(w)
    BY <2>12, SMTT(20) DEF LoseReport, Fault, Idle
  <2>13. CASE QuitWorker(w)
    BY <2>13, SMTT(20) DEF QuitWorker
  <2>14. ASSUME NEW r \in Runs, Claim(w, r)
         PROVE  TypeOK'
    BY <2>14 DEF Claim
  <2> QED BY <1>3, <2>1, <2>2, <2>3, <2>4, <2>5, <2>6, <2>7, <2>8, <2>9, <2>10, <2>11, <2>12, <2>13, <2>14 DEF WorkerStep
<1>4. CASE Expire
  <2>1. /\ UNCHANGED <<session, task, closed, store, jobs, lock, worker, windows>>
        /\ fresh' = FALSE /\ faults' \in 0..MaxFaults
    BY <1>4 DEF Expire, Fault
  <2> QED BY <2>1
<1>5. CASE Watch
  BY <1>5 DEF Watch, Cancelled
<1>6. CASE Close
  BY <1>6 DEF Close, Cancelled, Fault
<1>7. CASE Restart
  BY <1>7, RestartTypes
<1> QED BY <1>1, <1>2, <1>3, <1>4, <1>5, <1>6, <1>7 DEF Next

----------------------------------------------------------------------------
(* Jobs, admission and hands.                                              *)

\* The step adds no active job, hands out no job again and forgets nothing of
\* run x that the workers go by.
QuietRun(x) ==
    /\ status[x] # "none" => status'[x] # "none"
    /\ jobs'[x] # NoWorker /\ status'[x] \in Live =>
          jobs[x] # NoWorker /\ status[x] \in Live
    /\ jobs'[x] = Unclaimed => jobs[x] = Unclaimed
    /\ passNo'[x] >= passNo[x]
    /\ lock' = x /\ task[x] = "entered" => task'[x] = "entered" \/ status'[x] # "none"

\* The backend side of a step that begins no run.
CalmStep ==
    /\ \A x \in Runs : CalmRun(x)
    /\ lock' \in {lock, NoRun}
    /\ recovered' = recovered \/ Sessions' = {}

\* No worker takes a run in its hands, and a child gets a pass that was asked.
HandsFall ==
    \A w \in Workers :
        /\ hand'[w] \in {hand[w], NoRun}
        /\ phase'[w] \in Executing \cup {"offered"} =>
              phase[w] \in Executing \cup {"offered"} /\ hand'[w] = hand[w]
        /\ phase'[w] = "pass" => \/ phase[w] = "pass" /\ assigned'[w] = assigned[w]
                                 \/ assigned'[w] \in 1..passNo'[hand[w]]

\* The parts of the invariant that are not about one run or its types.
SharedOK ==
    /\ ~recovered => Sessions = {}
    /\ JobsOK
    /\ Cardinality(Working) <= MaxActive
    /\ \A w \in Workers : HandOK(w)
    /\ OneWorkerPerRun

LEMMA AtMostOne ==
    ASSUME NEW S, \A x, y \in S : x = y
    PROVE  Cardinality(S) <= 1
<1>1. CASE S = {}
  BY <1>1, FS_EmptySet
<1>2. CASE S # {}
  <2>1. PICK x \in S : S = {x}
    BY <1>2
  <2> QED BY <2>1, FS_Singleton
<1> QED BY <1>1, <1>2

LEMMA RunCount ==
    ASSUME NEW S \in SUBSET Runs, NEW T \in SUBSET S
    PROVE  /\ Cardinality(S) \in Nat /\ Cardinality(T) \in Nat
           /\ Cardinality(T) <= Cardinality(S)
<1>1. IsFiniteSet(S)
  BY CodexAssumption, FS_Subset
<1>2. IsFiniteSet(T) /\ Cardinality(T) <= Cardinality(S)
  BY <1>1, FS_Subset
<1> QED BY <1>1, <1>2, FS_CardinalityType

\* Fewer live runs are no more than allowed.
LEMMA FewerWorking ==
    ASSUME Cardinality(Working) <= MaxActive, Working' \subseteq Working
    PROVE  (Cardinality(Working) <= MaxActive)'
<1> DEFINE S == Working
           T == Working'
<1>1. S \in SUBSET Runs /\ T \in SUBSET S
  BY DEF Working
<1>2. Cardinality(S) <= MaxActive
  OBVIOUS
<1> HIDE DEF S, T
<1>3. Cardinality(S) \in Nat /\ Cardinality(T) \in Nat /\ Cardinality(T) <= Cardinality(S)
  BY <1>1, RunCount
<1>4. Cardinality(T) <= MaxActive
  BY <1>2, <1>3, CodexAssumption
<1> QED BY <1>4 DEF T

LEMMA HandsKept ==
    ASSUME TypeOK, TypeOK', \A x \in Runs : QuietRun(x), lock' \in {lock, NoRun},
           HandsFall, \A w \in Workers : HandOK(w), OneWorkerPerRun
    PROVE  (\A w \in Workers : HandOK(w))' /\ OneWorkerPerRun'
<1>1. ASSUME NEW w \in Workers
      PROVE  HandOK(w)'
  <2>1. hand'[w] \in {hand[w], NoRun} /\ hand[w] \in Runs \cup {NoRun}
    BY <1>1 DEF HandsFall, TypeOK
  <2>2. phase'[w] \in Executing \cup {"offered"} => hand'[w] \in Runs
    BY <1>1 DEF HandsFall, HandOK
  <2>3. ASSUME hand'[w] # NoRun
        PROVE  status'[hand'[w]] # "none" /\ hand'[w] # lock' /\ jobs'[hand'[w]] # Unclaimed
    <3>1. hand'[w] = hand[w] /\ hand[w] \in Runs
      BY <2>1, <2>3
    <3> QED BY <1>1, <2>3, <3>1 DEF HandOK, QuietRun
  <2> QED BY <2>2, <2>3 DEF HandOK, Executing
<1>2. ASSUME NEW w \in Workers, hand'[w] # NoRun
      PROVE  /\ \A v \in Workers : hand'[v] = hand'[w] => v = w
             /\ phase'[w] = "pass" => assigned'[w] \in 1..passNo'[hand'[w]]
  <2>1. hand'[w] = hand[w] /\ hand[w] \in Runs
    BY <1>2 DEF HandsFall, TypeOK
  <2>2. ASSUME NEW v \in Workers, hand'[v] = hand'[w]
        PROVE  v = w
    BY <1>2, <2>1, <2>2 DEF HandsFall, OneWorkerPerRun
  <2>3. ASSUME phase'[w] = "pass"
        PROVE  assigned'[w] \in 1..passNo'[hand'[w]]
    <3>1. CASE phase[w] = "pass" /\ assigned'[w] = assigned[w]
      <4>1. assigned[w] \in 1..passNo[hand[w]]
        BY <1>2, <2>1, <3>1 DEF OneWorkerPerRun
      <4>2. passNo'[hand[w]] >= passNo[hand[w]]
            /\ passNo[hand[w]] \in 0..MaxPasses /\ passNo'[hand[w]] \in 0..MaxPasses
        BY <2>1 DEF QuietRun, TypeOK
      <4> QED BY <2>1, <3>1, <4>1, <4>2, CodexAssumption
    <3>2. CASE assigned'[w] \in 1..passNo'[hand[w]]
      BY <2>1, <3>2
    <3> QED BY <1>2, <2>3, <3>1, <3>2 DEF HandsFall
  <2> QED BY <2>2, <2>3
<1> QED BY <1>1, <1>2 DEF OneWorkerPerRun

LEMMA JobsKept ==
    ASSUME TypeOK, JobsOK, \A x \in Runs : QuietRun(x), lock' \in {lock, NoRun}
    PROVE  JobsOK'
<1>1. ActiveJobs' \subseteq ActiveJobs
  BY DEF ActiveJobs, QuietRun
<1>2. ASSUME lock' # NoRun
      PROVE  ActiveJobs' = {} /\ (task'[lock'] = "entered" \/ status'[lock'] # "none")
  <2>1. lock' = lock /\ lock \in Runs
    BY <1>2 DEF TypeOK
  <2>2. ActiveJobs = {} /\ (task[lock] = "entered" \/ status[lock] # "none")
    BY <1>2, <2>1 DEF JobsOK
  <2> QED BY <1>1, <2>1, <2>2 DEF QuietRun
<1>3. \A r, s \in ActiveJobs' : r = s
  BY <1>1 DEF JobsOK
<1> QED BY <1>2, <1>3 DEF JobsOK

\* A step that begins no run and takes none in hand keeps what is shared.
LEMMA CalmShared ==
    ASSUME TypeOK, TypeOK', SharedOK, CalmStep, HandsFall
    PROVE  SharedOK'
<1>1. \A x \in Runs : QuietRun(x)
  BY DEF CalmStep, CalmRun, QuietRun
<1>2. lock' \in {lock, NoRun}
  BY DEF CalmStep
<1>3. JobsOK'
  BY <1>1, <1>2, JobsKept DEF SharedOK
<1>4. (\A w \in Workers : HandOK(w))' /\ OneWorkerPerRun'
  BY <1>1, <1>2, HandsKept DEF SharedOK
<1>5. Working' \subseteq Working
  BY DEF CalmStep, CalmRun, Working
<1>6. (Cardinality(Working) <= MaxActive)'
  BY <1>5, FewerWorking DEF SharedOK
<1>7. (~recovered => Sessions = {})'
  <2>1. ASSUME ~recovered', recovered' = recovered
        PROVE  Sessions' = {}
    BY <2>1 DEF SharedOK, Sessions, CalmStep, CalmRun
  <2> QED BY <2>1 DEF CalmStep
<1> QED BY <1>3, <1>4, <1>6, <1>7 DEF SharedOK

\* Such are the steps of one run, ...
LEMMA AloneShared ==
    ASSUME TypeOK, TypeOK', SharedOK, NEW r \in Runs, \A x \in Runs : RunOK(x), Alone(r)
    PROVE  (\A x \in Runs : RunOK(x)') /\ SharedOK'
<1>1. ASSUME NEW x \in Runs
      PROVE  RunOK(x)' /\ CalmRun(x)
  <2>1. CASE x = r
    BY <2>1 DEF Alone
  <2>2. CASE x # r
    <3>1. Kept(x)
      BY <1>1, <2>2 DEF Alone
    <3>2. CalmRun(x)
      BY <3>1, CodexAssumption DEF Kept, CalmRun, Terminal, TypeOK
    <3> QED BY <1>1, <3>1, <3>2, KeptRun
  <2> QED BY <2>1, <2>2
<1>2. CalmStep
  BY <1>1 DEF CalmStep, Alone
<1>3. HandsFall
  BY DEF HandsFall, Alone, Executing
<1> QED BY <1>1, <1>2, <1>3, CalmShared

\* ... cancellations, ...
LEMMA CancelShared ==
    ASSUME TypeOK, TypeOK', SharedOK, \A x \in Runs : RunOK(x),
           session' = session \/ (\E rs \in SUBSET Working : Cancelled(rs)),
           UNCHANGED <<task, store, jobs, lock>>, HandsFall
    PROVE  (\A x \in Runs : RunOK(x)') /\ SharedOK'
<1>1. /\ \A x \in Runs : RunOK(x)'
      /\ \A x \in Runs : status'[x] = status[x] \/ {status[x], status'[x]} \subseteq Live
      /\ UNCHANGED passNo
  <2>1. CASE session' = session
    <3>1. \A x \in Runs : Kept(x)
      BY <2>1 DEF session, store, Kept
    <3> QED BY <2>1, <3>1, KeptRun DEF session
  <2>2. ASSUME NEW rs \in SUBSET Working, Cancelled(rs)
        PROVE  <1>1!1 /\ <1>1!2 /\ <1>1!3
    <3>1. rs \in SUBSET Runs /\ \A x \in rs : status[x] \in Live
      BY <2>2 DEF Working
    <3>2. UNCHANGED passNo
      BY <2>2 DEF Cancelled
    <3> QED BY <2>2, <3>1, <3>2, CancelledRuns
  <2> QED BY <2>1, <2>2
<1>2. CalmStep
  BY <1>1 DEF CalmStep, CalmRun, Live, Terminal, store, TypeOK
<1> QED BY <1>1, <1>2, CalmShared

\* ... and the start of the backend.
LEMMA RestartShared ==
    ASSUME TypeOK, TypeOK', SharedOK, \A x \in Runs : RunOK(x), Restart
    PROVE  (\A x \in Runs : RunOK(x)') /\ SharedOK'
<1>1. (\A x \in Runs : RunOK(x)') /\ Sessions' = {}
  BY RestartRuns
<1>2. CalmStep
  <2>1. ASSUME NEW x \in Runs
        PROVE  CalmRun(x)
    BY <1>1, <2>1, CodexAssumption DEF Restart, CalmRun, Sessions, Live, Terminal, TypeOK
  <2> QED BY <1>1, <2>1 DEF CalmStep, Restart
<1>3. HandsFall
  BY DEF HandsFall, Restart, windows, Executing
<1> QED BY <1>1, <1>2, <1>3, CalmShared


\* The step of a run that gets its session.
LEMMA CreateShared ==
    ASSUME TypeOK, TypeOK', SharedOK, NEW r \in Runs, \A x \in Runs : RunOK(x),
           CreateSession(r), status[r] = "none", r \in QueuedRuns => task[r] = "entered",
           UNCHANGED <<desk, windows>>
    PROVE  (\A x \in Runs : RunOK(x)') /\ SharedOK'
<1>1. UNCHANGED <<jobs, lock, hand, phase, assigned>>
  BY DEF desk, windows
<1>2. /\ \A x \in Runs : RunOK(x)'
      /\ \A x \in Runs \ {r} : status'[x] \in {status[x], "lost"}
      /\ status'[r] = "starting"
  BY <1>1, CreateRuns DEF SharedOK
<1>3. UNCHANGED passNo /\ recovered' = TRUE /\ \A x \in Runs \ {r} : task'[x] = task[x]
  BY DEF CreateSession, TypeOK
<1>4. jobs[r] = NoWorker
  BY DEF RunOK, LifeOK
<1>5. \A x \in Runs : QuietRun(x)
  BY <1>1, <1>2, <1>3, <1>4 DEF QuietRun, Live, TypeOK
<1>6. HandsFall
  BY <1>1 DEF HandsFall
<1>7. JobsOK' /\ (\A w \in Workers : HandOK(w))' /\ OneWorkerPerRun'
  BY <1>1, <1>5, <1>6, JobsKept, HandsKept DEF SharedOK
<1>8. (Cardinality(Working) <= MaxActive)'
  <2> DEFINE S == Working
             T == Working'
  <2>1. S \in SUBSET Runs /\ T \in SUBSET (S \cup {r}) /\ r \notin S
    BY <1>2 DEF Working, Live
  <2>2. Cardinality(S) < MaxActive
    BY DEF CreateSession, Admitted
  <2> HIDE DEF S, T
  <2>3. Cardinality(S \cup {r}) = Cardinality(S) + 1
    BY <2>1, CodexAssumption, FS_Subset, FS_AddElement
  <2>4. /\ Cardinality(S) \in Nat /\ Cardinality(T) \in Nat
        /\ Cardinality(T) <= Cardinality(S \cup {r})
    <3>1. S \cup {r} \in SUBSET Runs
      BY <2>1
    <3> QED BY <2>1, <3>1, RunCount
  <2>5. Cardinality(T) <= MaxActive
    BY <2>2, <2>3, <2>4, CodexAssumption
  <2> QED BY <2>5 DEF T
<1> QED BY <1>2, <1>3, <1>7, <1>8 DEF SharedOK

LEMMA EnterShared ==
    ASSUME TypeOK, TypeOK', SharedOK, NEW r \in Runs, \A x \in Runs : RunOK(x),
           EnqueueEnter(r)
    PROVE  (\A x \in Runs : RunOK(x)') /\ SharedOK'
<1>1. \A x \in Runs : RunOK(x)'
  BY EnqueueEnterRun, KeptRun
<1>2. /\ lock' = r /\ task'[r] = "entered" /\ ActiveJobs = {} /\ status[r] = "none"
      /\ UNCHANGED <<status, passNo, recovered, jobs, phase, hand, assigned>>
  <2>1. status[r] = "none"
    BY DEF EnqueueEnter, RunOK, LifeOK
  <2> QED BY <2>1 DEF EnqueueEnter, Ready, session, store, windows, TypeOK
<1>3. JobsOK'
  BY <1>2 DEF JobsOK, ActiveJobs
<1>4. ASSUME NEW w \in Workers
      PROVE  HandOK(w)'
  BY <1>2, <1>4 DEF SharedOK, HandOK, Executing
<1>5. OneWorkerPerRun'
  BY <1>2 DEF SharedOK, OneWorkerPerRun
<1>6. (~recovered => Sessions = {})' /\ (Cardinality(Working) <= MaxActive)'
  BY <1>2 DEF SharedOK, Sessions, Working
<1> QED BY <1>1, <1>3, <1>4, <1>5, <1>6 DEF SharedOK

\* The job that is added is the only active one.
LEMMA LeaveShared ==
    ASSUME TypeOK, TypeOK', SharedOK, NEW r \in Runs, \A x \in Runs : RunOK(x),
           EnqueueLeave(r)
    PROVE  (\A x \in Runs : RunOK(x)') /\ SharedOK'
<1>1. /\ lock = r /\ r # NoRun /\ lock' = NoRun /\ ActiveJobs = {} /\ status[r] # "none"
      /\ UNCHANGED <<session, task, store, phase, hand, assigned>>
  BY CodexAssumption DEF EnqueueLeave, SharedOK, JobsOK, windows
<1>2. /\ jobs'[r] = Unclaimed
      /\ \A x \in Runs \ {r} : jobs'[x] \in {jobs[x], NoWorker}
  BY DEF EnqueueLeave
<1>3. ASSUME NEW x \in Runs
      PROVE  RunOK(x)'
  <2>1. CASE x = r
    BY <1>1, <2>1 DEF RunOK, LifeOK, PassOK, RowOK, OutcomeOK, session, store
  <2>2. CASE x # r
    <3>1. Kept(x)
      BY <1>1, <1>2, <1>3, <2>2 DEF Kept, session, store
    <3> QED BY <1>3, <3>1, KeptRun
  <2> QED BY <2>1, <2>2
<1>4. JobsOK'
  <2>1. ActiveJobs' \subseteq {r}
    BY <1>1, <1>2 DEF ActiveJobs, session
  <2> QED BY <1>1, <2>1 DEF JobsOK
<1>5. ASSUME NEW w \in Workers
      PROVE  HandOK(w)'
  BY <1>1, <1>2, <1>5, CodexAssumption DEF SharedOK, HandOK, Executing, session, TypeOK
<1>6. OneWorkerPerRun' /\ (~recovered => Sessions = {})' /\ (Cardinality(Working) <= MaxActive)'
  BY <1>1 DEF SharedOK, OneWorkerPerRun, Sessions, Working, session, store
<1> QED BY <1>3, <1>4, <1>5, <1>6 DEF SharedOK

\* A job that is claimed was in nobody's hands.
LEMMA ClaimShared ==
    ASSUME TypeOK, TypeOK', SharedOK, NEW w \in Workers, NEW r \in Runs,
           \A x \in Runs : RunOK(x), Claim(w, r)
    PROVE  (\A x \in Runs : RunOK(x)') /\ SharedOK'
<1>1. /\ jobs[r] = Unclaimed /\ jobs' = [jobs EXCEPT ![r] = w] /\ r \in ActiveJobs
      /\ UNCHANGED <<session, task, store, lock, assigned>>
      /\ phase' = [phase EXCEPT ![w] = "offered"] /\ hand' = [hand EXCEPT ![w] = r]
  BY DEF Claim
<1>2. ASSUME NEW x \in Runs
      PROVE  RunOK(x)'
  <2>1. CASE x = r
    <3>1. jobs[x] # NoWorker
      BY <1>1, <2>1, CodexAssumption
    <3> QED BY <1>1, <1>2, <2>1, <3>1
            DEF RunOK, LifeOK, PassOK, RowOK, OutcomeOK, session, store
  <2>2. CASE x # r
    <3>1. Kept(x)
      BY <1>1, <1>2, <2>2 DEF Kept, session, store, TypeOK
    <3> QED BY <1>2, <3>1, KeptRun
  <2> QED BY <2>1, <2>2
<1>3. lock = NoRun
  BY <1>1 DEF SharedOK, JobsOK
<1>4. ActiveJobs' = ActiveJobs
  BY <1>1, CodexAssumption DEF ActiveJobs, session, TypeOK
<1>5. JobsOK'
  BY <1>1, <1>3, <1>4 DEF SharedOK, JobsOK
<1>6. \A v \in Workers : hand[v] # r
  BY <1>1, CodexAssumption DEF SharedOK, HandOK
<1>7. ASSUME NEW v \in Workers
      PROVE  HandOK(v)'
  <2>1. status[r] # "none" /\ r # NoRun
    BY <1>1, CodexAssumption DEF RunOK, LifeOK
  <2>2. CASE v = w
    BY <1>1, <1>3, <2>1, <2>2, CodexAssumption DEF HandOK, session, TypeOK
  <2>3. CASE v # w
    BY <1>1, <1>6, <1>7, <2>3 DEF HandOK, SharedOK, Executing, session, TypeOK
  <2> QED BY <2>2, <2>3
<1>8. OneWorkerPerRun'
  BY <1>1, <1>6 DEF OneWorkerPerRun, SharedOK, session, TypeOK
<1>9. (~recovered => Sessions = {})' /\ (Cardinality(Working) <= MaxActive)'
  BY <1>1 DEF SharedOK, Sessions, Working, session, store
<1> QED BY <1>2, <1>5, <1>7, <1>8, <1>9 DEF SharedOK

\* A child is handed a pass the run has asked for.
LEMMA PollAssigns ==
    ASSUME TypeOK, SharedOK, \A r \in Runs : RunOK(r), NEW w \in Workers, Poll(w)
    PROVE  phase'[w] = "pass" => assigned'[w] \in 1..passNo[hand[w]]
<1>1. hand[w] \in Runs
  BY DEF SharedOK, HandOK, Poll, Executing
<1>2. ASSUME phase'[w] = "pass"
      PROVE  status[hand[w]] = "waiting" /\ assigned'[w] = passNo[hand[w]]
  BY <1>2 DEF Poll, Turn, TypeOK
<1>3. status[hand[w]] = "waiting" => passNo[hand[w]] > 0
  BY <1>1 DEF RunOK, LifeOK, PassOK
<1>4. passNo[hand[w]] \in 0..MaxPasses
  BY <1>1 DEF TypeOK
<1> QED BY <1>2, <1>3, <1>4, CodexAssumption

\* Whatever else a worker does, it takes no run, and at most a run is stopped.
LEMMA WorkerShared ==
    ASSUME TypeOK, SharedOK, \A r \in Runs : RunOK(r), NEW w \in Workers, WorkerStep(w),
           \A r \in Runs : ~Claim(w, r)
    PROVE  /\ session' = session \/ (\E rs \in SUBSET Working : Cancelled(rs))
           /\ UNCHANGED <<task, store, jobs, lock>>
           /\ HandsFall
<1> DEFINE Sess == session' = session \/ (\E rs \in SUBSET Working : Cancelled(rs))
<1>0. ActiveJobs \in SUBSET Working
  BY DEF ActiveJobs, Working
<1>1. CASE StartWorker(w)
  <2>1. Sess /\ UNCHANGED <<task, store, jobs, lock>>
    BY <1>1 DEF StartWorker, backend, desk
  <2>2. HandsFall
    BY <1>1 DEF StartWorker, HandsFall, Executing, TypeOK
  <2> QED BY <2>1, <2>2
<1>2. CASE KillWorker(w)
  <2>1. Sess /\ UNCHANGED <<task, store, jobs, lock>>
    BY <1>2 DEF KillWorker, Idle, backend, desk
  <2>2. HandsFall
    BY <1>2 DEF KillWorker, Idle, HandsFall, Executing, TypeOK
  <2> QED BY <2>1, <2>2
<1>3. CASE MissBeats(w)
  <2>1. Sess /\ UNCHANGED <<task, store, jobs, lock>>
    BY <1>3 DEF MissBeats, backend, desk
  <2>2. HandsFall
    BY <1>3 DEF MissBeats, HandsFall, Executing, TypeOK
  <2> QED BY <2>1, <2>2
<1>4. CASE TakeJob(w)
  <2>1. Sess /\ UNCHANGED <<task, store, jobs, lock>>
    BY <1>4 DEF TakeJob, backend, desk
  <2>2. HandsFall
    BY <1>4 DEF TakeJob, HandsFall, Executing, TypeOK
  <2> QED BY <2>1, <2>2
<1>5. CASE LoseOffer(w)
  <2>1. Sess /\ UNCHANGED <<task, store, jobs, lock>>
    BY <1>5 DEF LoseOffer, Idle, backend, desk
  <2>2. HandsFall
    BY <1>5 DEF LoseOffer, Idle, HandsFall, Executing, TypeOK
  <2> QED BY <2>1, <2>2
<1>6. CASE Poll(w)
  <2>1. Sess /\ UNCHANGED <<task, store, jobs, lock, hand>>
    BY <1>6 DEF Poll, Turn, backend, desk
  <2>2. phase[w] \in Executing /\ UNCHANGED passNo
    BY <1>6 DEF Poll, Executing, Turn, backend, session
  <2>3. phase'[w] = "pass" => assigned'[w] \in 1..passNo[hand[w]]
    BY <1>6, PollAssigns
  <2>4. \A v \in Workers \ {w} : phase'[v] = phase[v] /\ assigned'[v] = assigned[v]
    BY <1>6 DEF Poll, Turn, TypeOK
  <2>5. HandsFall
    BY <2>1, <2>2, <2>3, <2>4 DEF HandsFall
  <2> QED BY <2>1, <2>5
<1>7. CASE ChildEnds(w)
  <2>1. Sess /\ UNCHANGED <<task, store, jobs, lock>>
    BY <1>7 DEF ChildEnds, Turn, backend, desk
  <2>2. HandsFall
    BY <1>7 DEF ChildEnds, Turn, HandsFall, Executing, TypeOK
  <2> QED BY <2>1, <2>2
<1>8. CASE Check(w)
  <2>1. Sess /\ UNCHANGED <<task, store, jobs, lock>>
    BY <1>8 DEF Check, Turn, backend, desk
  <2>2. HandsFall
    BY <1>8 DEF Check, Turn, HandsFall, Executing, TypeOK
  <2> QED BY <2>1, <2>2
<1>9. CASE JobDone(w)
  <2>1. Sess /\ UNCHANGED <<task, store, jobs, lock>>
    BY <1>9 DEF JobDone, Idle, backend, desk
  <2>2. HandsFall
    BY <1>9 DEF JobDone, Idle, HandsFall, Executing, TypeOK
  <2> QED BY <2>1, <2>2
<1>10. CASE LoseReport(w)
  <2>1. Sess /\ UNCHANGED <<task, store, jobs, lock>>
    BY <1>10 DEF LoseReport, Idle, backend, desk
  <2>2. HandsFall
    BY <1>10 DEF LoseReport, Idle, HandsFall, Executing, TypeOK
  <2> QED BY <2>1, <2>2
<1>11. CASE QuitWorker(w)
  <2>1. Sess /\ UNCHANGED <<task, store, jobs, lock>>
    BY <1>11 DEF QuitWorker, backend, desk
  <2>2. HandsFall
    BY <1>11 DEF QuitWorker, HandsFall, Executing, TypeOK
  <2> QED BY <2>1, <2>2
<1>12. CASE Heartbeat(w)
  <2>1. Sess /\ UNCHANGED <<task, store, jobs, lock>>
    BY <1>0, <1>12 DEF Heartbeat, Registered
  <2>2. HandsFall
    BY <1>12 DEF Heartbeat, HandsFall
  <2> QED BY <2>1, <2>2
<1>13. CASE Report(w)
  <2>1. Sess /\ UNCHANGED <<task, store, jobs, lock>>
    BY <1>13 DEF Report, desk
  <2>2. HandsFall
    BY <1>13 DEF Report, Idle, HandsFall, Executing, TypeOK
  <2> QED BY <2>1, <2>2
<1> QED BY <1>1, <1>2, <1>3, <1>4, <1>5, <1>6, <1>7, <1>8, <1>9, <1>10, <1>11, <1>12, <1>13
        DEF WorkerStep

----------------------------------------------------------------------------
(* The invariant.                                                          *)

LEMMA StepKeeps ==
    ASSUME TypeOK, \A x \in Runs : RunOK(x), SharedOK, [Next]_vars
    PROVE  TypeOK' /\ (\A x \in Runs : RunOK(x)') /\ SharedOK'
<1>1. TypeOK'
  BY TypeStep DEF RunOK, SharedOK
<1>2. CASE UNCHANGED vars
  <2>1. UNCHANGED <<session, task, store, jobs, lock, phase, hand, assigned>>
    BY <1>2 DEF vars, desk, windows
  <2>2. HandsFall
    BY <2>1 DEF HandsFall
  <2> QED BY <1>1, <2>1, <2>2, CancelShared
<1>3. ASSUME NEW r \in Runs, RunStep(r)
      PROVE  (\A x \in Runs : RunOK(x)') /\ SharedOK'
  <2>0. RunOK(r)
    BY <1>3
  <2>1. CASE Setup(r)
    BY <1>1, <2>0, <2>1, SetupRun, AloneShared
  <2>2. CASE Ask(r)
    BY <1>1, <2>0, <2>2, AskRun, AloneShared
  <2>3. CASE Wake(r)
    BY <1>1, <2>0, <2>3, WakeRun, AloneShared
  <2>4. CASE Decide(r)
    BY <1>1, <2>0, <2>4, DecideRun, AloneShared
  <2>5. CASE GiveUp(r)
    BY <1>1, <2>0, <2>5, GiveUpRun, AloneShared
  <2>6. CASE FailRow(r)
    BY <1>1, <2>0, <2>6, FailRowRun, AloneShared
  <2>7. CASE Grade(r)
    BY <1>1, <2>0, <2>7, GradeRun, AloneShared
  <2>8. CASE FinishStored(r)
    BY <1>1, <2>0, <2>8, FinishStoredRun, AloneShared
  <2>9. CASE FinishFallen(r)
    BY <1>1, <2>0, <2>9, FinishFallenRun, AloneShared
  <2>10. CASE PassTimesOut(r)
    BY <1>1, <2>0, <2>10, PassTimesOutRun, AloneShared
  <2>11. CASE Refused(r)
    BY <1>1, <2>0, <2>11, RefusedRun, AloneShared
  <2>12. CASE QueueReads(r)
    BY <1>1, <2>0, <2>12, QueueReadsRun, AloneShared
  <2>13. CASE QueueClaims(r)
    BY <1>1, <2>0, <2>13, QueueClaimsRun, AloneShared
  <2>14. CASE QueueFails(r)
    BY <1>1, <2>0, <2>14, QueueFailsRun, AloneShared
  <2>15. CASE EnqueueRefused(r)
    BY <1>1, <2>0, <2>15, EnqueueRefusedRun, AloneShared
  <2>16. ASSUME NEW n \in Passes, NEW a \in Answers, Submit(r, n, a)
         PROVE  (\A x \in Runs : RunOK(x)') /\ SharedOK'
    BY <1>1, <2>0, <2>16, SubmitRun, AloneShared
  <2>17. CASE Stop(r)
    <3>1. {r} \in SUBSET Working /\ Cancelled({r}) /\ UNCHANGED <<task, store, jobs, lock>>
          /\ UNCHANGED <<phase, hand, assigned>>
      BY <2>17 DEF Stop, Working, desk, windows
    <3>2. HandsFall
      BY <3>1 DEF HandsFall
    <3> QED BY <1>1, <3>1, <3>2, CancelShared
  <2>18. CASE StartDirect(r)
    BY <1>1, <2>18, CreateShared, CodexAssumption DEF StartDirect
  <2>19. CASE EnqueueStart(r)
    <3>1. status[r] = "none"
      BY <2>0, <2>19 DEF EnqueueStart, RunOK, LifeOK
    <3> QED BY <1>1, <2>19, <3>1, CreateShared DEF EnqueueStart
  <2>20. CASE EnqueueEnter(r)
    BY <1>1, <2>20, EnterShared
  <2>21. CASE EnqueueLeave(r)
    BY <1>1, <2>21, LeaveShared
  <2> QED BY <1>3, <2>1, <2>2, <2>3, <2>4, <2>5, <2>6, <2>7, <2>8, <2>9, <2>10, <2>11, <2>12, <2>13, <2>14, <2>15, <2>16, <2>17, <2>18, <2>19, <2>20, <2>21 DEF RunStep, Harness
<1>4. ASSUME NEW w \in Workers, WorkerStep(w)
      PROVE  (\A x \in Runs : RunOK(x)') /\ SharedOK'
  <2>1. ASSUME NEW r \in Runs, Claim(w, r)
        PROVE  (\A x \in Runs : RunOK(x)') /\ SharedOK'
    BY <1>1, <2>1, ClaimShared
  <2>2. CASE \A r \in Runs : ~Claim(w, r)
    BY <1>1, <1>4, <2>2, WorkerShared, CancelShared
  <2> QED BY <2>1, <2>2
<1>5. CASE Expire \/ Watch \/ Close
  <2>1. UNCHANGED <<task, store, jobs, lock, phase, hand, assigned>>
    BY <1>5 DEF Expire, Watch, Close, desk, windows
  <2>2. session' = session \/ (\E rs \in SUBSET Working : Cancelled(rs))
    <3>1. ActiveJobs \in SUBSET Working /\ Working \in SUBSET Working
      BY DEF ActiveJobs, Working
    <3> QED BY <1>5, <3>1 DEF Expire, Watch, Close
  <2>3. HandsFall
    BY <2>1 DEF HandsFall
  <2> QED BY <1>1, <2>1, <2>2, <2>3, CancelShared
<1>6. CASE Restart
  BY <1>1, <1>6, RestartShared
<1> QED BY <1>1, <1>2, <1>3, <1>4, <1>5, <1>6 DEF Next

LEMMA InitKeeps ==
    ASSUME Init
    PROVE  TypeOK /\ (\A x \in Runs : RunOK(x)) /\ SharedOK
<1>1. TypeOK
  <2>1. SessionTypes
    BY CodexAssumption DEF Init, SessionTypes, Seen
  <2>2. RowTypes
    BY DEF Init, RowTypes, Stages
  <2>3. DeskTypes
    BY DEF Init, DeskTypes
  <2>4. WindowsTypes /\ faults \in 0..MaxFaults
    BY CodexAssumption DEF Init, WindowsTypes
  <2> QED BY <2>1, <2>2, <2>3, <2>4, TypeFrame
<1>2. \A x \in Runs : RunOK(x)
  BY DEF Init, RunOK, LifeOK, PassOK, RowOK, OutcomeOK, InTask, Live, Terminal
<1>3. ActiveJobs = {} /\ Working = {} /\ Sessions = {}
  BY DEF Init, ActiveJobs, Working, Sessions, Live, Terminal
<1>4. Cardinality(Working) <= MaxActive
  BY <1>3, FS_EmptySet, CodexAssumption
<1>5. JobsOK
  BY <1>3 DEF JobsOK, Init
<1>6. (\A w \in Workers : HandOK(w)) /\ OneWorkerPerRun
  BY DEF Init, HandOK, OneWorkerPerRun, Executing
<1> QED BY <1>1, <1>2, <1>3, <1>4, <1>5, <1>6 DEF SharedOK

\* The parts say what IInv says.
LEMMA IInvParts == IInv <=> TypeOK /\ (\A r \in Runs : RunOK(r)) /\ SharedOK
<1>1. IInv => \A r \in Runs : RunOK(r)
  BY DEF IInv, RunOK, OutcomeOK, SessionTellsTheRow, NoOrphanRows
<1>2. (\A r \in Runs : RunOK(r)) => SessionTellsTheRow /\ NoOrphanRows
  BY DEF RunOK, RowOK, OutcomeOK, SessionTellsTheRow, NoOrphanRows
<1>3. JobsOK => Cardinality(ActiveJobs) <= 1
  BY AtMostOne DEF JobsOK
<1>4. (\A r \in Runs : RunOK(r)) => \A r \in Runs : LifeOK(r) /\ PassOK(r) /\ RowOK(r)
  BY DEF RunOK
<1> QED BY <1>1, <1>2, <1>3, <1>4 DEF IInv, SharedOK, AdmissionHolds

\* The inductive invariant of the Codex desk.
THEOREM Invariance == Spec => []IInv
<1>1. Init => IInv
  BY InitKeeps, IInvParts
<1>2. IInv /\ [Next]_vars => IInv'
  <2>1. ASSUME IInv, [Next]_vars
        PROVE  IInv'
    <3>1. TypeOK' /\ (\A x \in Runs : RunOK(x)') /\ SharedOK'
      BY <2>1, IInvParts, StepKeeps
    <3>2. (IInv <=> TypeOK /\ (\A r \in Runs : RunOK(r)) /\ SharedOK)'
      BY IInvParts, PTL
    <3> QED BY <3>1, <3>2
  <2> QED BY <2>1
<1> QED BY <1>1, <1>2, PTL DEF Spec

----------------------------------------------------------------------------
(* Implementation.                                                         *)

\* Where the ledger sees run r.
Bridge(r) ==
    IF status[r] = "none" THEN "new"
    ELSE IF status[r] \notin Live THEN "over"
    ELSE IF stopping[r] THEN "stopping" ELSE "open"

LEMMA BridgeIs ==
    /\ BridgePhase = [r \in Runs |-> Bridge(r)]
    /\ BridgePhase' = [r \in Runs |-> Bridge(r)']
<1> QED BY DEF BridgePhase, Bridge

LEMMA Stutters ==
    ASSUME UNCHANGED <<passNo, accepted, used>>, \A r \in Runs : Bridge(r)' = Bridge(r)
    PROVE  UNCHANGED Ledger!ledger
<1> QED BY BridgeIs DEF Ledger!ledger

\* Sessions that are told to stop.
LEMMA CancelledStops ==
    ASSUME TypeOK, NEW rs \in SUBSET Working, Cancelled(rs)
    PROVE  Ledger!Next
<1> DEFINE new == {r \in rs : ~stopping[r]}
<1>1. \A r \in rs : r \in Runs /\ status[r] \in Live
  BY DEF Working
<1>2. ASSUME NEW r \in Runs
      PROVE  Bridge(r)' = IF r \in new THEN "stopping" ELSE Bridge(r)
  <2>1. status'[r] = status[r] \/ {status[r], status'[r]} \subseteq Live
    BY <1>1, <1>2 DEF Cancelled, Live
  <2>2. stopping'[r] = (stopping[r] \/ r \in rs)
    BY <1>2 DEF Cancelled
  <2>3. CASE r \in rs
    BY <1>1, <2>1, <2>2, <2>3 DEF Bridge, Live
  <2>4. CASE r \notin rs
    BY <2>1, <2>2, <2>4 DEF Bridge, Live
  <2> QED BY <2>3, <2>4
<1>3. \A r \in new : Bridge(r) = "open" /\ r \in Runs
  BY <1>1 DEF Bridge, Live
<1>4. UNCHANGED <<passNo, accepted, used>>
  BY DEF Cancelled
<1>5. new \in SUBSET Runs
  BY <1>3
<1> HIDE DEF new
<1>6. Ledger!Stop(new)
  BY <1>2, <1>3, <1>4, BridgeIs DEF Ledger!Stop
<1> QED BY <1>5, <1>6 DEF Ledger!Next

\* A session is created; the forgotten ones were over.
LEMMA CreateOpens ==
    ASSUME TypeOK, \A x \in Runs : RunOK(x), NEW r \in Runs, CreateSession(r),
           status[r] = "none"
    PROVE  Ledger!Next
<1>1. PICK gone \in SUBSET Runs :
          /\ \A x \in gone : x \in Sessions /\ task[x] = "done"
          /\ status' = [x \in Runs |-> IF x = r THEN "starting"
                                       ELSE IF x \in gone THEN "lost" ELSE status[x]]
  BY DEF CreateSession, Forgettable
<1>2. UNCHANGED <<stopping, passNo, accepted, used>>
  BY DEF CreateSession
<1>3. \A x \in gone : status[x] \in Terminal
  BY <1>1 DEF Sessions, RunOK, LifeOK, InTask
<1>4. ~stopping[r]
  BY DEF RunOK, LifeOK
<1>5. ASSUME NEW x \in Runs
      PROVE  Bridge(x)' = IF x = r THEN "open" ELSE Bridge(x)
  BY <1>1, <1>2, <1>3, <1>4, <1>5 DEF Bridge, Live, Terminal
<1>6. Bridge(r) = "new"
  BY DEF Bridge
<1>7. BridgePhase' = [BridgePhase EXCEPT ![r] = "open"]
  BY <1>5, BridgeIs
<1>8. Ledger!Open(r)
  BY <1>2, <1>6, <1>7, BridgeIs DEF Ledger!Open
<1> QED BY <1>8 DEF Ledger!Next

\* The backend is started again: every open exchange is over.
LEMMA RestartEnds ==
    ASSUME TypeOK, Restart, \A x \in Runs : RunOK(x)
    PROVE  Ledger!Next
<1>1. ASSUME NEW x \in Runs
      PROVE  Bridge(x)' = IF x \in Working THEN "over" ELSE Bridge(x)
  <2>1. status'[x] = IF x \in Sessions THEN "lost" ELSE status[x]
    BY <1>1 DEF Restart
  <2>2. status[x] \in Seen
    BY <1>1 DEF TypeOK
  <2> QED BY <1>1, <2>1, <2>2 DEF Bridge, Sessions, Working, Live, Terminal, Seen
<1>2. \A x \in Working : x \in Runs /\ Bridge(x) \in {"open", "stopping"}
  BY DEF Working, Bridge, Live
<1>3. UNCHANGED <<passNo, accepted, used>>
  BY DEF Restart
<1>4. Ledger!End(Working)
  BY <1>1, <1>2, <1>3, BridgeIs DEF Ledger!End
<1> QED BY <1>2, <1>4 DEF Ledger!Next

\* A session that ends.
LEMMA FinishEnds ==
    ASSUME TypeOK, NEW r \in Runs, RunOK(r), FinishStored(r) \/ FinishFallen(r)
    PROVE  Ledger!Next
<1>1. status[r] \in Live
  BY DEF FinishStored, FinishFallen, RunOK, LifeOK, InTask
<1>2. /\ \E verdict \in Terminal : status' = [status EXCEPT ![r] = verdict]
      /\ UNCHANGED <<stopping, passNo, accepted, used>>
  BY DEF FinishStored, FinishFallen, Finish, RunOK, RowOK, Terminal
<1>3. ASSUME NEW x \in Runs
      PROVE  Bridge(x)' = IF x \in {r} THEN "over" ELSE Bridge(x)
  BY <1>2, <1>3 DEF Bridge, Live, Terminal, TypeOK
<1>4. Bridge(r) \in {"open", "stopping"}
  BY <1>1 DEF Bridge, Live
<1>5. Ledger!End({r})
  BY <1>2, <1>3, <1>4, BridgeIs DEF Ledger!End
<1>6. {r} \in SUBSET Runs
  OBVIOUS
<1> QED BY <1>5, <1>6 DEF Ledger!Next

LEMMA AskAsks ==
    ASSUME TypeOK, NEW r \in Runs, RunOK(r), Ask(r)
    PROVE  Ledger!Next
<1>1. status[r] \in Live /\ ~stopping[r]
  BY DEF Ask, RunOK, LifeOK, InTask
<1>2. ASSUME NEW x \in Runs
      PROVE  Bridge(x)' = Bridge(x)
  BY <1>1, <1>2 DEF Ask, Bridge, Live, TypeOK
<1>3. Bridge(r) = "open"
  BY <1>1 DEF Bridge, Live
<1>4. passNo[r] = 0 \/ used[r][passNo[r]] # NoAnswer
  BY DEF Ask, RunOK, PassOK
<1>5. Ledger!Ask(r)
  BY <1>2, <1>3, <1>4, BridgeIs DEF Ask, Ledger!Ask
<1> QED BY <1>5 DEF Ledger!Next

LEMMA SubmitAnswers ==
    ASSUME TypeOK, NEW r \in Runs, NEW n \in Passes, NEW a \in Answers, Submit(r, n, a)
    PROVE  Ledger!Next
<1>1. ASSUME NEW x \in Runs
      PROVE  Bridge(x)' = Bridge(x)
  BY <1>1 DEF Submit, Bridge, Live, TypeOK
<1>2. Bridge(r) = "open"
  BY DEF Submit, Bridge, Live
<1>3. passNo[r] = n /\ passNo[r] > 0
  BY CodexAssumption DEF Submit, Passes
<1>4. Ledger!Answer(r, a)
  BY <1>1, <1>2, <1>3, BridgeIs DEF Submit, Ledger!Answer
<1> QED BY <1>4 DEF Ledger!Next

LEMMA WakeUses ==
    ASSUME TypeOK, NEW r \in Runs, RunOK(r), Wake(r)
    PROVE  Ledger!Next \/ UNCHANGED Ledger!ledger
<1>1. status[r] \in Live
  BY DEF Wake, RunOK, LifeOK, InTask
<1>2. ASSUME NEW x \in Runs
      PROVE  Bridge(x)' = Bridge(x)
  BY <1>1, <1>2 DEF Wake, Bridge, Live, Terminal, TypeOK
<1>3. Bridge(r) \in {"open", "stopping"}
  BY <1>1 DEF Bridge, Live
<1>4. CASE pending[r] = "answered"
  <2>1. /\ passNo[r] > 0 /\ used[r][passNo[r]] = NoAnswer
        /\ accepted[r][passNo[r]] # NoAnswer
    BY <1>4 DEF Wake, RunOK, PassOK
  <2>2. Ledger!Use(r)
    BY <1>2, <1>3, <1>4, <2>1, BridgeIs DEF Wake, Ledger!Use
  <2> QED BY <2>2 DEF Ledger!Next
<1>5. CASE pending[r] # "answered"
  <2>1. UNCHANGED <<passNo, accepted, used>>
    BY <1>5 DEF Wake
  <2> QED BY <1>2, <2>1, Stutters
<1> QED BY <1>4, <1>5

\* Every step is one of the ledger's, or none.
LEMMA StepSimulates ==
    ASSUME TypeOK, \A r \in Runs : RunOK(r), SharedOK, [Next]_vars
    PROVE  [Ledger!Next]_Ledger!ledger
<1> DEFINE Goal == Ledger!Next \/ UNCHANGED Ledger!ledger
<1> SUFFICES Goal
  OBVIOUS
<1>0. ASSUME UNCHANGED session
      PROVE  Goal
  <2>1. UNCHANGED <<passNo, accepted, used>> /\ \A r \in Runs : Bridge(r)' = Bridge(r)
    BY <1>0 DEF session, Bridge
  <2> QED BY <2>1, Stutters
<1>a. ASSUME NEW rs \in SUBSET Working, Cancelled(rs)
      PROVE  Goal
  BY <1>a, CancelledStops
<1>1. CASE UNCHANGED vars
  BY <1>0, <1>1 DEF vars
<1>2. ASSUME NEW r \in Runs, RunStep(r)
      PROVE  Goal
  <2>0. RunOK(r)
    BY <1>2
  <2>1. CASE Ask(r)
    BY <2>0, <2>1, AskAsks
  <2>2. CASE Wake(r)
    BY <2>0, <2>2, WakeUses
  <2>3. CASE FinishStored(r) \/ FinishFallen(r)
    BY <2>0, <2>3, FinishEnds
  <2>4. ASSUME NEW n \in Passes, NEW a \in Answers, Submit(r, n, a)
        PROVE  Goal
    BY <2>4, SubmitAnswers
  <2>5. CASE PassTimesOut(r)
    <3>1. UNCHANGED <<status, stopping, passNo, accepted, used>>
      BY <2>5 DEF PassTimesOut
    <3>2. \A x \in Runs : Bridge(x)' = Bridge(x)
      BY <3>1 DEF Bridge
    <3> QED BY <3>1, <3>2, Stutters
  <2>6. CASE Stop(r)
    <3>1. {r} \in SUBSET Working /\ Cancelled({r})
      BY <2>6 DEF Stop, Working
    <3> QED BY <1>a, <3>1
  <2>7. CASE StartDirect(r) \/ EnqueueStart(r)
    <3>1. CreateSession(r) /\ status[r] = "none"
      BY <2>0, <2>7 DEF StartDirect, EnqueueStart, RunOK, LifeOK
    <3> QED BY <3>1, CreateOpens
  <2>8. CASE \/ Setup(r) \/ Decide(r) \/ GiveUp(r) \/ FailRow(r) \/ Grade(r) \/ Refused(r)
             \/ QueueReads(r) \/ QueueClaims(r) \/ QueueFails(r)
             \/ EnqueueEnter(r) \/ EnqueueRefused(r) \/ EnqueueLeave(r)
    <3>1. UNCHANGED session
      BY <2>8 DEF Setup, Decide, GiveUp, FailRow, Grade, Refused, QueueReads,
                  QueueClaims, QueueFails, EnqueueEnter, EnqueueRefused, EnqueueLeave
    <3> QED BY <1>0, <3>1
  <2> HIDE DEF Goal
  <2> QED BY <1>2, <2>1, <2>2, <2>3, <2>4, <2>5, <2>6, <2>7, <2>8 DEF RunStep, Harness
<1>3. ASSUME NEW w \in Workers, WorkerStep(w)
      PROVE  Goal
  <2>1. ASSUME NEW r \in Runs, Claim(w, r)
        PROVE  Goal
    BY <1>0, <2>1 DEF Claim
  <2>2. CASE \A r \in Runs : ~Claim(w, r)
    <3>1. session' = session \/ \E rs \in SUBSET Working : Cancelled(rs)
      BY <1>3, <2>2, WorkerShared
    <3> QED BY <1>0, <1>a, <3>1
  <2> QED BY <2>1, <2>2
<1>4. CASE Expire \/ Watch \/ Close
  <2>1. ActiveJobs \in SUBSET Working /\ Working \in SUBSET Working
    BY DEF ActiveJobs, Working
  <2>2. session' = session \/ \E rs \in SUBSET Working : Cancelled(rs)
    BY <1>4, <2>1 DEF Expire, Watch, Close
  <2> QED BY <1>0, <1>a, <2>2
<1>5. CASE Restart
  BY <1>5, RestartEnds
<1> HIDE DEF Goal
<1> QED BY <1>1, <1>2, <1>3, <1>4, <1>5 DEF Next

----------------------------------------------------------------------------
(* What holds of every behaviour.                                          *)

\* The variables of the Codex desk keep their types.
THEOREM TypeCorrect == Spec => []TypeOK
<1>1. IInv => TypeOK
  BY DEF IInv
<1> QED BY <1>1, Invariance, PTL

\* However queue, UI and direct clients interleave with the awaits of enqueue and
\* start, one job is active at most and no more than MaxActive runs are.
THEOREM AdmissionAlwaysHolds == Spec => []AdmissionHolds
<1>1. IInv => AdmissionHolds
  BY DEF IInv
<1> QED BY <1>1, Invariance, PTL

\* Two workers never carry out the same run, and a child works on a pass that
\* the run has asked for.
THEOREM OneWorkerAlways == Spec => []OneWorkerPerRun
<1>1. IInv => OneWorkerPerRun
  BY DEF IInv
<1> QED BY <1>1, Invariance, PTL

\* What the bridge tells of an ended run is what its row says, as long as the
\* database took every write.
THEOREM SessionAlwaysTellsTheRow == Spec => []SessionTellsTheRow
<1>1. IInv => SessionTellsTheRow
  BY DEF IInv
<1> QED BY <1>1, Invariance, PTL

\* Once a backend has started its first run, every running row belongs to a run
\* it is working on, and at any time a run it is working on has a running row.
THEOREM NeverOrphanRows == Spec => []NoOrphanRows
<1>1. IInv => NoOrphanRows
  BY DEF IInv
<1> QED BY <1>1, Invariance, PTL

\* The bridge, its service, jobs, workers, faults and restarts implement the
\* ledger of exchanges: an accepted answer is final, belongs to the pass that was
\* pending and is the one the harness goes on with, and a stopped run asks and
\* accepts nothing.
THEOREM CodexImplementsLedger == Spec => ImplementsLedger
<1>1. Init => Ledger!Init
  BY DEF Init, Ledger!Init, BridgePhase, Passes
<1>2. IInv /\ [Next]_vars => [Ledger!Next]_Ledger!ledger
  BY IInvParts, StepSimulates
<1> QED BY <1>1, <1>2, Invariance, PTL DEF Spec, ImplementsLedger, Ledger!Spec

=============================================================================
