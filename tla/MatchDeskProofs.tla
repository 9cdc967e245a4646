-------------------------- MODULE MatchDeskProofs --------------------------
(***************************************************************************)
(* Proofs about MatchDesk, for every set of matches, folders and callers,  *)
(* every limit, game length and number of faults.                          *)
(***************************************************************************)
EXTENDS MatchDesk, FiniteSetTheorems, TLAPS

----------------------------------------------------------------------------
(* What each update of a row does to it.                                   *)

LEMMA SettledEvents ==
  ASSUME NEW es \in Seq(Event), NEW st \in {"complete", "failed"}
  PROVE  /\ Settled(es, st) \in Seq(Event)
         /\ Len(Settled(es, st)) = Len(es)
         /\ \A i \in 1..Len(es) :
                /\ Settled(es, st)[i].status # "active"
                /\ Settled(es, st)[i].phase = es[i].phase
<1> DEFINE S == Settled(es, st)
<1>1. DOMAIN es = 1..Len(es) /\ Len(es) \in Nat /\ \A i \in 1..Len(es) : es[i] \in Event
  OBVIOUS
<1>2. S = [i \in 1..Len(es) |->
              IF es[i].status = "active" THEN [es[i] EXCEPT !.status = st] ELSE es[i]]
  BY <1>1 DEF Settled
<1>3. ASSUME NEW i \in 1..Len(es)
      PROVE  S[i] \in Event /\ S[i].status # "active" /\ S[i].phase = es[i].phase
  <2>1. es[i] \in Event
    BY <1>1
  <2> QED BY <2>1, <1>2 DEF Event
<1>4. S \in Seq(Event) /\ Len(S) = Len(es)
  BY <1>1, <1>2, <1>3
<1> QED BY <1>3, <1>4

LEMMA NotedEvents ==
  ASSUME NEW es \in Seq(Event), NEW ph \in {"plan", "act", "verify"},
         NEW ply \in Nat, NEW st \in {"active", "complete", "failed"}
  PROVE  /\ Noted(es, ph, ply, st) \in Seq(Event)
         /\ Len(Noted(es, ph, ply, st)) = Len(es) + 1
         /\ \A i \in 1..Len(es) : Noted(es, ph, ply, st)[i] = es[i]
         /\ Noted(es, ph, ply, st)[Len(es) + 1]
                = [phase |-> ph, ply |-> ply, status |-> st]
<1> DEFINE e == [phase |-> ph, ply |-> ply, status |-> st]
<1>1. e \in Event
  BY DEF Event
<1>2. Noted(es, ph, ply, st) = Append(es, e)
  BY DEF Noted
<1> QED BY <1>1, <1>2

LEMMA NewRows ==
  /\ NoMatch \in Row /\ RowOK(NoMatch) /\ NoMatch.status = "absent" /\ NoMatch.moves = 0
  /\ Deleted \in Row /\ RowOK(Deleted) /\ Deleted.status = "deleted" /\ Deleted.moves = 0
  /\ \A f \in Filing :
       /\ Created(f) \in Row /\ RowOK(Created(f)) /\ NoTurnAnnounced(Created(f))
       /\ Created(f).status = "running" /\ Created(f).moves = 0
<1>1. <<>> \in Seq(Event) /\ DOMAIN <<>> = {} /\ Len(<<>>) = 0 /\ 0..0 = {0}
  OBVIOUS
<1>2. NoMatch \in Row /\ RowOK(NoMatch) /\ NoMatch.status = "absent" /\ NoMatch.moves = 0
  BY <1>1 DEF NoMatch, Row, Statuses, Verdicts, Filing, RowOK, OrderlyTrace
<1>3. Deleted \in Row /\ RowOK(Deleted) /\ Deleted.status = "deleted" /\ Deleted.moves = 0
  BY <1>1 DEF NoMatch, Deleted, Row, Statuses, Verdicts, Filing, RowOK, OrderlyTrace
<1>4. ASSUME NEW f \in Filing
      PROVE  /\ Created(f) \in Row /\ RowOK(Created(f)) /\ NoTurnAnnounced(Created(f))
             /\ Created(f).status = "running" /\ Created(f).moves = 0
  <2>1. Created(f) = [status |-> "running", moves |-> 0, plies |-> {0},
                      events |-> <<>>, folder |-> f]
    BY DEF Created
  <2>2. Created(f) \in Row
    <3>1. "running" \in Statuses /\ 0 \in Nat /\ {0} \in SUBSET Nat
      BY DEF Statuses
    <3> QED BY <2>1, <3>1, <1>1 DEF Row
  <2>3. RowOK(Created(f)) /\ NoTurnAnnounced(Created(f))
    BY <2>1, <1>1 DEF Verdicts, RowOK, OrderlyTrace, NoTurnAnnounced
  <2> QED BY <2>1, <2>2, <2>3
<1> QED BY <1>2, <1>3, <1>4

LEMMA TurnedRow ==
  ASSUME NEW r \in Row, RowOK(r), r.status = "running", NoTurnAnnounced(r)
  PROVE  /\ Turned(r, r.moves) \in Row /\ RowOK(Turned(r, r.moves))
         /\ Turned(r, r.moves).status = "running"
         /\ Turned(r, r.moves).moves = r.moves
<1> DEFINE es == Noted(r.events, "plan", r.moves, "active")
           t == Turned(r, r.moves)
<1>1. r.moves \in Nat /\ r.events \in Seq(Event) /\ r.plies = 0..r.moves
  BY DEF Row, RowOK
<1>2. t = [r EXCEPT !.events = es]
  BY DEF Turned
<1>3. /\ es \in Seq(Event) /\ Len(es) = Len(r.events) + 1
      /\ \A i \in 1..Len(r.events) : es[i] = r.events[i]
      /\ es[Len(r.events) + 1] = [phase |-> "plan", ply |-> r.moves, status |-> "active"]
  BY <1>1, NotedEvents
<1>4. t \in Row /\ t.status = "running" /\ t.moves = r.moves /\ t.events = es
      /\ t.plies = r.plies
  BY <1>2, <1>3 DEF Row
<1>5. \A i \in 1..Len(r.events) :
        r.events[i].status # "active" /\ r.events[i].phase # "verify"
  BY <1>1 DEF NoTurnAnnounced, RowOK, OrderlyTrace, Verdicts
<1>6. DOMAIN es = 1..(Len(r.events) + 1) /\ Len(r.events) \in Nat
  BY <1>1, <1>3
<1>7. OrderlyTrace(t)
  <2>1. ASSUME NEW i \in DOMAIN t.events
        PROVE  /\ t.events[i].status = "active" =>
                     /\ i = Len(t.events)
                     /\ t.status = "running"
                     /\ t.events[i].phase = "plan" /\ t.events[i].ply = t.moves
               /\ t.events[i].phase # "verify"
    <3>1. CASE i = Len(r.events) + 1
      BY <3>1, <1>3, <1>4
    <3>2. CASE i \in 1..Len(r.events)
      BY <3>2, <1>3, <1>4, <1>5
    <3> QED BY <3>1, <3>2, <1>4, <1>6
  <2>2. t.status \notin Verdicts
    BY <1>4 DEF Verdicts
  <2> QED BY <2>1, <2>2 DEF OrderlyTrace
<1> QED BY <1>1, <1>4, <1>7 DEF RowOK

LEMMA AppendedRow ==
  ASSUME NEW r \in Row, RowOK(r), r.status = "running"
  PROVE  LET t == Appended(r, r.moves + 1)
         IN  /\ t \in Row /\ RowOK(t) /\ NoTurnAnnounced(t)
             /\ t.status = "running" /\ t.moves = r.moves + 1
<1> DEFINE old == Settled(r.events, "complete")
           es == Noted(old, "act", r.moves + 1, "complete")
           t == Appended(r, r.moves + 1)
<1>1. r.moves \in Nat /\ r.events \in Seq(Event) /\ r.plies = 0..r.moves
  BY DEF Row, RowOK
<1>2. t = [r EXCEPT !.plies = r.plies \cup {r.moves + 1}, !.moves = r.moves + 1,
                    !.events = es]
  BY DEF Appended
<1>3. /\ old \in Seq(Event) /\ Len(old) = Len(r.events)
      /\ \A i \in 1..Len(r.events) :
             old[i].status # "active" /\ old[i].phase = r.events[i].phase
  <2>1. "complete" \in {"complete", "failed"}
    OBVIOUS
  <2> QED BY <2>1, <1>1, SettledEvents
<1> HIDE DEF old
<1>4. /\ es \in Seq(Event) /\ Len(es) = Len(old) + 1
      /\ \A i \in 1..Len(old) : es[i] = old[i]
      /\ es[Len(old) + 1] = [phase |-> "act", ply |-> r.moves + 1, status |-> "complete"]
  <2>1. /\ "act" \in {"plan", "act", "verify"} /\ r.moves + 1 \in Nat
        /\ "complete" \in {"active", "complete", "failed"}
    BY <1>1
  <2> QED BY <2>1, <1>3, NotedEvents
<1> HIDE DEF es
<1>5. r.plies \cup {r.moves + 1} = 0..(r.moves + 1)
  BY <1>1
<1>6. t \in Row /\ t.status = "running" /\ t.moves = r.moves + 1 /\ t.events = es
      /\ t.plies = 0..(r.moves + 1)
  <2>1. r.plies \cup {r.moves + 1} \in SUBSET Nat /\ r.moves + 1 \in Nat
    BY <1>1, <1>5
  <2> DEFINE u == [r EXCEPT !.plies = r.plies \cup {r.moves + 1}]
             w == [u EXCEPT !.moves = r.moves + 1]
  <2>2. u \in Row /\ u.status = "running" /\ u.plies = 0..(r.moves + 1)
    BY <2>1, <1>5 DEF Row
  <2>3. t = [w EXCEPT !.events = es]
    BY <1>2
  <2> HIDE DEF u, t
  <2>4. w \in Row /\ w.status = "running" /\ w.plies = 0..(r.moves + 1)
        /\ w.moves = r.moves + 1
    BY <2>1, <2>2 DEF Row
  <2> HIDE DEF w
  <2> QED BY <2>3, <2>4, <1>4 DEF Row
<1>7. \A i \in 1..Len(r.events) : r.events[i].phase # "verify"
  BY <1>1 DEF RowOK, OrderlyTrace, Verdicts
<1>8. DOMAIN es = 1..(Len(r.events) + 1) /\ Len(r.events) \in Nat
  BY <1>1, <1>3, <1>4
<1>9. ASSUME NEW i \in DOMAIN t.events
      PROVE  t.events[i].status # "active" /\ t.events[i].phase # "verify"
  <2>1. CASE i = Len(r.events) + 1
    BY <2>1, <1>3, <1>4, <1>6
  <2>2. CASE i \in 1..Len(r.events)
    BY <2>2, <1>3, <1>4, <1>6, <1>7
  <2> QED BY <2>1, <2>2, <1>6, <1>8
<1>10. t.status \notin Verdicts \cup {"absent", "deleted"}
  BY <1>6 DEF Verdicts
<1>11. NoTurnAnnounced(t)
  BY <1>9 DEF NoTurnAnnounced
<1>12. OrderlyTrace(t)
  BY <1>9, <1>10 DEF OrderlyTrace
<1>13. RowOK(t)
  BY <1>6, <1>10, <1>12 DEF RowOK
<1> QED BY <1>6, <1>11, <1>13

LEMMA ClosedEvents ==
  ASSUME NEW es \in Seq(Event), NEW n \in Nat, NEW st \in {"complete", "failed"}
  PROVE  LET all == Noted(Settled(es, st), "verify", n, st)
         IN  /\ all \in Seq(Event) /\ Len(all) = Len(es) + 1
             /\ \A i \in 1..Len(es) :
                    all[i].status # "active" /\ all[i].phase = es[i].phase
             /\ all[Len(es) + 1] = [phase |-> "verify", ply |-> n, status |-> st]
<1>1. /\ "verify" \in {"plan", "act", "verify"}
      /\ st \in {"active", "complete", "failed"}
  OBVIOUS
<1>2. /\ Settled(es, st) \in Seq(Event) /\ Len(Settled(es, st)) = Len(es)
      /\ \A i \in 1..Len(es) : /\ Settled(es, st)[i].status # "active"
                               /\ Settled(es, st)[i].phase = es[i].phase
  BY SettledEvents
<1> DEFINE old == Settled(es, st)
<1> HIDE DEF old
<1>3. LET all == Noted(old, "verify", n, st)
      IN  /\ all \in Seq(Event) /\ Len(all) = Len(old) + 1
          /\ \A i \in 1..Len(old) : all[i] = old[i]
          /\ all[Len(old) + 1] = [phase |-> "verify", ply |-> n, status |-> st]
  <2>1. old \in Seq(Event)
    BY <1>2 DEF old
  <2>2. [phase |-> "verify", ply |-> n, status |-> st] \in Event
    BY <1>1 DEF Event
  <2> QED BY <2>1, <2>2 DEF Noted
<1> QED BY <1>2, <1>3 DEF old

LEMMA FinishedRow ==
  ASSUME NEW r \in Row, RowOK(r), NEW v \in Verdicts
  PROVE  LET t == Finished(r, v)
         IN  /\ t \in Row /\ RowOK(t)
             /\ r.status = "running" => t.status = v
             /\ r.status # "running" => t = r
             /\ t.moves = r.moves
<1> DEFINE t == Finished(r, v)
<1>1. CASE r.status # "running"
  BY <1>1 DEF Finished
<1>2. CASE r.status = "running"
  <2>1. r.moves \in Nat /\ r.events \in Seq(Event) /\ r.plies = 0..r.moves
    BY <1>2 DEF Row, RowOK
  <2>2. PICK st \in {"complete", "failed"} :
            t = [r EXCEPT !.status = v,
                          !.events = Noted(Settled(r.events, st), "verify", r.moves, st)]
    <3>1. CASE v = "failed"
      BY <1>2, <3>1 DEF Finished
    <3>2. CASE v # "failed"
      BY <1>2, <3>2 DEF Finished
    <3> QED BY <3>1, <3>2
  <2> DEFINE es == Noted(Settled(r.events, st), "verify", r.moves, st)
  <2>3. /\ es \in Seq(Event) /\ Len(es) = Len(r.events) + 1
        /\ \A i \in 1..Len(r.events) :
               es[i].status # "active" /\ es[i].phase = r.events[i].phase
        /\ es[Len(r.events) + 1] = [phase |-> "verify", ply |-> r.moves, status |-> st]
    BY <2>1, ClosedEvents
  <2>4. t = [r EXCEPT !.status = v, !.events = es]
    BY <2>2
  <2> HIDE DEF es, t
  <2>5. t \in Row /\ t.status = v /\ t.moves = r.moves /\ t.events = es /\ t.plies = r.plies
    <3> DEFINE u == [r EXCEPT !.status = v]
    <3>1. u \in Row /\ u.status = v /\ u.moves = r.moves /\ u.plies = r.plies
      BY DEF Row, Statuses
    <3>2. t = [u EXCEPT !.events = es]
      BY <2>4
    <3> HIDE DEF u
    <3> QED BY <3>1, <3>2, <2>3 DEF Row
  <2>6. \A i \in 1..Len(r.events) : r.events[i].phase # "verify"
    BY <2>1, <1>2 DEF RowOK, OrderlyTrace, Verdicts
  <2>7. DOMAIN es = 1..(Len(r.events) + 1) /\ Len(r.events) \in Nat
    BY <2>1, <2>3
  <2>8. ASSUME NEW i \in DOMAIN t.events
        PROVE  /\ t.events[i].status # "active"
               /\ t.events[i].phase = "verify" => i = Len(t.events)
    <3>1. CASE i = Len(r.events) + 1
      BY <3>1, <2>3, <2>5
    <3>2. CASE i \in 1..Len(r.events)
      BY <3>2, <2>3, <2>5, <2>6
    <3> QED BY <3>1, <3>2, <2>5, <2>7
  <2>9. Len(t.events) > 0 /\ t.events[Len(t.events)].phase = "verify"
    BY <2>3, <2>5, <2>7
  <2>10. OrderlyTrace(t)
    BY <2>5, <2>8, <2>9 DEF OrderlyTrace
  <2>11. RowOK(t)
    BY <2>1, <2>5, <2>10 DEF RowOK, Verdicts
  <2> QED BY <1>2, <2>5, <2>11 DEF t
<1> QED BY <1>1, <1>2

LEMMA FiledRow ==
  ASSUME NEW r \in Row, RowOK(r), NEW f \in Filing
  PROVE  LET t == [r EXCEPT !.folder = f]
         IN  /\ t \in Row /\ RowOK(t) /\ t.status = r.status /\ t.moves = r.moves
             /\ t.events = r.events
<1> DEFINE t == [r EXCEPT !.folder = f]
<1>1. t \in Row /\ t.status = r.status /\ t.moves = r.moves /\ t.events = r.events
      /\ t.plies = r.plies
  BY DEF Row
<1>2. RowOK(t)
  BY <1>1 DEF RowOK, OrderlyTrace
<1> QED BY <1>1, <1>2

----------------------------------------------------------------------------
(* How the invariant survives a step that touches one match, or none.      *)

LEMMA ActiveShrinks ==
  ASSUME \A m \in Matches : row'[m].status = "running" => row[m].status = "running"
  PROVE  /\ Cardinality(Active) \in Nat /\ Cardinality(Active') \in Nat
         /\ Cardinality(Active') <= Cardinality(Active)
<1>1. IsFiniteSet(Matches)
  BY DeskAssumption
<1>2. Active \in SUBSET Matches /\ Active' \in SUBSET Active
  BY DEF Active
<1>3. IsFiniteSet(Active)
  BY <1>1, <1>2, FS_Subset
<1>4. IsFiniteSet(Active') /\ Cardinality(Active') <= Cardinality(Active)
  BY <1>2, <1>3, FS_Subset
<1> QED BY <1>3, <1>4, FS_CardinalityType

LEMMA LimitsKept ==
  ASSUME IInv, process' = process, starting' = starting,
         \A m \in Matches : row'[m].status = "running" => row[m].status = "running"
  PROVE  AdmissionLimit' /\ StartInv'
<1>1. /\ Cardinality(Active) \in Nat /\ Cardinality(Active') \in Nat
      /\ Cardinality(Active') <= Cardinality(Active)
  BY ActiveShrinks
<1>2. MaxActive \in Nat
  BY DeskAssumption
<1> QED BY <1>1, <1>2 DEF IInv, AdmissionLimit, StartInv

LEMMA OtherMatch ==
  ASSUME NEW o \in Matches, RowOK(row[o]), TaskOK(o),
         row'[o] = row[o], pc'[o] = pc[o], board'[o] = board[o],
         cancelled'[o] = cancelled[o], o \in tasks' <=> o \in tasks,
         Live(o) => process' \in {"serving", "closing"}
  PROVE  RowOK(row'[o]) /\ TaskOK(o)'
BY DEF TaskOK, Live

LEMMA OneMatch ==
  ASSUME IInv, TypeOK', NEW m \in Matches,
         process' = process, starting' = starting,
         \A o \in Matches \ {m} :
             /\ row'[o] = row[o] /\ pc'[o] = pc[o] /\ board'[o] = board[o]
             /\ cancelled'[o] = cancelled[o] /\ (o \in tasks' <=> o \in tasks),
         row'[m].status = "running" => row[m].status = "running",
         RowOK(row'[m]), TaskOK(m)',
         pc'[m] = "loop" => \A o \in Matches \ {m} : pc[o] # "loop"
  PROVE  IInv'
<1>1. AdmissionLimit' /\ StartInv'
  <2>1. \A o \in Matches : row'[o].status = "running" => row[o].status = "running"
    OBVIOUS
  <2> QED BY <2>1, LimitsKept
<1>2. LoopInv'
  BY DEF IInv, LoopInv
<1>3. ASSUME NEW o \in Matches
      PROVE  RowOK(row'[o]) /\ TaskOK(o)'
  <2>1. CASE o = m
    BY <2>1
  <2>2. CASE o # m
    <3>1. RowOK(row[o]) /\ TaskOK(o)
      BY DEF IInv
    <3>2. Live(o) => process' \in {"serving", "closing"}
      BY <3>1 DEF TaskOK
    <3> QED BY <2>2, <3>1, <3>2, OtherMatch
  <2> QED BY <2>1, <2>2
<1> QED BY <1>1, <1>2, <1>3 DEF IInv

LEMMA EndsInv ==
  ASSUME IInv, NEW m \in Matches, Ends(m), NEW r \in Row, RowOK(r),
         row' = [row EXCEPT ![m] = r], faults' \in Nat,
         r.status = "running" => row[m].status = "running"
  PROVE  IInv'
<1> USE DEF Ends
<1>1. TypeOK
  BY DEF IInv
<1>2. TypeOK'
  BY <1>1 DEF TypeOK
<1>3. row'[m] = r /\ pc'[m] = "none" /\ cancelled'[m] = FALSE /\ m \notin tasks'
  BY <1>1 DEF TypeOK
<1>4. TaskOK(m)'
  BY <1>3 DEF TaskOK, Live
<1>5. \A o \in Matches \ {m} :
        /\ row'[o] = row[o] /\ pc'[o] = pc[o] /\ board'[o] = board[o]
        /\ cancelled'[o] = cancelled[o] /\ (o \in tasks' <=> o \in tasks)
  BY <1>1 DEF TypeOK
<1> QED BY <1>2, <1>3, <1>4, <1>5, OneMatch

LEMMA EndsUnstored ==
  ASSUME IInv, NEW m \in Matches, Ends(m), UNCHANGED row, faults' \in Nat
  PROVE  IInv'
<1>1. row[m] \in Row /\ RowOK(row[m]) /\ row' = [row EXCEPT ![m] = row[m]]
  BY DEF IInv, TypeOK
<1> QED BY <1>1, EndsInv

LEMMA EndsStored ==
  ASSUME IInv, NEW m \in Matches, Ends(m), NEW v \in Verdicts,
         row' = [row EXCEPT ![m] = Finished(@, v)], faults' \in Nat
  PROVE  IInv'
<1> DEFINE r == Finished(row[m], v)
<1>1. row[m] \in Row /\ RowOK(row[m])
  BY DEF IInv, TypeOK
<1>2. /\ r \in Row /\ RowOK(r)
      /\ r.status = "running" => row[m].status = "running"
  <2>1. "running" \notin Verdicts
    BY DEF Verdicts
  <2> QED BY <1>1, <2>1, FinishedRow
<1> QED BY <1>2, EndsInv

LEMMA FailsAfterInv ==
  ASSUME IInv, NEW m \in Matches, NEW n \in Nat, FailsAfter(m, n)
  PROVE  IInv'
<1>1. faults \in Nat /\ "failed" \in Verdicts /\ Ends(m) /\ faults' \in Nat
  BY DEF IInv, TypeOK, FailsAfter, Faults, Verdicts
<1>2. CASE row' = [row EXCEPT ![m] = Finished(@, "failed")]
  BY <1>1, <1>2, EndsStored
<1>3. CASE UNCHANGED row
  BY <1>1, <1>3, EndsUnstored
<1> QED BY <1>2, <1>3 DEF FailsAfter

LEMMA ConcludesInv ==
  ASSUME IInv, NEW m \in Matches, NEW v \in Verdicts, Concludes(m, v)
  PROVE  IInv'
<1>1. CASE FailsAfter(m, 1)
  BY <1>1, FailsAfterInv
<1>2. CASE Faults(0) /\ row' = [row EXCEPT ![m] = Finished(@, v)] /\ Ends(m)
  <2>1. faults' \in Nat
    BY <1>2 DEF IInv, TypeOK, Faults
  <2> QED BY <1>2, <2>1, EndsStored
<1> QED BY <1>1, <1>2 DEF Concludes

----------------------------------------------------------------------------
(* The invariant holds initially and survives every step.                  *)

LEMMA InitInv == Init => IInv
<1> SUFFICES ASSUME Init PROVE IInv
  OBVIOUS
<1> USE DEF Init
<1>1. TypeOK
  BY NewRows DEF TypeOK, Filing
<1>2. Active = {} /\ Cardinality(Active) = 0
  <2>1. \A m \in Matches : row[m].status # "running"
    BY NewRows
  <2> QED BY <2>1, FS_EmptySet DEF Active
<1>3. AdmissionLimit /\ StartInv
  BY <1>2, DeskAssumption DEF AdmissionLimit, StartInv
<1>4. LoopInv
  BY DEF LoopInv
<1>5. \A m \in Matches : RowOK(row[m]) /\ TaskOK(m)
  BY NewRows DEF TaskOK, Live
<1> QED BY <1>1, <1>3, <1>4, <1>5 DEF IInv

LEMMA QuietInv ==
  ASSUME IInv, TypeOK', UNCHANGED <<row, pc, board, cancelled, tasks>>, StartInv',
         \A o \in Matches : Live(o) => process' \in {"serving", "closing"}
  PROVE  IInv'
<1>1. AdmissionLimit'
  BY DEF IInv, AdmissionLimit, Active
<1>2. LoopInv'
  BY DEF IInv, LoopInv
<1>3. \A o \in Matches : RowOK(row'[o]) /\ TaskOK(o)'
  BY OtherMatch DEF IInv
<1> QED BY <1>1, <1>2, <1>3 DEF IInv

LEMMA StartCheckInv ==
  ASSUME IInv, NEW c \in Callers, NEW f \in Filing, StartCheck(c, f)
  PROVE  IInv'
<1> USE DEF StartCheck
<1>1. TypeOK'
  BY DEF IInv, TypeOK
<1>2. StartInv'
  BY DEF IInv, TypeOK, StartInv, Active, OnLoop
<1>3. \A o \in Matches : Live(o) => process' \in {"serving", "closing"}
  BY DEF IInv, TaskOK
<1> QED BY <1>1, <1>2, <1>3, QuietInv

LEMMA StartFailsInv ==
  ASSUME IInv, NEW c \in Callers, StartFails(c)
  PROVE  IInv'
<1> USE DEF StartFails
<1>1. TypeOK'
  BY DEF IInv, TypeOK, Faults
<1>2. StartInv'
  BY DEF IInv, TypeOK, StartInv, Active
<1>3. \A o \in Matches : Live(o) => process' \in {"serving", "closing"}
  BY DEF IInv, TaskOK
<1> QED BY <1>1, <1>2, <1>3, QuietInv

LEMMA StartCreateInv ==
  ASSUME IInv, NEW c \in Callers, NEW m \in Matches, StartCreate(c, m)
  PROVE  IInv'
<1> USE DEF StartCreate
<1>1. TypeOK /\ starting[c] \in Filing
  BY DEF IInv, TypeOK
<1>2. /\ Created(starting[c]) \in Row /\ RowOK(Created(starting[c]))
      /\ NoTurnAnnounced(Created(starting[c]))
      /\ Created(starting[c]).status = "running" /\ Created(starting[c]).moves = 0
  BY <1>1, NewRows
<1>3. TypeOK'
  BY <1>1, <1>2 DEF TypeOK
<1>4. row'[m] = Created(starting[c]) /\ pc'[m] = "loop" /\ board'[m] = 0
      /\ cancelled'[m] = cancelled[m] /\ m \in tasks'
  BY <1>1 DEF TypeOK
<1>5. pc[m] = "none" /\ ~cancelled[m]
  BY <1>1 DEF IInv, TypeOK, TaskOK, Live
<1>6. TaskOK(m)'
  BY <1>2, <1>4, <1>5 DEF TaskOK, Live, OnLoop
<1>7. \A o \in Matches \ {m} :
        /\ row'[o] = row[o] /\ pc'[o] = pc[o] /\ board'[o] = board[o]
        /\ cancelled'[o] = cancelled[o] /\ (o \in tasks' <=> o \in tasks)
  BY <1>1 DEF TypeOK
<1>8. \A o \in Matches : RowOK(row'[o]) /\ TaskOK(o)'
  <2> SUFFICES ASSUME NEW o \in Matches PROVE RowOK(row'[o]) /\ TaskOK(o)'
    OBVIOUS
  <2>1. CASE o = m
    BY <2>1, <1>2, <1>4, <1>6
  <2>2. CASE o # m
    <3>1. RowOK(row[o]) /\ TaskOK(o)
      BY DEF IInv
    <3>2. Live(o) => process' \in {"serving", "closing"}
      BY <3>1 DEF TaskOK
    <3> QED BY <2>2, <1>7, <3>1, <3>2, OtherMatch
  <2> QED BY <2>1, <2>2
<1>9. LoopInv'
  BY <1>4, <1>7 DEF LoopInv, OnLoop
<1>10. AdmissionLimit' /\ StartInv'
  <2>1. Active' = Active \cup {m} /\ m \notin Active
    BY <1>2, <1>4, <1>7 DEF Active
  <2>2. IsFiniteSet(Active)
    BY DeskAssumption, FS_Subset DEF Active
  <2>3. Cardinality(Active') = Cardinality(Active) + 1 /\ Cardinality(Active) \in Nat
    BY <2>1, <2>2, FS_AddElement, FS_CardinalityType
  <2>4. Cardinality(Active) < MaxActive /\ MaxActive \in Nat
    BY DeskAssumption DEF IInv, StartInv
  <2>5. \A d \in Callers : starting'[d] = "idle"
    BY <1>1 DEF IInv, StartInv, TypeOK
  <2> QED BY <2>3, <2>4, <2>5 DEF AdmissionLimit, StartInv
<1> QED BY <1>3, <1>8, <1>9, <1>10 DEF IInv

LEMMA TurnInv ==
  ASSUME IInv, NEW m \in Matches, Turn(m)
  PROVE  IInv'
<1> USE DEF Turn
<1>1. TypeOK /\ row[m] \in Row /\ RowOK(row[m]) /\ TaskOK(m) /\ board[m] \in Nat
  BY DEF IInv, TypeOK
<1>2. CASE row[m].status # "running"
  BY <1>1, <1>2, EndsUnstored DEF TypeOK
<1>3. CASE row[m].status = "running"
  <2>1. board[m] = row[m].moves /\ NoTurnAnnounced(row[m]) /\ ~cancelled[m] /\ m \in tasks
        /\ process \in {"serving", "closing"}
    BY <1>1, <1>3 DEF TaskOK, Live, TypeOK
  <2> DEFINE r == Turned(row[m], row[m].moves)
  <2>2. r \in Row /\ RowOK(r) /\ r.status = "running" /\ r.moves = row[m].moves
    BY <1>1, <1>3, <2>1, TurnedRow
  <2>3. row' = [row EXCEPT ![m] = r]
    BY <1>3, <2>1
  <2> HIDE DEF r
  <2>4. TypeOK'
    BY <1>1, <1>3, <2>2, <2>3 DEF TypeOK
  <2>5. row'[m] = r /\ pc'[m] = "thinking" /\ board'[m] = board[m] /\ ~cancelled'[m]
    BY <1>1, <1>3, <2>1, <2>3 DEF TypeOK
  <2>6. TaskOK(m)'
    BY <1>3, <2>1, <2>2, <2>5 DEF TaskOK, Live
  <2>7. \A o \in Matches \ {m} :
          /\ row'[o] = row[o] /\ pc'[o] = pc[o] /\ board'[o] = board[o]
          /\ cancelled'[o] = cancelled[o] /\ (o \in tasks' <=> o \in tasks)
    BY <1>1, <1>3, <2>3 DEF TypeOK
  <2> QED BY <1>3, <2>2, <2>4, <2>5, <2>6, <2>7, OneMatch
<1> QED BY <1>2, <1>3

LEMMA PlayInv ==
  ASSUME IInv, NEW m \in Matches, Play(m)
  PROVE  IInv'
<1> USE DEF Play
<1>1. TypeOK /\ row[m] \in Row /\ RowOK(row[m]) /\ TaskOK(m) /\ board[m] \in Nat
  BY DEF IInv, TypeOK
<1>2. CASE cancelled[m]
  <2>1. "stopped" \in Verdicts
    BY DEF Verdicts
  <2> QED BY <1>2, <2>1, ConcludesInv
<1>3. CASE ~cancelled[m] /\ row[m].status # "running"
  BY <1>1, <1>3, EndsUnstored DEF TypeOK
<1>4. CASE ~cancelled[m] /\ row[m].status = "running"
  <2>1. board[m] = row[m].moves /\ m \in tasks /\ process \in {"serving", "closing"}
    BY <1>1, <1>4 DEF TaskOK, Live
  <2> DEFINE r == Appended(row[m], row[m].moves + 1)
  <2>2. /\ r \in Row /\ RowOK(r) /\ NoTurnAnnounced(r)
        /\ r.status = "running" /\ r.moves = row[m].moves + 1
    BY <1>1, <1>4, AppendedRow
  <2>3. row' = [row EXCEPT ![m] = r]
    BY <1>4, <2>1
  <2> HIDE DEF r
  <2>4. TypeOK'
    BY <1>1, <1>4, <2>2, <2>3 DEF TypeOK
  <2>5. row'[m] = r /\ pc'[m] = "loop" /\ board'[m] = board[m] + 1 /\ ~cancelled'[m]
    BY <1>1, <1>4, <2>3 DEF TypeOK
  <2>6. TaskOK(m)'
    BY <1>4, <2>1, <2>2, <2>5 DEF TaskOK, Live
  <2>7. \A o \in Matches \ {m} :
          /\ row'[o] = row[o] /\ pc'[o] = pc[o] /\ board'[o] = board[o]
          /\ cancelled'[o] = cancelled[o] /\ (o \in tasks' <=> o \in tasks)
    BY <1>1, <1>4, <2>3 DEF TypeOK
  <2>8. \A o \in Matches \ {m} : pc[o] # "loop"
    BY DEF Running
  <2> QED BY <1>4, <2>2, <2>4, <2>5, <2>6, <2>7, <2>8, OneMatch
<1> QED BY <1>2, <1>3, <1>4

LEMMA EndingStepsInv ==
  ASSUME IInv, NEW m \in Matches,
         GameOver(m) \/ TurnFails(m) \/ PlayFails(m) \/ Cancelled(m)
  PROVE  IInv'
<1>1. "completed" \in Verdicts /\ "stopped" \in Verdicts /\ 0 \in Nat /\ 1 \in Nat
  BY DEF Verdicts
<1>2. CASE GameOver(m)
  BY <1>1, <1>2, ConcludesInv DEF GameOver
<1>3. CASE TurnFails(m)
  BY <1>1, <1>3, FailsAfterInv DEF TurnFails
<1>4. CASE PlayFails(m)
  BY <1>1, <1>4, FailsAfterInv DEF PlayFails
<1>5. CASE Cancelled(m)
  <2>1. faults' \in Nat /\ Ends(m)
    BY <1>5 DEF Cancelled, Faults, IInv, TypeOK
  <2>2. CASE row' = [row EXCEPT ![m] = Finished(@, "stopped")]
    BY <1>1, <2>1, <2>2, EndsStored
  <2>3. CASE UNCHANGED row
    BY <2>1, <2>3, EndsUnstored
  <2> QED BY <1>5, <2>2, <2>3 DEF Cancelled
<1> QED BY <1>2, <1>3, <1>4, <1>5

LEMMA StopInv ==
  ASSUME IInv, NEW m \in Matches, Stop(m)
  PROVE  IInv'
<1> USE DEF Stop
<1>1. TypeOK /\ row[m] \in Row /\ RowOK(row[m]) /\ TaskOK(m)
  BY DEF IInv, TypeOK
<1>2. PICK r \in Row :
        /\ RowOK(r) /\ row' = [row EXCEPT ![m] = r]
        /\ r.status \in {"running", "stopped"} /\ r.moves = row[m].moves
  <2>1. "stopped" \in Verdicts
    BY DEF Verdicts
  <2>2. CASE row' = [row EXCEPT ![m] = Finished(@, "stopped")]
    BY <1>1, <2>1, <2>2, FinishedRow
  <2>3. CASE UNCHANGED row
    BY <1>1, <2>3 DEF TypeOK
  <2> QED BY <2>2, <2>3
<1>3. TypeOK'
  BY <1>1, <1>2 DEF TypeOK, Faults
<1>4. row'[m] = r /\ pc'[m] = pc[m] /\ board'[m] = board[m] /\ cancelled'[m] = (m \in tasks)
  BY <1>1, <1>2 DEF TypeOK
<1>5. pc[m] \in {"none", "thinking"}
  BY <1>1 DEF OnLoop, TypeOK
<1>6. TaskOK(m)'
  BY <1>1, <1>2, <1>4, <1>5 DEF TaskOK, Live
<1>7. \A o \in Matches \ {m} :
        /\ row'[o] = row[o] /\ pc'[o] = pc[o] /\ board'[o] = board[o]
        /\ cancelled'[o] = cancelled[o] /\ (o \in tasks' <=> o \in tasks)
  BY <1>1, <1>2 DEF TypeOK
<1> QED BY <1>2, <1>3, <1>4, <1>5, <1>6, <1>7, OneMatch

LEMMA RowOnlyInv ==
  ASSUME IInv, NEW m \in Matches, NEW r \in Row, RowOK(r), row' = [row EXCEPT ![m] = r],
         UNCHANGED <<folders, process, faults, memory>>,
         r.status = "running" => row[m].status = "running" /\ r.events = row[m].events
                                 /\ r.moves = row[m].moves,
         Live(m) /\ r.status # "running" => row[m].status # "running" /\ r.status # "absent"
  PROVE  IInv'
<1> USE DEF memory
<1>1. TypeOK /\ TaskOK(m)
  BY DEF IInv
<1>2. TypeOK'
  BY <1>1 DEF TypeOK
<1>3. row'[m] = r
  BY <1>1 DEF TypeOK
<1>4. pc[m] = "loop" => row[m].status = "running"
  BY <1>1 DEF TaskOK, Live, TypeOK
<1>5. TaskOK(m)'
  BY <1>1, <1>3, <1>4 DEF TaskOK, Live, NoTurnAnnounced
<1>6. \A o \in Matches \ {m} :
        /\ row'[o] = row[o] /\ pc'[o] = pc[o] /\ board'[o] = board[o]
        /\ cancelled'[o] = cancelled[o] /\ (o \in tasks' <=> o \in tasks)
  BY <1>1 DEF TypeOK
<1>7. pc'[m] = "loop" => \A o \in Matches \ {m} : pc[o] # "loop"
  BY DEF IInv, LoopInv
<1> QED BY <1>2, <1>3, <1>5, <1>6, <1>7, OneMatch

LEMMA ThreadStepsInv ==
  ASSUME IInv, NEW m \in Matches,
         DeleteMatch(m) \/ Recover(m) \/ \E f \in Filing : AssignFolder(m, f)
  PROVE  IInv'
<1>1. row[m] \in Row /\ RowOK(row[m]) /\ TaskOK(m)
  BY DEF IInv, TypeOK
<1>2. CASE DeleteMatch(m)
  BY <1>2, NewRows, RowOnlyInv DEF DeleteMatch, Verdicts
<1>3. CASE Recover(m)
  <2>1. ~Live(m) /\ "failed" \in Verdicts
    BY <1>1, <1>3 DEF TaskOK, Recover, Verdicts
  <2>2. /\ Finished(row[m], "failed") \in Row /\ RowOK(Finished(row[m], "failed"))
        /\ Finished(row[m], "failed").status = "failed"
    BY <1>1, <1>3, <2>1, FinishedRow DEF Recover
  <2> QED BY <1>3, <2>1, <2>2, RowOnlyInv DEF Recover
<1>4. ASSUME NEW f \in Filing, AssignFolder(m, f)
      PROVE  IInv'
  <2> DEFINE r == [row[m] EXCEPT !.folder = f]
  <2>1. r \in Row /\ RowOK(r) /\ r.status = row[m].status /\ r.moves = row[m].moves
        /\ r.events = row[m].events
    BY <1>1, FiledRow
  <2>2. row' = [row EXCEPT ![m] = r] /\ UNCHANGED <<folders, process, faults, memory>>
        /\ r.status # "absent"
    BY <1>4, <2>1 DEF AssignFolder, Verdicts
  <2> HIDE DEF r
  <2> QED BY <2>1, <2>2, RowOnlyInv
<1> QED BY <1>2, <1>3, <1>4

LEMMA CloseInv == IInv /\ Close => IInv'
<1> SUFFICES ASSUME IInv, Close PROVE IInv'
  OBVIOUS
<1> USE DEF Close
<1>1. TypeOK
  BY DEF IInv
<1>2. ASSUME NEW m \in Matches
      PROVE  /\ row'[m] \in Row /\ RowOK(row'[m]) /\ row'[m].moves = row[m].moves
             /\ m \in tasks => row'[m].status # "running" /\
                   (row'[m].status = "absent" => row[m].status = "absent")
             /\ m \notin tasks => row'[m] = row[m]
  <2>1. row[m] \in Row /\ RowOK(row[m]) /\ "stopped" \in Verdicts
    BY <1>1 DEF IInv, TypeOK, Verdicts
  <2>2. row'[m] = IF m \in tasks THEN Finished(row[m], "stopped") ELSE row[m]
    OBVIOUS
  <2> QED BY <2>1, <2>2, FinishedRow
<1>3. TypeOK'
  BY <1>1, <1>2 DEF TypeOK
<1>4. \A m \in Matches : pc[m] # "loop"
  BY DEF OnLoop
<1>5. \A m \in Matches : TaskOK(m)'
  BY <1>1, <1>2, <1>4 DEF IInv, TaskOK, Live, TypeOK
<1>6. LoopInv'
  BY <1>4 DEF LoopInv
<1>7. \A m \in Matches : row'[m].status = "running" => row[m].status = "running"
  BY <1>2
<1>8. Cardinality(Active') <= Cardinality(Active) /\ Cardinality(Active) \in Nat
      /\ Cardinality(Active') \in Nat /\ MaxActive \in Nat
  BY <1>7, ActiveShrinks, DeskAssumption
<1>9. AdmissionLimit' /\ StartInv'
  BY <1>8 DEF IInv, AdmissionLimit, StartInv
<1> QED BY <1>2, <1>3, <1>5, <1>6, <1>9 DEF IInv

LEMMA GoneInv ==
  ASSUME IInv, Gone, folders' \subseteq Folders, faults' \in Nat,
         \A m \in Matches :
             /\ row'[m] \in Row /\ RowOK(row'[m])
             /\ row'[m].status = "running" => row[m].status = "running",
         row' = [m \in Matches |-> row'[m]]
  PROVE  IInv'
<1> USE DEF Gone
<1>1. TypeOK'
  BY DEF TypeOK
<1>2. LoopInv' /\ \A m \in Matches : TaskOK(m)'
  BY DEF LoopInv, TaskOK, Live
<1>3. Cardinality(Active') <= Cardinality(Active) /\ Cardinality(Active) \in Nat
      /\ Cardinality(Active') \in Nat /\ MaxActive \in Nat
  BY ActiveShrinks, DeskAssumption
<1>4. AdmissionLimit' /\ StartInv'
  BY <1>3 DEF IInv, AdmissionLimit, StartInv
<1> QED BY <1>1, <1>2, <1>4 DEF IInv

LEMMA ProcessStepsInv ==
  ASSUME IInv,
         \/ Exit \/ Crash \/ Boot \/ Recovered
         \/ \E f \in Folders : CreateFolder(f)
         \/ \E stopped \in SUBSET tasks : CloseFails(stopped)
  PROVE  IInv'
<1>1. TypeOK /\ row \in [Matches -> Row] /\ \A m \in Matches : RowOK(row[m]) /\ TaskOK(m)
  BY DEF IInv, TypeOK
<1>2. CASE Exit \/ Crash
  <2>1. Gone /\ UNCHANGED <<row, folders>> /\ faults' \in Nat
    BY <1>1, <1>2 DEF Exit, Crash, Faults, TypeOK
  <2>2. row' = [m \in Matches |-> row'[m]]
    BY <1>1, <2>1
  <2> QED BY <1>1, <2>1, <2>2, GoneInv DEF TypeOK
<1>3. ASSUME NEW stopped \in SUBSET tasks, CloseFails(stopped)
      PROVE  IInv'
  <2>1. Gone /\ faults' \in Nat /\ folders' \subseteq Folders
    BY <1>1, <1>3 DEF CloseFails, Faults, TypeOK
  <2>2. row' = [m \in Matches |-> IF m \in stopped THEN Finished(row[m], "stopped")
                                                  ELSE row[m]]
    BY <1>3 DEF CloseFails
  <2>3. ASSUME NEW m \in Matches
        PROVE  /\ row'[m] \in Row /\ RowOK(row'[m])
               /\ row'[m].status = "running" => row[m].status = "running"
    <3>1. row[m] \in Row /\ RowOK(row[m]) /\ "stopped" \in Verdicts
      BY <1>1 DEF Verdicts
    <3>2. row'[m] = IF m \in stopped THEN Finished(row[m], "stopped") ELSE row[m]
      BY <2>2
    <3> QED BY <3>1, <3>2, FinishedRow
  <2>4. row' = [m \in Matches |-> row'[m]]
    BY <2>2
  <2> QED BY <2>1, <2>3, <2>4, GoneInv
<1>4. CASE Boot \/ Recovered \/ \E f \in Folders : CreateFolder(f)
  <2>1. UNCHANGED <<row, starting, pc, board, cancelled, tasks, faults>>
    BY <1>4 DEF Boot, Recovered, CreateFolder, memory
  <2>2. TypeOK'
    BY <1>1, <1>4, <2>1 DEF TypeOK, Boot, Recovered, CreateFolder
  <2>3. process' = process \/ process' \in {"recovering", "serving"}
    BY <1>4 DEF Boot, Recovered, CreateFolder
  <2>4. StartInv'
    BY <1>4, <2>1 DEF IInv, StartInv, Active, Boot, Recovered, CreateFolder
  <2>5. \A o \in Matches : Live(o) => process' \in {"serving", "closing"}
    BY <1>1, <1>4 DEF TaskOK, Boot, Recovered, CreateFolder
  <2> QED BY <2>1, <2>2, <2>4, <2>5, QuietInv
<1> QED BY <1>2, <1>3, <1>4

LEMMA StepInv == IInv /\ [Next]_vars => IInv'
<1> SUFFICES ASSUME IInv, [Next]_vars PROVE IInv'
  OBVIOUS
<1>1. CASE UNCHANGED vars
  <2>1. UNCHANGED <<row, folders, process, starting, pc, board, cancelled, tasks, faults>>
    BY <1>1 DEF vars
  <2>2. TypeOK' /\ StartInv'
    BY <2>1 DEF IInv, TypeOK, StartInv, Active
  <2>3. \A o \in Matches : Live(o) => process' \in {"serving", "closing"}
    BY <2>1 DEF IInv, TaskOK
  <2> QED BY <2>1, <2>2, <2>3, QuietInv
<1>2. ASSUME NEW c \in Callers,
             \/ \E f \in Filing : StartCheck(c, f)
             \/ StartFails(c)
             \/ \E m \in Matches : StartCreate(c, m)
      PROVE  IInv'
  BY <1>2, StartCheckInv, StartFailsInv, StartCreateInv
<1>3. ASSUME NEW m \in Matches,
             \/ Step(m) \/ Stop(m) \/ DeleteMatch(m) \/ Recover(m)
             \/ \E f \in Filing : AssignFolder(m, f)
      PROVE  IInv'
  BY <1>3, TurnInv, PlayInv, EndingStepsInv, StopInv, ThreadStepsInv DEF Step
<1>4. CASE Close
  BY <1>4, CloseInv
<1>5. CASE \/ Exit \/ Crash \/ Boot \/ Recovered
           \/ \E f \in Folders : CreateFolder(f)
           \/ \E stopped \in SUBSET tasks : CloseFails(stopped)
  BY <1>5, ProcessStepsInv
<1> QED BY <1>1, <1>2, <1>3, <1>4, <1>5 DEF Next

\* IInv is an invariant of the desk, in every interleaving of requests, tasks,
\* threads, refused writes, crashes and shutdowns.
THEOREM Invariance == Spec => []IInv
<1>1. Init => IInv
  BY InitInv
<1>2. IInv /\ [Next]_vars => IInv'
  BY StepInv
<1> QED BY <1>1, <1>2, PTL DEF Spec

\* Every reachable state is well typed.
THEOREM TypeCorrect == Spec => []TypeOK
<1>1. IInv => TypeOK
  BY DEF IInv
<1> QED BY <1>1, Invariance, PTL

\* MATCH_MAX_ACTIVE is respected although start awaits between check and insert.
THEOREM AdmissionLimitAlways == Spec => []AdmissionLimit
<1>1. IInv => AdmissionLimit
  BY DEF IInv
<1> QED BY <1>1, Invariance, PTL

\* The replay of every match has each ply once, whatever interrupted the match.
THEOREM PliesAreContiguousAlways == Spec => []PliesAreContiguous
<1>1. IInv => PliesAreContiguous
  BY DEF IInv, RowOK, PliesAreContiguous
<1> QED BY <1>1, Invariance, PTL

\* At most the last event is active, and a finished match ends its trace.
THEOREM TracesAreOrderlyAlways == Spec => []TracesAreOrderly
<1>1. IInv => TracesAreOrderly
  BY DEF IInv, RowOK, TracesAreOrderly
<1> QED BY <1>1, Invariance, PTL

\* A task whose match is over has been told so.
THEOREM StaleTasksAreToldAlways == Spec => []StaleTasksAreTold
<1>1. IInv => StaleTasksAreTold
  BY DEF IInv, TaskOK, StaleTasksAreTold
<1> QED BY <1>1, Invariance, PTL

\* Board and store never drift apart while a match runs.
THEOREM BoardIsTheBookAlways == Spec => []BoardIsTheBook
<1>1. IInv => BoardIsTheBook
  BY DEF IInv, TaskOK, BoardIsTheBook
<1> QED BY <1>1, Invariance, PTL

----------------------------------------------------------------------------
(* What a step can do to a row, and the abstract match book.               *)

\* The changes of one row.
Plays(r, t) == r.status = "running" /\ t.status = "running" /\ t.moves = r.moves + 1
Closes(r, t) == r.status = "running" /\ t.status \in Verdicts /\ t.moves = r.moves
SamePage(r, t) == t.status = r.status /\ t.moves = r.moves

LEMMA FinishedCloses ==
  ASSUME IInv, NEW m \in Matches, NEW v \in Verdicts
  PROVE  \/ Finished(row[m], v) = row[m]
         \/ Closes(row[m], Finished(row[m], v))
<1>1. row[m] \in Row /\ RowOK(row[m])
  BY DEF IInv, TypeOK
<1> QED BY <1>1, FinishedRow DEF Closes

Opens(r, t) == /\ r.status = "absent" /\ t.status = "running" /\ t.moves = 0
               /\ Cardinality(Active) < MaxActive
Deletes(r, t) == r.status \in Verdicts /\ t = Deleted
Files(r, t) == \E f \in Filing : t = [r EXCEPT !.folder = f]
Announces(r, t) == r.status = "running" /\ SamePage(r, t)

\* A step changes no row, or one in a way a book knows, or it stops many; a
\* match that is opened has a task.
RowStep ==
    \/ row' = row
    \/ \E m \in Matches, t \in Row :
          /\ row' = [row EXCEPT ![m] = t]
          /\ \/ Plays(row[m], t) \/ Closes(row[m], t)
             \/ Opens(row[m], t) /\ pc'[m] = "loop"
             \/ Deletes(row[m], t) \/ Files(row[m], t) \/ Announces(row[m], t)
    \/ \E ms \in SUBSET Matches :
          row' = [m \in Matches |-> IF m \in ms THEN Finished(row[m], "stopped")
                                                ELSE row[m]]

LEMMA FinishStep ==
  ASSUME IInv, NEW m \in Matches, NEW v \in Verdicts,
         row' = [row EXCEPT ![m] = Finished(@, v)]
  PROVE  RowStep
<1> DEFINE t == Finished(row[m], v)
<1>1. row[m] \in Row /\ RowOK(row[m]) /\ row \in [Matches -> Row]
  BY DEF IInv, TypeOK
<1>2. t \in Row /\ row' = [row EXCEPT ![m] = t]
  BY <1>1, FinishedRow
<1>3. t = row[m] \/ Closes(row[m], t)
  BY FinishedCloses
<1> HIDE DEF t
<1> QED BY <1>1, <1>2, <1>3 DEF RowStep

LEMMA EndingRowStep ==
  ASSUME IInv, NEW m \in Matches,
         GameOver(m) \/ TurnFails(m) \/ PlayFails(m) \/ Cancelled(m) \/ Stop(m) \/ Recover(m)
  PROVE  RowStep
<1>1. "completed" \in Verdicts /\ "stopped" \in Verdicts /\ "failed" \in Verdicts
  BY DEF Verdicts
<1>2. \/ UNCHANGED row
      \/ \E v \in Verdicts : row' = [row EXCEPT ![m] = Finished(@, v)]
  BY <1>1 DEF GameOver, TurnFails, PlayFails, Cancelled, Stop, Recover, Concludes, FailsAfter
<1>3. CASE UNCHANGED row
  BY <1>3 DEF RowStep
<1>4. CASE \E v \in Verdicts : row' = [row EXCEPT ![m] = Finished(@, v)]
  BY <1>4, FinishStep
<1> QED BY <1>2, <1>3, <1>4

LEMMA RowSteps == IInv /\ [Next]_vars => RowStep
<1> SUFFICES ASSUME IInv, [Next]_vars PROVE RowStep
  OBVIOUS
<1>1. TypeOK /\ \A m \in Matches : row[m] \in Row /\ RowOK(row[m]) /\ TaskOK(m)
  BY DEF IInv, TypeOK
<1>2. CASE row' = row
  BY <1>2 DEF RowStep
<1>3. ASSUME NEW c \in Callers, NEW m \in Matches, StartCreate(c, m)
      PROVE  RowStep
  <2> DEFINE t == Created(starting[c])
  <2>1. starting[c] \in Filing /\ row' = [row EXCEPT ![m] = t]
    BY <1>1, <1>3 DEF TypeOK, StartCreate
  <2>2. t \in Row /\ Opens(row[m], t)
    BY <1>3, <2>1, NewRows DEF IInv, StartInv, StartCreate, Opens
  <2>3. pc'[m] = "loop"
    BY <1>1, <1>3 DEF TypeOK, StartCreate
  <2> HIDE DEF t
  <2> QED BY <2>1, <2>2, <2>3 DEF RowStep
<1>4. ASSUME NEW m \in Matches, Turn(m), row[m].status = "running"
      PROVE  RowStep
  <2> DEFINE t == Turned(row[m], row[m].moves)
  <2>1. board[m] = row[m].moves /\ NoTurnAnnounced(row[m])
    BY <1>1, <1>4 DEF Turn, TaskOK, Live
  <2>2. t \in Row /\ t.status = "running" /\ t.moves = row[m].moves
    BY <1>1, <1>4, <2>1, TurnedRow
  <2>3. row' = [row EXCEPT ![m] = t]
    BY <1>4, <2>1 DEF Turn
  <2>4. Announces(row[m], t)
    BY <1>4, <2>2 DEF Announces, SamePage
  <2> HIDE DEF t
  <2> QED BY <2>2, <2>3, <2>4 DEF RowStep
<1>5. ASSUME NEW m \in Matches, Play(m), row' # row
      PROVE  RowStep
  <2>1. CASE cancelled[m]
    <3>1. "stopped" \in Verdicts /\ "failed" \in Verdicts
      BY DEF Verdicts
    <3>2. \E v \in Verdicts : row' = [row EXCEPT ![m] = Finished(@, v)]
      BY <1>5, <2>1, <3>1 DEF Play, Concludes, FailsAfter
    <3> QED BY <3>2, FinishStep
  <2>2. CASE ~cancelled[m]
    <3> DEFINE t == Appended(row[m], row[m].moves + 1)
    <3>1. row[m].status = "running" /\ row' = [row EXCEPT ![m] = Appended(@, board[m] + 1)]
      BY <1>5, <2>2 DEF Play
    <3>2. board[m] = row[m].moves
      BY <1>1, <1>5, <3>1 DEF Play, TaskOK, Live
    <3>3. t \in Row /\ Plays(row[m], t)
      BY <1>1, <3>1, AppendedRow DEF Plays
    <3>4. row' = [row EXCEPT ![m] = t]
      BY <3>1, <3>2
    <3> HIDE DEF t
    <3> QED BY <3>3, <3>4 DEF RowStep
  <2> QED BY <2>1, <2>2
<1>6. ASSUME NEW m \in Matches, DeleteMatch(m)
      PROVE  RowStep
  BY <1>6, NewRows DEF DeleteMatch, RowStep, Deletes
<1>7. ASSUME NEW m \in Matches, NEW f \in Filing, AssignFolder(m, f)
      PROVE  RowStep
  <2> DEFINE t == [row[m] EXCEPT !.folder = f]
  <2>1. t \in Row /\ Files(row[m], t)
    BY <1>1, FiledRow DEF Files
  <2>2. row' = [row EXCEPT ![m] = t]
    BY <1>7 DEF AssignFolder
  <2> HIDE DEF t
  <2> QED BY <2>1, <2>2 DEF RowStep
<1>8. CASE Close \/ \E stopped \in SUBSET tasks : CloseFails(stopped)
  BY <1>1, <1>8 DEF Close, CloseFails, RowStep, TypeOK
<1>9. CASE \/ UNCHANGED vars
           \/ \E c \in Callers : \/ \E f \in Filing : StartCheck(c, f)
                                 \/ StartFails(c)
           \/ \E f \in Folders : CreateFolder(f)
           \/ Exit \/ Crash \/ Boot \/ Recovered
           \/ \E m \in Matches : Turn(m) /\ row[m].status # "running"
  <2>1. row' = row
    BY <1>9 DEF vars, StartCheck, StartFails, CreateFolder, Exit, Crash, Boot, Recovered,
                Turn
  <2> QED BY <2>1, <1>2
<1> QED BY <1>2, <1>3, <1>4, <1>5, <1>6, <1>7, <1>8, <1>9, EndingRowStep DEF Next, Step

\* A finished match is frozen: it is only filed elsewhere, or deleted.
THEOREM FinishedIsFrozenAlways == Spec => FinishedIsFrozen
<1>1. ASSUME IInv, [Next]_vars, NEW m \in Matches, row[m].status \in Verdicts
      PROVE  \/ row'[m] = Deleted
             \/ \E f \in Filing : row'[m] = [row[m] EXCEPT !.folder = f]
  <2>1. row[m] \in Row /\ RowOK(row[m]) /\ row \in [Matches -> Row]
    BY <1>1 DEF IInv, TypeOK
  <2>2. row[m].status \notin {"running", "absent"}
    BY <1>1 DEF Verdicts
  <2>3. row[m].folder \in Filing /\ row[m] = [row[m] EXCEPT !.folder = row[m].folder]
    BY <2>1 DEF Row
  <2>4. CASE row'[m] = row[m]
    BY <2>3, <2>4
  <2>5. ASSUME NEW o \in Matches, NEW t \in Row, row' = [row EXCEPT ![o] = t],
               \/ Plays(row[o], t) \/ Closes(row[o], t)
               \/ Opens(row[o], t) /\ pc'[o] = "loop"
               \/ Deletes(row[o], t) \/ Files(row[o], t) \/ Announces(row[o], t)
        PROVE  \/ row'[m] = Deleted
               \/ \E f \in Filing : row'[m] = [row[m] EXCEPT !.folder = f]
    <3>1. CASE o # m
      BY <2>1, <2>4, <2>5, <3>1
    <3>2. CASE o = m
      <4>1. row'[m] = t
        BY <2>1, <2>5, <3>2
      <4> QED BY <2>2, <2>5, <3>2, <4>1
               DEF Plays, Closes, Opens, Deletes, Files, Announces
    <3> QED BY <3>1, <3>2
  <2>6. ASSUME NEW ms \in SUBSET Matches,
               row' = [o \in Matches |-> IF o \in ms THEN Finished(row[o], "stopped")
                                                     ELSE row[o]]
        PROVE  row'[m] = row[m]
    BY <2>2, <2>6 DEF Finished
  <2>7. RowStep
    BY <1>1, RowSteps
  <2> QED BY <2>4, <2>5, <2>6, <2>7 DEF RowStep
<1>2. IInv /\ [Next]_vars
        => [\A m \in Matches : row[m].status \in Verdicts =>
               \/ row'[m] = Deleted
               \/ \E f \in Filing : row'[m] = [row[m] EXCEPT !.folder = f]]_vars
  BY <1>1
<1> QED BY <1>2, Invariance, PTL DEF Spec, FinishedIsFrozen

\* A match is left running without a task only by a crash or a refused write.
LEMMA EndsNotAbandoned ==
  ASSUME IInv, NEW m \in Matches, NEW v \in Verdicts,
         row' = [row EXCEPT ![m] = Finished(@, v)]
  PROVE  row'[m].status # "running"
<1>1. row[m] \in Row /\ RowOK(row[m]) /\ row \in [Matches -> Row]
  BY DEF IInv, TypeOK
<1>2. row'[m] = Finished(row[m], v)
  BY <1>1
<1> QED BY <1>1, <1>2, FinishedRow DEF Verdicts

LEMMA EndingStep ==
  ASSUME IInv, NEW m \in Matches, Step(m), NEW o \in Matches,
         row[o].status = "running", Live(o), Abandoned(o)'
  PROVE  faults' > faults
<1>1. TypeOK /\ faults \in Nat
  BY DEF IInv, TypeOK
<1>2. \/ Turn(m) \/ Play(m)
      \/ \E n \in {0, 1} : FailsAfter(m, n)
      \/ \E v \in Verdicts : Ends(m) /\ row' = [row EXCEPT ![m] = Finished(@, v)]
      \/ Ends(m) /\ Faults(1)
  BY DEF Step, GameOver, TurnFails, PlayFails, Cancelled, Concludes, Verdicts
<1>3. o = m
  <2>1. \A x \in Matches \ {m} : pc'[x] = pc[x]
    BY <1>1 DEF Step, GameOver, Turn, TurnFails, Play, PlayFails, Cancelled, Concludes,
                FailsAfter, Ends, TypeOK
  <2> QED BY <2>1 DEF Abandoned, Live
<1>4. ASSUME NEW v \in Verdicts, row' = [row EXCEPT ![m] = Finished(@, v)]
      PROVE  FALSE
  BY <1>3, <1>4, EndsNotAbandoned DEF Abandoned
<1>5. ASSUME NEW n \in Nat, FailsAfter(m, n)
      PROVE  faults' > faults
  <2>1. "failed" \in Verdicts
    BY DEF Verdicts
  <2> QED BY <1>1, <1>4, <1>5, <2>1 DEF FailsAfter, Faults
<1>6. CASE Turn(m)
  <2>1. pc'[m] = "thinking"
    BY <1>1, <1>3, <1>6 DEF Turn, TypeOK
  <2> QED BY <1>3, <2>1 DEF Abandoned, Live
<1>7. CASE Play(m)
  <2>1. CASE cancelled[m]
    BY <1>4, <1>5, <1>7, <2>1 DEF Play, Concludes, Verdicts
  <2>2. CASE ~cancelled[m]
    <3>1. pc'[m] = "loop"
      BY <1>1, <1>3, <1>7, <2>2 DEF Play, TypeOK
    <3> QED BY <1>3, <3>1 DEF Abandoned, Live
  <2> QED BY <2>1, <2>2
<1>8. CASE Faults(1)
  BY <1>1, <1>8 DEF Faults
<1> QED BY <1>2, <1>4, <1>5, <1>6, <1>7, <1>8

THEOREM OnlyFaultsAbandonAlways == Spec => OnlyFaultsAbandon
<1>1. ASSUME IInv, Next, NEW o \in Matches, ~Abandoned(o), Abandoned(o)'
      PROVE  faults' > faults
  <2>1. TypeOK /\ faults \in Nat /\ TaskOK(o) /\ row \in [Matches -> Row]
    BY <1>1 DEF IInv, TypeOK
  <2>2. CASE row[o].status # "running"
    <3>1. row'[o].status = "running" /\ pc'[o] = "none"
      BY <1>1, <2>1 DEF Abandoned, Live
    <3>2. ASSUME NEW ms \in SUBSET Matches,
                 row' = [m \in Matches |-> IF m \in ms THEN Finished(row[m], "stopped")
                                                       ELSE row[m]]
          PROVE  FALSE
      BY <2>2, <3>1, <3>2 DEF Finished
    <3>3. ASSUME NEW m \in Matches, NEW t \in Row, row' = [row EXCEPT ![m] = t],
                 \/ Plays(row[m], t) \/ Closes(row[m], t)
                 \/ Opens(row[m], t) /\ pc'[m] = "loop"
                 \/ Deletes(row[m], t) \/ Files(row[m], t) \/ Announces(row[m], t)
          PROVE  FALSE
      <4>1. m = o /\ t.status = "running"
        BY <2>1, <2>2, <3>1, <3>3
      <4>2. row[m] \in Row /\ Deleted.status = "deleted"
        BY <2>1, NewRows
      <4> QED BY <2>2, <3>1, <3>3, <4>1, <4>2
               DEF Plays, Closes, Deletes, Files, Announces, SamePage, Row
    <3>4. RowStep
      BY <1>1, RowSteps
    <3> QED BY <2>2, <3>1, <3>2, <3>3, <3>4 DEF RowStep
  <2>3. CASE row[o].status = "running"
    <3>1. Live(o) /\ o \in tasks /\ process \in {"serving", "closing"}
      BY <1>1, <2>1, <2>3 DEF Abandoned, TaskOK
    <3>2. CASE \E m \in Matches : Step(m)
      BY <1>1, <2>3, <3>1, <3>2, EndingStep
    <3>3. CASE Crash \/ \E stopped \in SUBSET tasks : CloseFails(stopped)
      BY <2>1, <3>3 DEF Crash, CloseFails, Faults
    <3>4. CASE Exit
      BY <3>1, <3>4 DEF Exit
    <3>5. ASSUME pc' = pc
          PROVE  FALSE
      BY <1>1, <3>1, <3>5 DEF Abandoned, Live
    <3>6. ASSUME NEW c \in Callers, NEW m \in Matches, StartCreate(c, m)
          PROVE  FALSE
      BY <1>1, <2>1, <3>1, <3>6 DEF StartCreate, Abandoned, Live, TypeOK
    <3> QED BY <1>1, <3>2, <3>3, <3>4, <3>5, <3>6
             DEF Next, StartCheck, StartFails, Stop, DeleteMatch, AssignFolder, Recover,
                 CreateFolder, Close, Boot, Recovered, memory
  <2> QED BY <2>2, <2>3
<1>2. IInv /\ [Next]_vars
        => [\A m \in Matches : ~Abandoned(m) /\ Abandoned(m)' => faults' > faults]_vars
  BY <1>1
<1> QED BY <1>2, Invariance, PTL DEF Spec, OnlyFaultsAbandon, Abandoned, Live

\* The desk implements the match book: one half-move after another, a bounded
\* number of open games, a closed game closed for good.
THEOREM DeskImplementsBook == Spec => ImplementsBook
<1>1. Init => Book!Init
  BY DEF Init, Page, NoMatch, Book!Init, Book!Blank
<1>2. ASSUME IInv, [Next]_vars
      PROVE  [Book!Next]_Page
  <2>1. row \in [Matches -> Row] /\ \A m \in Matches : row[m] \in Row /\ RowOK(row[m])
    BY <1>2 DEF IInv, TypeOK
  <2>2. ASSUME row' = row
        PROVE  Page' = Page
    BY <2>2 DEF Page
  <2>3. ASSUME NEW m \in Matches, NEW t \in Row, row' = [row EXCEPT ![m] = t],
               SamePage(row[m], t)
        PROVE  Page' = Page
    <3>1. \A o \in Matches : /\ row'[o].status = row[o].status
                              /\ row'[o].moves = row[o].moves
      BY <2>1, <2>3 DEF SamePage
    <3> QED BY <3>1 DEF Page
  <2>4. ASSUME NEW m \in Matches, NEW t \in Row, row' = [row EXCEPT ![m] = t]
        PROVE  Page' = [Page EXCEPT ![m] = [status |-> t.status, moves |-> t.moves]]
    <3>1. row'[m] = t /\ \A o \in Matches \ {m} : row'[o] = row[o]
      BY <2>1, <2>4
    <3> QED BY <3>1 DEF Page
  <2>5. ASSUME NEW m \in Matches
        PROVE  /\ Page[m] = [status |-> row[m].status, moves |-> row[m].moves]
               /\ Page[m].status = row[m].status /\ Page[m].moves = row[m].moves
    BY DEF Page
  <2>6. ASSUME NEW m \in Matches, NEW t \in Row, row' = [row EXCEPT ![m] = t],
               Plays(row[m], t)
        PROVE  Book!Play(m)
    <3>1. [Page[m] EXCEPT !.moves = @ + 1] = [status |-> t.status, moves |-> t.moves]
      <4>1. [[status |-> row[m].status, moves |-> row[m].moves] EXCEPT !.moves = @ + 1]
            = [status |-> row[m].status, moves |-> row[m].moves + 1]
        OBVIOUS
      <4> QED BY <2>5, <2>6, <4>1 DEF Plays
    <3>2. Page' = [Page EXCEPT ![m].moves = @ + 1]
      BY <2>4, <2>6, <3>1
    <3>3. Page[m].status = "running"
      BY <2>5, <2>6 DEF Plays
    <3> QED BY <3>2, <3>3 DEF Book!Play
  <2>7. ASSUME NEW m \in Matches, NEW t \in Row, row' = [row EXCEPT ![m] = t],
               Closes(row[m], t)
        PROVE  Book!Close(m)
    <3>1. [Page[m] EXCEPT !.status = t.status] = [status |-> t.status, moves |-> t.moves]
      <4>1. [[status |-> row[m].status, moves |-> row[m].moves] EXCEPT !.status = t.status]
            = [status |-> t.status, moves |-> row[m].moves]
        OBVIOUS
      <4> QED BY <2>5, <2>7, <4>1 DEF Closes
    <3>2. Page' = [Page EXCEPT ![m].status = t.status]
      BY <2>4, <2>7, <3>1
    <3>3. Page[m].status = "running" /\ t.status \in Book!Verdicts
      BY <2>5, <2>7 DEF Closes, Verdicts, Book!Verdicts
    <3> QED BY <3>2, <3>3 DEF Book!Close
  <2>8. ASSUME NEW m \in Matches, NEW t \in Row, row' = [row EXCEPT ![m] = t],
               Opens(row[m], t)
        PROVE  Book!Open(m)
    <3>1. Page[m] = [status |-> "absent", moves |-> 0]
      BY <2>1, <2>5, <2>8 DEF Opens, RowOK
    <3>2. [Page[m] EXCEPT !.status = "running"] = [status |-> t.status, moves |-> t.moves]
      BY <2>8, <3>1 DEF Opens
    <3>3. Page' = [Page EXCEPT ![m].status = "running"]
      BY <2>4, <2>8, <3>2
    <3>4. Active = {o \in Matches : Page[o].status = "running"}
      BY <2>5 DEF Active
    <3>5. Book!Cardinality(Book!OpenGames) = Cardinality(Active)
      <4>1. Book!OpenGames = Active
        BY <3>4 DEF Book!OpenGames
      <4>2. Book!Cardinality(Active) = Cardinality(Active)
        BY DEF Book!Cardinality, Cardinality
      <4> QED BY <4>1, <4>2
    <3>6. Book!Cardinality(Book!OpenGames) < MaxActive
      BY <2>8, <3>5 DEF Opens
    <3> QED BY <3>1, <3>3, <3>6 DEF Book!Open, Book!Blank
  <2>9. ASSUME NEW m \in Matches, NEW t \in Row, row' = [row EXCEPT ![m] = t],
               Deletes(row[m], t)
        PROVE  Book!Delete(m)
    <3>1. t.status = "deleted" /\ t.moves = 0
      BY <2>9, NewRows DEF Deletes
    <3>2. Page' = [Page EXCEPT ![m] = [status |-> "deleted", moves |-> 0]]
      BY <2>4, <2>9, <3>1
    <3>3. Page[m].status \in Book!Verdicts
      BY <2>5, <2>9 DEF Deletes, Verdicts, Book!Verdicts
    <3> QED BY <3>2, <3>3 DEF Book!Delete
  <2>10. ASSUME NEW m \in Matches, NEW t \in Row, row' = [row EXCEPT ![m] = t],
                Files(row[m], t) \/ Announces(row[m], t)
         PROVE  Page' = Page
    <3>1. CASE Announces(row[m], t)
      BY <2>3, <2>10, <3>1 DEF Announces
    <3>2. CASE Files(row[m], t)
      <4>1. PICK f \in Filing : t = [row[m] EXCEPT !.folder = f]
        BY <3>2 DEF Files
      <4>2. SamePage(row[m], t)
        BY <2>1, <4>1, FiledRow DEF SamePage
      <4> QED BY <2>3, <2>10, <4>2
    <3> QED BY <2>10, <3>1, <3>2
  <2>11. ASSUME NEW ms \in SUBSET Matches,
                row' = [m \in Matches |-> IF m \in ms THEN Finished(row[m], "stopped")
                                                      ELSE row[m]]
         PROVE  \E os \in SUBSET Matches : Book!StopAll(os)
    <3> DEFINE os == {m \in ms : row[m].status = "running"}
    <3>1. ASSUME NEW m \in Matches
          PROVE  Page'[m] = IF m \in os THEN [Page[m] EXCEPT !.status = "stopped"]
                                        ELSE Page[m]
      <4>1. row[m] \in Row /\ RowOK(row[m]) /\ "stopped" \in Verdicts
        BY <2>1 DEF Verdicts
      <4>2. row'[m] = IF m \in ms THEN Finished(row[m], "stopped") ELSE row[m]
        BY <2>11
      <4>3. /\ m \in os => row'[m].status = "stopped" /\ row'[m].moves = row[m].moves
            /\ m \notin os => row'[m] = row[m]
        BY <4>1, <4>2, FinishedRow
      <4> QED BY <4>3 DEF Page
    <3>2. Page' = [m \in Matches |-> IF m \in os THEN [Page[m] EXCEPT !.status = "stopped"]
                                                 ELSE Page[m]]
      BY <3>1 DEF Page
    <3>3. \A m \in os : Page[m].status = "running"
      BY DEF Page
    <3> QED BY <3>2, <3>3 DEF Book!StopAll
  <2>12. RowStep
    BY <1>2, RowSteps
  <2> QED BY <2>2, <2>6, <2>7, <2>8, <2>9, <2>10, <2>11, <2>12
           DEF RowStep, Book!Next
<1> QED BY <1>1, <1>2, Invariance, PTL DEF Spec, ImplementsBook, Book!Spec
=============================================================================
