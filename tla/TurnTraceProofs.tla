--------------------------- MODULE TurnTraceProofs --------------------------
(***************************************************************************)
(* The trace of a turn: whatever the model answers and wherever a batch    *)
(* stops, the rows of a turn replay to the board the player has.           *)
(***************************************************************************)
EXTENDS TurnLoopProofs

----------------------------------------------------------------------------
(* The invariant.                                                          *)

\* What the recorder keeps of a call.
CallFields == {"call", "executed", "order", "error", "rolledBack"}

\* The row lists these calls, and none of them was refused or rolled back.
Lists(r, calls) ==
    /\ r.calls = [i \in DOMAIN calls |-> r.calls[i]]
    /\ \A i \in DOMAIN calls : /\ DOMAIN r.calls[i] = CallFields
                               /\ r.calls[i].call = calls[i]
                               /\ r.calls[i].error = FALSE
                               /\ r.calls[i].rolledBack = FALSE

\* No call of the row ran.
NoneRan(r) == \A i \in DOMAIN r.calls : r.calls[i].executed = FALSE

\* Every call of a failed row that ran is marked.
Marked(r) ==
    \A i \in DOMAIN r.calls : r.calls[i].executed => r.calls[i].error \/ r.calls[i].rolledBack

Reports == {"submit_defense_report", "submit_attack_report"}

\* The batches that reach a tool node: players 2 and 3 file no reports, player
\* 1 files the report of its phase, and the baseline submits a move.
Runnable(t) ==
    /\ t.pending # <<>>
    /\ t.pending \in Seq({t.pending[i] : i \in DOMAIN t.pending})
    /\ Batched => \A i \in DOMAIN t.pending : t.pending[i].tool \notin Reports
    /\ ~Batched => Len(t.pending) = 1
    /\ harness = "one" => One!ValidateArguments(t.phase, t.pending[1])
    /\ ~Batched /\ harness # "one" => t.pending[1].tool = "submit_move"

\* The recorder is in the middle of a pass whose answer it has.
InPass(r) == r.status = "running" /\ r.number # 0 /\ r.exchange = "answered"

\* The first n calls of the batch ran, and are numbered as they ran.
RanTo(r, w, n) ==
    LET calls == w.turn.pending
        order == BatchOrder(calls)
    IN  /\ w.left = [k \in 1 .. Len(calls) - n |-> order[n + k]]
        /\ w.ran = {order[k].index : k \in 1 .. n}
        /\ \A i \in DOMAIN calls : r.calls[i].executed = (i \in w.ran)
        /\ \A k \in 1 .. n : r.calls[order[k].index].order = k

\* The boards that the first n calls leave one after the other.
LedTo(boards, w, n) ==
    /\ boards[0] = Board(w.turn)
    /\ \A k \in 1 .. n : boards[k] = Execute(BatchOrder(w.turn.pending)[k].call, boards[k - 1]).board
    /\ boards[n] = w.board

\* What every row keeps: one that is closed is not running, and a completed
\* one has both snapshots.
RowOK(r) ==
    /\ r.number = 0 => r.status = "none"
    /\ r.finished => r.status # "running"
    /\ r.status = "completed" => r.exchange = "answered"

\* A batch in the middle of its calls: the row lists it, and the calls that ran
\* led from the board of turn t to the one they leave.
BatchTraced(t, r, w) ==
    /\ InPass(r) /\ Runnable(w.turn) /\ Lists(r, w.turn.pending)
    /\ Board(w.turn) = Board(t) /\ w.board = Board(w.board)
    /\ \E n \in 0 .. Len(w.turn.pending) : RanTo(r, w, n) /\ \E boards : LedTo(boards, w, n)

\* Who asked for a turn, and when it may have ended.
HostOK ==
    /\ host = "codex" => harness = "two"
    /\ host = "position" => cancelled = FALSE
    /\ pc \in {"node", "waiting"} => outcome = "running"
    /\ pc = "batch" => outcome \in {"running", "interrupted"}

\* The recorder's row in a turn that is at p, and ended in o if it has.
RowAt(p, nd, t, w, r, o) ==
    /\ RowOK(r)
    /\ r.status = "failed" /\ r.finished /\ o # "interrupted" => Marked(r)
    /\ p = "node" => IF nd \in ToolNodes
                     THEN InPass(r) /\ Runnable(t) /\ Lists(r, t.pending) /\ NoneRan(r)
                     ELSE r.number = 0 \/ r.finished
    /\ p = "waiting" => r.status = "running" /\ r.number # 0 /\ r.exchange = "asked"
    /\ p = "batch" => IF o = "interrupted" THEN r.status # "running" ELSE BatchTraced(t, r, w)

\* The invariant: the rows so far replay to the board of the turn.
RowTraced == Recording => replayed = Board(turn) /\ RowAt(pc, node, turn, work, row, outcome)

----------------------------------------------------------------------------
(* The order of a batch.                                                   *)

\* Positions of a strict order on 1 .. L: how many come before.
LEMMA Ranked ==
    ASSUME NEW L \in Nat, NEW B \in [1 .. L -> SUBSET (1 .. L)],
           \A i \in 1 .. L : i \notin B[i],
           \A i, j \in 1 .. L : j \in B[i] => B[j] \subseteq B[i],
           \A i, j \in 1 .. L : i # j => i \in B[j] \/ j \in B[i]
    PROVE  /\ \A i \in 1 .. L : Cardinality(B[i]) \in 0 .. L - 1
           /\ \A i, j \in 1 .. L : i \in B[j] => Cardinality(B[i]) < Cardinality(B[j])
           /\ \A i, j \in 1 .. L : Cardinality(B[i]) = Cardinality(B[j]) => i = j
           /\ \A k \in 1 .. L : \E i \in 1 .. L : Cardinality(B[i]) = k - 1
<1> DEFINE D == 1 .. L
<1>1. IsFiniteSet(D) /\ Cardinality(D) = L
  BY FS_Interval
<1>2. ASSUME NEW i \in D
      PROVE  IsFiniteSet(B[i]) /\ Cardinality(B[i]) \in 0 .. L - 1
  <2>1. B[i] \in SUBSET D /\ B[i] # D
    OBVIOUS
  <2> HIDE DEF D
  <2>2. IsFiniteSet(B[i]) /\ Cardinality(B[i]) <= L /\ Cardinality(B[i]) # L
    BY <1>1, <2>1, FS_Subset
  <2>3. Cardinality(B[i]) \in Nat
    BY <2>2, FS_CardinalityType
  <2> QED BY <2>2, <2>3
<1>3. ASSUME NEW i \in D, NEW j \in D, i \in B[j]
      PROVE  Cardinality(B[i]) < Cardinality(B[j])
  <2>1. B[i] \in SUBSET B[j] /\ B[i] # B[j]
    BY <1>3
  <2>2. Cardinality(B[i]) <= Cardinality(B[j]) /\ Cardinality(B[i]) # Cardinality(B[j])
    BY <1>2, <2>1, FS_Subset
  <2> HIDE DEF D
  <2>3. Cardinality(B[i]) \in Nat /\ Cardinality(B[j]) \in Nat
    BY <1>2, FS_CardinalityType
  <2> QED BY <2>2, <2>3
<1>4. ASSUME NEW i \in D, NEW j \in D, Cardinality(B[i]) = Cardinality(B[j])
      PROVE  i = j
  <2>1. Cardinality(B[i]) \in Int /\ Cardinality(B[j]) \in Int
    BY <1>2
  <2> QED BY <1>3, <1>4, <2>1
<1>5. ASSUME NEW k \in D PROVE \E i \in D : Cardinality(B[i]) = k - 1
  <2> DEFINE f == [i \in D |-> Cardinality(B[i]) + 1]
  <2>1. f \in [D -> D]
    BY <1>2
  <2>2. \A i, j \in D : f[i] = f[j] => i = j
    BY <1>2, <1>4
  <2> HIDE DEF D, f
  <2>3. f \in Injection(D, D)
    BY <2>1, <2>2 DEF Injection, IsInjective
  <2>4. f \in Surjection(D, D)
    BY <1>1, <2>3, FS_Injection
  <2>5. PICK i \in D : f[i] = k
    BY <1>5, <2>4 DEF Surjection
  <2>6. f[i] = Cardinality(B[i]) + 1 /\ Cardinality(B[i]) \in Int
    BY <1>2 DEF f
  <2> QED BY <2>5, <2>6
<1> QED BY <1>2, <1>3, <1>4, <1>5

\* What is known of the order of a batch: it numbers the calls anew, and equal
\* calls keep their order.
Orders(order, calls) ==
    /\ DOMAIN order = 1 .. Len(calls)
    /\ \A k \in 1 .. Len(calls) : /\ order[k].index \in 1 .. Len(calls)
                                  /\ order[k].call = calls[order[k].index]
    /\ \A j, k \in 1 .. Len(calls) : order[j].index = order[k].index => j = k
    /\ \A i \in 1 .. Len(calls) : \E k \in 1 .. Len(calls) : order[k].index = i
    /\ \A j, k \in 1 .. Len(calls) :
          calls[order[j].index] = calls[order[k].index] /\ order[j].index < order[k].index => j < k

\* sorted() by "is no annotation" is a permutation of the batch that never
\* swaps two equal calls.
THEOREM BatchIsOrdered ==
    ASSUME NEW S, NEW calls \in Seq(S)
    PROVE  Orders(BatchOrder(calls), calls)
<1> DEFINE L         == Len(calls)
           D         == 1 .. L
           note(i)   == calls[i].tool = "annotate"
           before(i) == {j \in DOMAIN calls : IF note(i) = note(j) THEN j < i ELSE note(j)}
           at(k)     == CHOOSE i \in DOMAIN calls : Cardinality(before(i)) = k - 1
           B         == [i \in D |-> before(i)]
           order     == BatchOrder(calls)
<1>1. L \in Nat /\ DOMAIN calls = D
  OBVIOUS
<1>2. order = [k \in D |-> [index |-> at(k), call |-> calls[at(k)]]]
  BY <1>1 DEF BatchOrder
<1>3. /\ B \in [D -> SUBSET D]
      /\ \A i \in D : i \notin B[i]
      /\ \A i, j \in D : j \in B[i] => B[j] \subseteq B[i]
      /\ \A i, j \in D : i # j => i \in B[j] \/ j \in B[i]
  BY <1>1
<1>4. \A i \in D : B[i] = before(i)
  OBVIOUS
<1>8. ASSUME NEW i \in D, NEW j \in D, calls[i] = calls[j], i < j PROVE i \in B[j]
  BY <1>1, <1>8
<1> HIDE DEF B, order, before
<1>5. /\ \A i \in D : Cardinality(B[i]) \in 0 .. L - 1
      /\ \A i, j \in D : i \in B[j] => Cardinality(B[i]) < Cardinality(B[j])
      /\ \A i, j \in D : Cardinality(B[i]) = Cardinality(B[j]) => i = j
      /\ \A k \in D : \E i \in D : Cardinality(B[i]) = k - 1
  BY <1>1, <1>3, Ranked
<1> DEFINE A == [k \in D |-> at(k)]
<1>6. ASSUME NEW k \in D PROVE A[k] \in D /\ Cardinality(B[A[k]]) = k - 1 /\ A[k] = at(k)
  <2>1. \E i \in DOMAIN calls : Cardinality(before(i)) = k - 1
    BY <1>1, <1>4, <1>5
  <2>2. at(k) \in DOMAIN calls /\ Cardinality(before(at(k))) = k - 1
    BY <2>1
  <2>3. A[k] = at(k)
    OBVIOUS
  <2> HIDE DEF at, A
  <2> QED BY <1>1, <1>4, <2>2, <2>3
<1> HIDE DEF at, A
<1>7. DOMAIN order = D /\ \A k \in D : order[k].index = A[k] /\ order[k].call = calls[A[k]]
  BY <1>2, <1>6
<1>9. ASSUME NEW j \in D, NEW k \in D, A[j] = A[k] PROVE j = k
  <2>1. j - 1 = k - 1
    BY <1>6, <1>9
  <2> QED BY <2>1
<1>10. ASSUME NEW i \in D PROVE \E k \in D : A[k] = i
  <2>1. PICK k : k = Cardinality(B[i]) + 1
    OBVIOUS
  <2>5. Cardinality(B[i]) \in 0 .. L - 1
    BY <1>5
  <2>2. k \in D /\ k - 1 = Cardinality(B[i])
    BY <1>1, <2>1, <2>5
  <2>3. Cardinality(B[A[k]]) = Cardinality(B[i]) /\ A[k] \in D
    BY <1>6, <2>2
  <2>4. A[k] = i
    BY <1>5, <2>3
  <2> QED BY <2>2, <2>4
<1>11. ASSUME NEW j \in D, NEW k \in D, calls[A[j]] = calls[A[k]], A[j] < A[k] PROVE j < k
  <2>1. A[j] \in B[A[k]]
    BY <1>6, <1>8, <1>11
  <2>2. Cardinality(B[A[j]]) < Cardinality(B[A[k]])
    BY <1>5, <1>6, <2>1
  <2>3. j - 1 < k - 1
    BY <1>6, <2>2
  <2> QED BY <2>3
<1> HIDE DEF order
<1>12. Orders(order, calls)
  <2>1. \A j, k \in D : order[j].index = order[k].index => j = k
    BY <1>7, <1>9
  <2>2. ASSUME NEW i \in D PROVE \E k \in D : order[k].index = i
    <3>1. PICK k \in D : A[k] = i
      BY <1>10
    <3> QED BY <1>7, <3>1
  <2>3. \A j, k \in D : calls[order[j].index] = calls[order[k].index]
                         /\ order[j].index < order[k].index => j < k
    BY <1>7, <1>11
  <2>4. \A k \in D : order[k].index \in D /\ order[k].call = calls[order[k].index]
    BY <1>6, <1>7
  <2> QED BY <1>7, <2>1, <2>2, <2>3, <2>4 DEF Orders
<1> QED BY <1>12 DEF order

----------------------------------------------------------------------------
(* What a row replays to.                                                  *)

\* The calls that a replay finds at place k.
GoodAt(r, k) ==
    {i \in DOMAIN r.calls : /\ r.calls[i].executed /\ ~r.calls[i].error /\ ~r.calls[i].rolledBack
                            /\ r.calls[i].order = k}

\* The board that a replay has after them.
Onward(r, k, board) ==
    IF GoodAt(r, k) = {} THEN board
    ELSE AfterReport(r.calls[CHOOSE i \in GoodAt(r, k) : TRUE].call, board)

\* The boards of a replay are the only ones that follow each other so.
LEMMA ReplayIs ==
    ASSUME NEW board, NEW r, Len(r.calls) \in Nat, NEW w, w[0] = board,
           \A k \in 1 .. Len(r.calls) : w[k] = Onward(r, k, w[k - 1])
    PROVE  Replay(board, r) = w[Len(r.calls)]
<1> DEFINE L       == Len(r.calls)
           good    == {i \in DOMAIN r.calls : /\ r.calls[i].executed
                                              /\ ~r.calls[i].error
                                              /\ ~r.calls[i].rolledBack}
           now(k)  == {i \in good : r.calls[i].order = k}
           Runs(f) == f = [k \in 0 .. L |->
                             IF k = 0 THEN board
                             ELSE IF now(k) = {} THEN f[k - 1]
                                  ELSE AfterReport(r.calls[CHOOSE i \in now(k) : TRUE].call, f[k - 1])]
           Follows(f) == f = [k \in 0 .. L |-> IF k = 0 THEN board ELSE Onward(r, k, f[k - 1])]
           v       == [k \in 0 .. L |-> w[k]]
<1>1. Replay(board, r) = (CHOOSE f : Runs(f))[L]
  BY DEF Replay
<1>2. ASSUME NEW k PROVE now(k) = GoodAt(r, k)
  BY DEF GoodAt
<1>3. ASSUME NEW f PROVE Runs(f) <=> Follows(f)
  <2> HIDE DEF now
  <2> QED BY <1>2 DEF Onward
<1> HIDE DEF Runs
<1>4. Follows(v)
  <2> SUFFICES ASSUME NEW k \in 0 .. L
               PROVE  v[k] = IF k = 0 THEN board ELSE Onward(r, k, v[k - 1])
    OBVIOUS
  <2>1. CASE k = 0
    BY <2>1
  <2>2. CASE k # 0
    <3>1. k \in 1 .. L /\ v[k] = w[k] /\ v[k - 1] = w[k - 1]
      BY <2>2
    <3> HIDE DEF v
    <3> QED BY <2>2, <3>1
  <2> QED BY <2>1, <2>2
<1>5. ASSUME NEW f, Follows(f) PROVE f = v
  <2>1. \A k \in 0 .. L : /\ f[k] = IF k = 0 THEN board ELSE Onward(r, k, f[k - 1])
                          /\ v[k] = IF k = 0 THEN board ELSE Onward(r, k, v[k - 1])
    <3> HIDE DEF v
    <3> QED BY <1>4, <1>5
  <2> DEFINE S == {k \in Nat : k <= L => f[k] = v[k]}
  <2> HIDE DEF v
  <2>2. 0 \in S
    BY <2>1
  <2>3. ASSUME NEW k \in Nat, k \in S
        PROVE  k + 1 \in S
    <3>1. SUFFICES ASSUME k + 1 <= L
                   PROVE  f[k + 1] = v[k + 1]
      OBVIOUS
    <3>2. f[k] = v[k]
      BY <2>3, <3>1
    <3>3. k + 1 \in 0 .. L /\ (k + 1) - 1 = k /\ k + 1 # 0
      BY <3>1
    <3> HIDE DEF S
    <3> QED BY <2>1, <3>2, <3>3
  <2>4. \A k \in Nat : k \in S
    <3> HIDE DEF S
    <3> QED BY <2>2, <2>3, SetInduction
  <2>5. ASSUME NEW k \in 0 .. L PROVE f[k] = v[k]
    <3>1. k \in Nat /\ k <= L
      OBVIOUS
    <3>2. k \in S
      <4> HIDE DEF S
      <4> QED BY <2>4, <3>1
    <3> QED BY <3>1, <3>2
  <2>6. f = [k \in 0 .. L |-> f[k]] /\ v = [k \in 0 .. L |-> v[k]]
    BY <1>5 DEF v
  <2> QED BY <2>5, <2>6
<1>6. (CHOOSE f : Runs(f)) = v
  <2> HIDE DEF v, Follows
  <2>1. \A f : Runs(f) <=> Follows(f)
    BY <1>3
  <2>2. \A f : Follows(f) => f = v
    BY <1>5
  <2> QED BY <1>4, <2>1, <2>2
<1>7. v[L] = w[L]
  OBVIOUS
<1> HIDE DEF v
<1> QED BY <1>1, <1>6, <1>7

\* A row of which nothing counts replays to the board it began with.
LEMMA NothingReplayed ==
    ASSUME NEW board, NEW r, Len(r.calls) \in Nat, NoneRan(r)
    PROVE  Replay(board, r) = board
<1> DEFINE w == [k \in 0 .. Len(r.calls) |-> board]
<1>1. \A k : GoodAt(r, k) = {}
  BY DEF GoodAt, NoneRan
<1>2. w[0] = board /\ \A k \in 1 .. Len(r.calls) : w[k] = Onward(r, k, w[k - 1])
  BY <1>1 DEF Onward
<1>3. w[Len(r.calls)] = board
  OBVIOUS
<1> HIDE DEF w
<1> QED BY <1>2, <1>3, ReplayIs

----------------------------------------------------------------------------
(* A batch and the row that lists it.                                      *)

\* The calls of a row that lists a batch.
LEMMA ListedRow ==
    ASSUME NEW r, NEW calls, calls \in Seq({calls[i] : i \in DOMAIN calls}), Lists(r, calls)
    PROVE  /\ Len(calls) \in Nat /\ DOMAIN calls = 1 .. Len(calls)
           /\ DOMAIN r.calls = 1 .. Len(calls) /\ Len(r.calls) = Len(calls)
<1> DEFINE L == Len(calls)
           e == [i \in 1 .. L |-> r.calls[i]]
<1>1. L \in Nat /\ DOMAIN calls = 1 .. L
  OBVIOUS
<1>2. r.calls = e
  BY <1>1 DEF Lists
<1>3. DOMAIN e = 1 .. L /\ Len(e) = L
  BY <1>1
<1> QED BY <1>1, <1>2, <1>3

\* One call after the other, a batch replays to the board its tools left; a
\* report of player 1 replays to an empty one.
LEMMA BatchReplays ==
    ASSUME NEW r, NEW w, Runnable(w.turn), Lists(r, w.turn.pending),
           RanTo(r, w, Len(w.turn.pending)), NEW boards, LedTo(boards, w, Len(w.turn.pending))
    PROVE  Replay(Board(w.turn), r) =
               IF w.turn.pending[1].tool \in Reports THEN EmptyBoard ELSE w.board
<1> DEFINE calls == w.turn.pending
           L     == Len(calls)
           order == BatchOrder(calls)
<1>1. /\ L \in Nat /\ DOMAIN calls = 1 .. L
      /\ DOMAIN r.calls = 1 .. L /\ Len(r.calls) = L
      /\ calls \in Seq({calls[i] : i \in DOMAIN calls})
  <2>1. calls \in Seq({calls[i] : i \in DOMAIN calls})
    BY DEF Runnable
  <2> HIDE DEF calls
  <2>2. Lists(r, calls)
    BY DEF calls
  <2> QED BY <2>1, <2>2, ListedRow
<1>2. Orders(order, calls)
  <2> HIDE DEF calls
  <2> QED BY <1>1, BatchIsOrdered
<1>3. /\ w.ran = {order[k].index : k \in 1 .. L}
      /\ \A i \in 1 .. L : r.calls[i].executed = (i \in w.ran)
      /\ \A k \in 1 .. L : r.calls[order[k].index].order = k
  BY <1>1 DEF RanTo
<1>4. \A i \in 1 .. L : /\ r.calls[i].call = calls[i]
                        /\ r.calls[i].error = FALSE /\ r.calls[i].rolledBack = FALSE
  BY <1>1 DEF Lists
<1>5. /\ boards[0] = Board(w.turn) /\ boards[L] = w.board
      /\ \A k \in 1 .. L : boards[k] = Execute(order[k].call, boards[k - 1]).board
  BY DEF LedTo
<1>6. ~Batched => L = 1
  BY DEF Runnable
<1>7. Batched => \A i \in 1 .. L : calls[i].tool \notin Reports
  BY <1>1 DEF Runnable
<1> HIDE DEF calls, order, L
<1>8. ASSUME NEW k \in 1 .. L, NEW board
      PROVE  Onward(r, k, board) = AfterReport(order[k].call, board)
  <2> DEFINE i == order[k].index
  <2>1. i \in 1 .. L /\ order[k].call = calls[i]
    BY <1>2 DEF Orders, L
  <2>2. i \in GoodAt(r, k)
    BY <1>1, <1>3, <1>4, <2>1 DEF GoodAt
  <2>3. ASSUME NEW j \in GoodAt(r, k) PROVE j = i
    <3>1. j \in 1 .. L /\ j \in w.ran /\ r.calls[j].order = k
      BY <1>1, <1>3, <2>3 DEF GoodAt
    <3>2. PICK m \in 1 .. L : j = order[m].index
      BY <1>3, <3>1
    <3>3. m = k
      BY <1>3, <3>1, <3>2
    <3> QED BY <3>2, <3>3
  <2> HIDE DEF i
  <2>4. GoodAt(r, k) = {i}
    BY <2>2, <2>3
  <2>5. (CHOOSE j \in GoodAt(r, k) : TRUE) = i
    BY <2>4
  <2>6. r.calls[i].call = order[k].call
    BY <1>4, <2>1
  <2> QED BY <2>2, <2>5, <2>6 DEF Onward
<1>9. CASE calls[1].tool \in Reports
  <2> DEFINE v == [k \in 0 .. 1 |-> IF k = 0 THEN Board(w.turn) ELSE EmptyBoard]
  <2>1. L = 1
    <3>1. L # 0
      BY <1>1, EmptySeq DEF Runnable, calls, L
    <3> QED BY <1>1, <1>6, <1>7, <1>9, <3>1
  <2>2. order[1].index = 1
    <3>1. order[1].index \in 1 .. L
      BY <1>2, <2>1 DEF Orders, L
    <3> QED BY <2>1, <3>1
  <2>3. order[1].call = calls[1]
    BY <1>2, <2>1, <2>2 DEF Orders, L
  <2>4. AfterReport(order[1].call, Board(w.turn)) = EmptyBoard
    BY <1>9, <2>3 DEF AfterReport, Reports
  <2>5. v[0] = Board(w.turn) /\ v[1] = EmptyBoard
    OBVIOUS
  <2> HIDE DEF v
  <2>6. \A k \in 1 .. Len(r.calls) : v[k] = Onward(r, k, v[k - 1])
    BY <1>1, <1>8, <2>1, <2>4, <2>5
  <2>7. Replay(Board(w.turn), r) = v[Len(r.calls)]
    BY <1>1, <2>5, <2>6, ReplayIs
  <2> QED BY <1>1, <1>9, <2>1, <2>5, <2>7 DEF calls
<1>10. CASE calls[1].tool \notin Reports
  <2>1. ASSUME NEW k \in 1 .. L PROVE order[k].call.tool \notin Reports
    <3>1. order[k].index \in 1 .. L /\ order[k].call = calls[order[k].index]
      BY <1>2 DEF Orders, L
    <3>2. CASE Batched
      BY <1>7, <3>1, <3>2
    <3>3. CASE ~Batched
      <4>1. order[k].index = 1
        BY <1>6, <3>1, <3>3
      <4> QED BY <1>10, <3>1, <4>1
    <3> QED BY <3>2, <3>3
  <2>2. ASSUME NEW k \in 1 .. L PROVE boards[k] = Onward(r, k, boards[k - 1])
    BY <1>5, <1>8, <2>1, <2>2 DEF AfterReport, Reports
  <2>3. \A k \in 1 .. Len(r.calls) : boards[k] = Onward(r, k, boards[k - 1])
    BY <1>1, <2>2
  <2>4. Replay(Board(w.turn), r) = boards[Len(r.calls)]
    BY <1>1, <1>5, <2>3, ReplayIs
  <2> QED BY <1>1, <1>5, <1>10, <2>4 DEF calls
<1> QED BY <1>9, <1>10

\* The next call of a batch is the first of its kind that has not run: the
\* recorder, which looks for it by name and arguments, finds the call itself.
THEOREM NextIsSought ==
    ASSUME NEW r, NEW w, Runnable(w.turn), Lists(r, w.turn.pending),
           NEW n \in 0 .. Len(w.turn.pending), RanTo(r, w, n), w.left # <<>>
    PROVE  LET item == Head(w.left)
           IN  /\ n < Len(w.turn.pending) /\ item = BatchOrder(w.turn.pending)[n + 1]
               /\ item.index \in 1 .. Len(w.turn.pending) /\ item.index \notin w.ran
               /\ item.call = w.turn.pending[item.index]
               /\ Sought(r, item.call) = item.index
<1> DEFINE calls == w.turn.pending
           L     == Len(calls)
           order == BatchOrder(calls)
           left  == [k \in 1 .. L - n |-> order[n + k]]
           x     == order[n + 1].index
<1>1. /\ L \in Nat /\ DOMAIN calls = 1 .. L /\ DOMAIN r.calls = 1 .. L
      /\ calls \in Seq({calls[i] : i \in DOMAIN calls})
  <2>1. calls \in Seq({calls[i] : i \in DOMAIN calls})
    BY DEF Runnable
  <2> HIDE DEF calls
  <2>2. Lists(r, calls)
    BY DEF calls
  <2> QED BY <2>1, <2>2, ListedRow
<1>2. Orders(order, calls)
  <2> HIDE DEF calls
  <2> QED BY <1>1, BatchIsOrdered
<1>3. /\ w.left = left
      /\ w.ran = {order[k].index : k \in 1 .. n}
      /\ \A i \in 1 .. L : r.calls[i].executed = (i \in w.ran)
  BY <1>1 DEF RanTo
<1>4. \A i \in 1 .. L : r.calls[i].call = calls[i]
  BY <1>1 DEF Lists
<1> HIDE DEF calls, order
<1>5. n < L
  <2>1. SUFFICES ASSUME n = L PROVE FALSE
    BY <1>1 DEF calls
  <2>2. left = <<>>
    BY <1>1, <2>1
  <2> QED BY <1>3, <2>2
<1>6. Head(w.left) = order[n + 1]
  <2>1. Head(left) = left[1] /\ left[1] = order[n + 1]
    BY <1>1, <1>5
  <2> QED BY <1>3, <2>1
<1>7. n \in Nat /\ n + 1 \in 1 .. L
  BY <1>1, <1>5 DEF calls
<1> HIDE DEF L
<1>8. x \in 1 .. L /\ order[n + 1].call = calls[x]
  BY <1>2, <1>7 DEF Orders, L
<1>9. x \notin w.ran
  <2>1. SUFFICES ASSUME NEW k \in 1 .. n, x = order[k].index PROVE FALSE
    BY <1>3
  <2>2. k \in 1 .. L /\ k # n + 1
    BY <1>1, <1>7
  <2> QED BY <1>2, <1>7, <2>1, <2>2 DEF Orders, L
<1>10. ASSUME NEW j \in 1 .. L, calls[j] = calls[x], j \notin w.ran PROVE x <= j
  <2>1. PICK m \in 1 .. L : order[m].index = j
    BY <1>2 DEF Orders, L
  <2>2. j < x => m < n + 1
    BY <1>2, <1>7, <1>10, <2>1 DEF Orders, L
  <2>3. m < n + 1 => m \in 1 .. n
    BY <1>1, <1>7
  <2>4. m \notin 1 .. n
    BY <1>3, <1>10, <2>1
  <2> QED BY <1>1, <1>8, <2>2, <2>3, <2>4
<1> DEFINE call  == calls[x]
           free  == {i \in DOMAIN r.calls : ~r.calls[i].executed /\ r.calls[i].call.tool = call.tool}
           exact == {i \in free : r.calls[i].call = call}
<1>11. x \in exact
  BY <1>1, <1>3, <1>4, <1>8, <1>9
<1>12. \A j \in exact : j \in 1 .. L /\ x <= j
  BY <1>1, <1>3, <1>4, <1>10
<1>13. Sought(r, call) = CHOOSE i \in exact : \A j \in exact : i <= j
  BY <1>11 DEF Sought
<1> HIDE DEF exact, free, call
<1>14. (CHOOSE i \in exact : \A j \in exact : i <= j) = x
  <2>1. \A i \in exact : (\A j \in exact : i <= j) => i = x
    BY <1>1, <1>8, <1>11, <1>12
  <2> QED BY <1>11, <1>12, <2>1
<1> QED BY <1>5, <1>6, <1>7, <1>8, <1>9, <1>13, <1>14 DEF calls, order, L, call

----------------------------------------------------------------------------
(* One call of a batch.                                                    *)

\* What the recorder makes of the next call of a batch.
CallNoted(r, s, calls, ran, x, place, bad) ==
    /\ s.calls = [i \in DOMAIN calls |-> s.calls[i]]
    /\ \A i \in DOMAIN calls : /\ DOMAIN s.calls[i] = CallFields
                               /\ s.calls[i].call = calls[i]
                               /\ s.calls[i].executed = (i \in ran \cup {x})
                               /\ s.calls[i].order = (IF i = x THEN place ELSE r.calls[i].order)
                               /\ s.calls[i].error = (i = x /\ bad)
                               /\ s.calls[i].rolledBack = FALSE

\* The number of calls that ran is the length of the prefix.
LEMMA RanCount ==
    ASSUME NEW S, NEW calls \in Seq(S), NEW n \in 0 .. Len(calls)
    PROVE  LET ran == {BatchOrder(calls)[k].index : k \in 1 .. n}
           IN  IsFiniteSet(ran) /\ Cardinality(ran) = n
<1> DEFINE order == BatchOrder(calls)
           ran   == {order[k].index : k \in 1 .. n}
           f     == [k \in 1 .. n |-> order[k].index]
<1>1. Orders(order, calls)
  BY BatchIsOrdered
<1> HIDE DEF order
<1>2. \A j, k \in 1 .. n : order[j].index = order[k].index => j = k
  BY <1>1 DEF Orders
<1>3. f \in Bijection(1 .. n, ran)
  <2>1. f \in [1 .. n -> ran] /\ \A y \in ran : \E k \in 1 .. n : f[k] = y
    OBVIOUS
  <2>2. \A j, k \in 1 .. n : f[j] = f[k] => j = k
    BY <1>2
  <2> HIDE DEF f, ran
  <2> QED BY <2>1, <2>2 DEF Bijection, Injection, Surjection, IsInjective
<1>4. IsFiniteSet(1 .. n) /\ Cardinality(1 .. n) = n
  BY FS_Interval
<1> HIDE DEF ran, f
<1>5. IsFiniteSet(ran) /\ Cardinality(ran) = n
  BY <1>3, <1>4, FS_Bijection DEF ExistsBijection
<1> QED BY <1>5 DEF ran, order

\* The recorder notes the call it finds, and no other.
LEMMA CallIsNoted ==
    ASSUME NEW r, IsRow(r), NEW w, Runnable(w.turn), Lists(r, w.turn.pending),
           NEW n \in 0 .. Len(w.turn.pending), RanTo(r, w, n), w.left # <<>>, NEW bad \in BOOLEAN
    PROVE  LET item == Head(w.left)
               s    == ToolFinished(ToolStarted(r, item.call), Sought(r, item.call), bad)
           IN  /\ Notes(r, s) /\ s.exchange = r.exchange
               /\ CallNoted(r, s, w.turn.pending, w.ran, item.index, n + 1, bad)
<1> DEFINE calls == w.turn.pending
           L     == Len(calls)
           item  == Head(w.left)
           x     == item.index
           i0    == Sought(r, item.call)
           t     == ToolStarted(r, item.call)
           s     == ToolFinished(t, i0, bad)
<1>1. /\ L \in Nat /\ DOMAIN calls = 1 .. L /\ DOMAIN r.calls = 1 .. L
      /\ calls \in Seq({calls[i] : i \in DOMAIN calls})
  <2>1. calls \in Seq({calls[i] : i \in DOMAIN calls})
    BY DEF Runnable
  <2> HIDE DEF calls
  <2>2. Lists(r, calls)
    BY DEF calls
  <2> QED BY <2>1, <2>2, ListedRow
<1>2. i0 = x /\ x \in 1 .. L
  BY NextIsSought
<1>3. /\ w.ran = {BatchOrder(calls)[k].index : k \in 1 .. n}
      /\ \A i \in 1 .. L : r.calls[i].executed = (i \in w.ran)
      /\ w.ran \subseteq 1 .. L
  <2>1. /\ w.ran = {BatchOrder(calls)[k].index : k \in 1 .. n}
        /\ \A i \in 1 .. L : r.calls[i].executed = (i \in w.ran)
    BY <1>1 DEF RanTo
  <2> HIDE DEF calls
  <2>2. Orders(BatchOrder(calls), calls)
    BY <1>1, BatchIsOrdered
  <2>3. \A k \in 1 .. n : k \in 1 .. L
    BY DEF calls
  <2> QED BY <2>1, <2>2, <2>3 DEF Orders
<1>4. /\ r.calls = [i \in 1 .. L |-> r.calls[i]]
      /\ \A i \in 1 .. L : /\ DOMAIN r.calls[i] = CallFields /\ r.calls[i].call = calls[i]
                           /\ r.calls[i].error = FALSE /\ r.calls[i].rolledBack = FALSE
  BY <1>1 DEF Lists
<1>5. Notes(r, t) /\ Notes(r, s)
  <2>1. Notes(r, t)
    BY NoteCalls
  <2>2. IsRow(t)
    BY <2>1 DEF Notes
  <2> HIDE DEF t
  <2>3. Notes(t, s)
    BY <2>2, NoteCalls
  <2> HIDE DEF s
  <2> QED BY <2>1, <2>3, NoteTwice
<1>6. n \in 0 .. L
  OBVIOUS
<1> HIDE DEF calls, L
<1>7. Cardinality({j \in DOMAIN r.calls : r.calls[j].executed}) = n
  <2>1. {j \in DOMAIN r.calls : r.calls[j].executed} = w.ran
    BY <1>1, <1>3
  <2>2. Cardinality({BatchOrder(calls)[k].index : k \in 1 .. n}) = n
    BY <1>1, <1>6, RanCount DEF L
  <2> QED BY <1>3, <2>1, <2>2
<1> HIDE DEF i0, x
<1>8. /\ t.calls = [[r.calls EXCEPT ![x].executed = TRUE] EXCEPT ![x].order = n + 1]
      /\ t.exchange = r.exchange /\ "calls" \in DOMAIN t /\ "exchange" \in DOMAIN t
  BY <1>1, <1>2, <1>7 DEF ToolStarted, IsRow, i0
<1> HIDE DEF t
<1>9. s.calls = [t.calls EXCEPT ![x].error = bad] /\ s.exchange = t.exchange
  BY <1>2, <1>8 DEF ToolFinished
<1> HIDE DEF s
<1> DEFINE c == r.calls
           d == t.calls
           e == s.calls
<1>10. /\ d = [i \in 1 .. L |-> d[i]]
       /\ \A i \in 1 .. L : i # x => d[i] = c[i]
       /\ d[x] = [c[x] EXCEPT !.executed = TRUE, !.order = n + 1]
  <2>1. /\ c = [i \in 1 .. L |-> c[i]] /\ x \in 1 .. L
        /\ d = [[c EXCEPT ![x].executed = TRUE] EXCEPT ![x].order = n + 1]
    BY <1>2, <1>4, <1>8
  <2> HIDE DEF c, d
  <2> QED BY <2>1
<1>11. /\ e = [i \in 1 .. L |-> e[i]]
       /\ \A i \in 1 .. L : i # x => e[i] = d[i]
       /\ e[x] = [d[x] EXCEPT !.error = bad]
  <2>1. e = [d EXCEPT ![x].error = bad] /\ x \in 1 .. L /\ d = [i \in 1 .. L |-> d[i]]
    BY <1>2, <1>9, <1>10
  <2> HIDE DEF d, e
  <2> QED BY <2>1
<1>12. ASSUME NEW i \in 1 .. L
       PROVE  /\ DOMAIN e[i] = CallFields
              /\ e[i].call = calls[i]
              /\ e[i].executed = (i \in w.ran \cup {x})
              /\ e[i].order = (IF i = x THEN n + 1 ELSE c[i].order)
              /\ e[i].error = (i = x /\ bad)
              /\ e[i].rolledBack = FALSE
  <2>1. /\ DOMAIN c[i] = CallFields /\ c[i].call = calls[i] /\ c[i].executed = (i \in w.ran)
        /\ c[i].error = FALSE /\ c[i].rolledBack = FALSE
    BY <1>3, <1>4
  <2> HIDE DEF c, d, e
  <2>2. CASE i # x
    <3>1. e[i] = c[i]
      BY <1>10, <1>11, <2>2
    <3>2. /\ (i \in w.ran \cup {x}) = (i \in w.ran)
          /\ (i = x /\ bad) = FALSE
      BY <2>2
    <3> QED BY <2>1, <2>2, <3>1, <3>2
  <2>3. CASE i = x
    <3>1. e[i] = [[c[i] EXCEPT !.executed = TRUE, !.order = n + 1] EXCEPT !.error = bad]
      BY <1>10, <1>11, <2>3
    <3> QED BY <2>1, <2>3, <3>1 DEF CallFields
  <2> QED BY <2>2, <2>3
<1>13. CallNoted(r, s, calls, w.ran, x, n + 1, bad)
  BY <1>1, <1>11, <1>12 DEF CallNoted
<1> QED BY <1>5, <1>8, <1>9, <1>13 DEF s, t, i0, x, calls

\* A call that was accepted: the batch ran one call further.
LEMMA OneCallFurther ==
    ASSUME NEW r, NEW w, Runnable(w.turn), Lists(r, w.turn.pending),
           NEW n \in 0 .. Len(w.turn.pending), RanTo(r, w, n), w.left # <<>>,
           NEW s, CallNoted(r, s, w.turn.pending, w.ran, Head(w.left).index, n + 1, FALSE),
           NEW v, v.turn = w.turn, v.left = Tail(w.left), v.ran = w.ran \cup {Head(w.left).index}
    PROVE  Lists(s, v.turn.pending) /\ n + 1 \in 0 .. Len(v.turn.pending) /\ RanTo(s, v, n + 1)
<1> DEFINE calls == w.turn.pending
           L     == Len(calls)
           order == BatchOrder(calls)
           x     == Head(w.left).index
           left  == [k \in 1 .. L - n |-> order[n + k]]
           tail  == [k \in 1 .. L - (n + 1) |-> order[(n + 1) + k]]
<1>1. /\ L \in Nat /\ DOMAIN calls = 1 .. L
      /\ calls \in Seq({calls[i] : i \in DOMAIN calls})
  <2>1. calls \in Seq({calls[i] : i \in DOMAIN calls})
    BY DEF Runnable
  <2> HIDE DEF calls
  <2>2. Lists(r, calls)
    BY DEF calls
  <2> QED BY <2>1, <2>2, ListedRow
<1>2. n < L /\ Head(w.left) = order[n + 1] /\ x \in 1 .. L /\ x \notin w.ran
  BY NextIsSought
<1>3. /\ w.left = left
      /\ w.ran = {order[k].index : k \in 1 .. n}
      /\ \A k \in 1 .. n : r.calls[order[k].index].order = k
  BY DEF RanTo
<1>4. /\ s.calls = [i \in 1 .. L |-> s.calls[i]]
      /\ \A i \in 1 .. L : /\ DOMAIN s.calls[i] = CallFields
                           /\ s.calls[i].call = calls[i]
                           /\ s.calls[i].executed = (i \in w.ran \cup {x})
                           /\ s.calls[i].order = (IF i = x THEN n + 1 ELSE r.calls[i].order)
                           /\ s.calls[i].error = (i = x /\ FALSE)
                           /\ s.calls[i].rolledBack = FALSE
  BY <1>1 DEF CallNoted
<1>5. \A i \in 1 .. L : (i = x /\ FALSE) = FALSE
  OBVIOUS
<1>6. Lists(s, calls)
  <2> HIDE DEF calls, L, x
  <2> QED BY <1>1, <1>4, <1>5 DEF Lists
<1>7. Orders(order, calls)
  <2> HIDE DEF calls
  <2> QED BY <1>1, BatchIsOrdered
<1>8. n \in Nat /\ n + 1 \in 1 .. L
  BY <1>1, <1>2
<1>9. Tail(left) = tail
  <2>1. L - n \in Nat /\ L - n >= 1
    BY <1>1, <1>8
  <2>2. left # <<>>
    BY <1>3
  <2>3. Len(left) = L - n
    BY <2>1
  <2>4. Tail(left) = [k \in 1 .. (L - n) - 1 |-> left[k + 1]]
    BY <2>2, <2>3
  <2>5. (L - n) - 1 = L - (n + 1)
    BY <1>1, <1>8
  <2>6. \A k \in 1 .. L - (n + 1) : left[k + 1] = order[(n + 1) + k]
    <3> SUFFICES ASSUME NEW k \in 1 .. L - (n + 1)
                 PROVE  left[k + 1] = order[(n + 1) + k]
      OBVIOUS
    <3>1. k + 1 \in 1 .. L - n /\ n + (k + 1) = (n + 1) + k
      BY <1>1, <1>8
    <3> HIDE DEF order
    <3> QED BY <3>1
  <2> HIDE DEF left, order
  <2> QED BY <2>4, <2>5, <2>6
<1>10. v.ran = {order[k].index : k \in 1 .. n + 1}
  <2>1. 1 .. n + 1 = (1 .. n) \cup {n + 1}
    BY <1>8
  <2>2. x = order[n + 1].index
    BY <1>2
  <2> HIDE DEF x, order
  <2> QED BY <1>3, <2>1, <2>2 DEF x
<1>11. ASSUME NEW k \in 1 .. n + 1 PROVE s.calls[order[k].index].order = k
  <2>0. k \in 1 .. L
    BY <1>1, <1>8
  <2>1. k \in 1 .. L /\ order[k].index \in 1 .. L
    <3> HIDE DEF order, calls
    <3> QED BY <1>7, <2>0 DEF Orders
  <2>2. s.calls[order[k].index].order = (IF order[k].index = x THEN n + 1 ELSE r.calls[order[k].index].order)
    BY <1>4, <2>1
  <2>3. CASE k = n + 1
    <3>1. order[k].index = x
      BY <1>2, <2>3
    <3> QED BY <2>2, <2>3, <3>1
  <2>4. CASE k # n + 1
    <3>1. k \in 1 .. n
      BY <1>8, <2>4
    <3>2. order[k].index \in w.ran
      BY <1>3, <3>1
    <3>3. order[k].index # x
      BY <1>2, <3>2
    <3>4. r.calls[order[k].index].order = k
      BY <1>3, <3>1
    <3> QED BY <2>2, <3>3, <3>4
  <2> QED BY <2>3, <2>4
<1>12. \A i \in 1 .. L : s.calls[i].executed = (i \in v.ran)
  BY <1>4
<1>13. RanTo(s, v, n + 1)
  <2>1. v.left = tail
    BY <1>3, <1>9
  <2> DEFINE p == v.turn.pending
  <2>2. p = calls
    OBVIOUS
  <2> HIDE DEF calls, L, left, p
  <2>3. BatchOrder(p) = order /\ Len(p) = L /\ DOMAIN p = 1 .. L
    BY <1>1, <2>2 DEF L
  <2> HIDE DEF order, x
  <2> DEFINE q == BatchOrder(p)
  <2>4. q = order
    BY <2>3
  <2> HIDE DEF q, tail
  <2>5. v.left = [k \in 1 .. Len(p) - (n + 1) |-> q[(n + 1) + k]]
    BY <2>1, <2>3, <2>4 DEF tail
  <2>6. v.ran = {q[k].index : k \in 1 .. n + 1} /\ \A k \in 1 .. n + 1 : s.calls[q[k].index].order = k
    BY <1>10, <1>11, <2>4
  <2>7. \A i \in DOMAIN p : s.calls[i].executed = (i \in v.ran)
    BY <1>12, <2>3
  <2> QED BY <2>5, <2>6, <2>7 DEF RanTo, p, q
<1> QED BY <1>6, <1>8, <1>13 DEF L

\* The boards of one call more.
LEMMA OneBoardFurther ==
    ASSUME NEW w, NEW n \in Nat, NEW boards, LedTo(boards, w, n),
           NEW v, v.turn = w.turn,
           v.board = Execute(BatchOrder(w.turn.pending)[n + 1].call, w.board).board
    PROVE  \E later : LedTo(later, v, n + 1)
<1> DEFINE later == [k \in 0 .. n + 1 |-> IF k = n + 1 THEN v.board ELSE boards[k]]
<1>1. later[n + 1] = v.board /\ \A k \in 0 .. n : later[k] = boards[k]
  OBVIOUS
<1> HIDE DEF later
<1>2. later[0] = Board(v.turn)
  BY <1>1 DEF LedTo
<1>3. ASSUME NEW k \in 1 .. n + 1
      PROVE  later[k] = Execute(BatchOrder(v.turn.pending)[k].call, later[k - 1]).board
  <2>1. CASE k = n + 1
    <3>1. k - 1 = n /\ later[n] = w.board
      BY <1>1, <2>1 DEF LedTo
    <3> QED BY <1>1, <2>1, <3>1
  <2>2. CASE k # n + 1
    <3>1. k \in 1 .. n /\ later[k] = boards[k] /\ later[k - 1] = boards[k - 1]
      BY <1>1, <2>2
    <3> QED BY <3>1 DEF LedTo
  <2> QED BY <2>1, <2>2
<1>4. LedTo(later, v, n + 1)
  BY <1>1, <1>2, <1>3 DEF LedTo
<1> QED BY <1>4

\* A refused call is marked, and with it what was undone.
LEMMA RefusedIsMarked ==
    ASSUME NEW r, NEW s, IsRow(s), s.number # 0, NEW calls, NEW ran, NEW x, NEW place,
           CallNoted(r, s, calls, ran, x, place, TRUE), NEW failing, x \in failing, x \in DOMAIN calls
    PROVE  /\ Marked(StateSaved(s, FALSE, ran, failing, FALSE))
           /\ StateSaved(s, FALSE, ran, failing, FALSE).status = "failed"
<1> DEFINE t == StateSaved(s, FALSE, ran, failing, FALSE)
           c == s.calls
<1>1. /\ c = [i \in DOMAIN calls |-> c[i]]
      /\ \A i \in DOMAIN calls : /\ DOMAIN c[i] = CallFields
                                 /\ c[i].executed = (i \in ran \cup {x})
                                 /\ c[i].error = (i = x /\ TRUE)
  BY DEF CallNoted
<1> HIDE DEF c
<1>2. DOMAIN c = DOMAIN calls
  BY <1>1
<1>3. /\ t.calls = [i \in DOMAIN c |-> [c[i] EXCEPT !.rolledBack = @ \/ i \in ran,
                                                    !.error = @ \/ i \in failing]]
      /\ t.status = "failed"
  BY <1>2 DEF StateSaved, IsRow, c
<1> HIDE DEF t
<1>4. ASSUME NEW i \in DOMAIN t.calls, t.calls[i].executed
      PROVE  t.calls[i].error \/ t.calls[i].rolledBack
  <2>1. /\ i \in DOMAIN calls
        /\ t.calls[i] = [c[i] EXCEPT !.rolledBack = @ \/ i \in ran, !.error = @ \/ i \in failing]
    BY <1>2, <1>3
  <2>2. DOMAIN c[i] = CallFields /\ c[i].executed = (i \in ran \cup {x})
    BY <1>1, <2>1
  <2>3. /\ t.calls[i].executed = c[i].executed
        /\ t.calls[i].rolledBack = (c[i].rolledBack \/ i \in ran)
        /\ t.calls[i].error = (c[i].error \/ i \in failing)
    BY <2>1, <2>2 DEF CallFields
  <2>4. i \in ran \/ i = x
    BY <1>4, <2>2, <2>3
  <2> QED BY <2>3, <2>4
<1> QED BY <1>3, <1>4 DEF Marked, t

----------------------------------------------------------------------------
(* Rows that are closed.                                                   *)

\* A row that fails is closed.
LEMMA FailedRow ==
    ASSUME NEW r, IsRow(r), RowOK(r), NEW rollback
    PROVE  /\ RowOK(Fail(r, rollback))
           /\ r.status = "running" => Fail(r, rollback).status # "completed"
<1> QED BY DEF IsRow, RowOK, Fail

\* A row whose node returns is closed.
LEMMA SavedRow ==
    ASSUME NEW r, IsRow(r), RowOK(r), r.status = "running" => r.exchange = "answered",
           NEW retried, NEW undone, NEW failing, NEW pending \in BOOLEAN
    PROVE  RowOK(StateSaved(r, retried, undone, failing, pending))
<1> DEFINE s   == StateSaved(r, retried, undone, failing, pending)
           bad == retried \/ (failing \cap DOMAIN r.calls) # {}
<1>1. CASE r.number = 0
  BY <1>1 DEF StateSaved
<1>2. CASE r.number # 0
  <2>1. /\ s.number = r.number /\ s.exchange = r.exchange
        /\ s.finished = (r.finished \/ ~pending)
        /\ s.status = IF bad THEN "failed"
                      ELSE IF ~pending /\ r.status = "running" THEN "completed"
                      ELSE r.status
    BY <1>2 DEF StateSaved, IsRow
  <2> HIDE DEF s, bad
  <2>2. s.status \in {"failed", "completed", r.status}
    BY <2>1
  <2>3. s.status = "completed" => s.exchange = "answered"
    BY <2>1 DEF RowOK
  <2>4. s.finished => s.status # "running"
    BY <2>1 DEF RowOK
  <2> QED BY <1>2, <2>1, <2>3, <2>4 DEF RowOK, s
<1> QED BY <1>1, <1>2

\* A row that lists its batch, failed before a call of it ran.
LEMMA UnrunIsMarked ==
    ASSUME NEW r, IsRow(r), r.number # 0, ~r.finished, NEW calls, Lists(r, calls), NoneRan(r)
    PROVE  /\ \A rollback : Marked(Fail(r, rollback))
           /\ LET s == StateSaved(r, TRUE, {}, {}, FALSE)
              IN  Marked(s) /\ s.status = "failed" /\ s.finished
<1> DEFINE c == r.calls
<1>1. \A i \in DOMAIN c : DOMAIN c[i] = CallFields /\ c[i].executed = FALSE
  <2>1. c = [i \in DOMAIN calls |-> c[i]] /\ \A i \in DOMAIN calls : DOMAIN c[i] = CallFields
    BY DEF Lists
  <2>2. \A i \in DOMAIN c : c[i].executed = FALSE
    BY DEF NoneRan
  <2> HIDE DEF c
  <2>3. DOMAIN c = DOMAIN calls
    BY <2>1
  <2> QED BY <2>1, <2>2, <2>3
<1>2. ASSUME NEW rollback PROVE Marked(Fail(r, rollback))
  <2> DEFINE d == Fail(r, rollback).calls
  <2>1. d = [i \in DOMAIN c |-> [c[i] EXCEPT !.rolledBack =
                                    @ \/ (rollback /\ c[i].executed /\ ~c[i].error)]]
    BY DEF Fail, IsRow
  <2> HIDE DEF d, c
  <2>2. \A i \in DOMAIN d : d[i].executed = FALSE
    BY <1>1, <2>1 DEF CallFields
  <2> QED BY <2>2 DEF Marked, d
<1>3. LET s == StateSaved(r, TRUE, {}, {}, FALSE)
      IN  Marked(s) /\ s.status = "failed" /\ s.finished
  <2> DEFINE s == StateSaved(r, TRUE, {}, {}, FALSE)
             d == s.calls
  <2>1. /\ d = [i \in DOMAIN c |-> [c[i] EXCEPT !.rolledBack = @ \/ i \in {}, !.error = @ \/ i \in {}]]
        /\ s.status = "failed" /\ s.finished
    BY DEF StateSaved, IsRow
  <2> HIDE DEF s, d, c
  <2>2. \A i \in DOMAIN d : d[i].executed = FALSE
    BY <1>1, <2>1 DEF CallFields
  <2> QED BY <2>1, <2>2 DEF Marked, d, s
<1> QED BY <1>2, <1>3

\* A batch given up at one of its calls.
LEMMA AbortIsMarked ==
    ASSUME NEW r, NEW s, IsRow(s), s.number # 0, ~s.finished,
           NEW calls, NEW ran, NEW x, NEW place, NEW bad, CallNoted(r, s, calls, ran, x, place, bad),
           NEW rollback, rollback \/ (ran = {} /\ bad)
    PROVE  Marked(Fail(s, rollback))
<1> DEFINE c == s.calls
           d == Fail(s, rollback).calls
<1>1. /\ c = [i \in DOMAIN calls |-> c[i]]
      /\ \A i \in DOMAIN calls : /\ DOMAIN c[i] = CallFields
                                 /\ c[i].executed = (i \in ran \cup {x})
                                 /\ c[i].error = (i = x /\ bad)
                                 /\ c[i].rolledBack = FALSE
  BY DEF CallNoted
<1>2. d = [i \in DOMAIN c |-> [c[i] EXCEPT !.rolledBack =
                                  @ \/ (rollback /\ c[i].executed /\ ~c[i].error)]]
  BY DEF Fail, IsRow
<1> HIDE DEF c, d
<1>3. ASSUME NEW i \in DOMAIN d, d[i].executed PROVE d[i].error \/ d[i].rolledBack
  <2>1. i \in DOMAIN calls /\ i \in DOMAIN c
    <3>1. DOMAIN d = DOMAIN c /\ DOMAIN c = DOMAIN calls
      BY <1>1, <1>2
    <3> QED BY <3>1
  <2>2. /\ DOMAIN c[i] = CallFields
        /\ d[i] = [c[i] EXCEPT !.rolledBack = @ \/ (rollback /\ c[i].executed /\ ~c[i].error)]
    BY <1>1, <1>2, <2>1
  <2>3. /\ d[i].executed = c[i].executed /\ d[i].error = c[i].error
        /\ d[i].rolledBack = (c[i].rolledBack \/ (rollback /\ c[i].executed /\ ~c[i].error))
    BY <2>2 DEF CallFields
  <2>4. c[i].executed /\ (c[i].executed = (i \in ran \cup {x})) /\ (c[i].error = (i = x /\ bad))
    BY <1>1, <1>3, <2>1, <2>3
  <2>5. CASE rollback
    BY <2>3, <2>4, <2>5
  <2>6. CASE ran = {} /\ bad
    <3>1. i = x
      BY <2>4, <2>6
    <3> QED BY <2>3, <2>4, <2>6, <3>1
  <2> QED BY <2>5, <2>6
<1> QED BY <1>3 DEF Marked, d

\* A node that returns leaves the calls of a batch nobody refused as they are.
LEMMA SavedStays ==
    ASSUME NEW r, IsRow(r), r.number # 0, r.status = "running", ~r.finished,
           NEW calls, Lists(r, calls), NEW pending \in BOOLEAN
    PROVE  LET s == StateSaved(r, FALSE, {}, {}, pending)
           IN  /\ Lists(s, calls)
               /\ \A i \in DOMAIN calls : s.calls[i].executed = r.calls[i].executed
                                          /\ s.calls[i].order = r.calls[i].order
               /\ DOMAIN s.calls = DOMAIN r.calls
               /\ s.number = r.number /\ s.exchange = r.exchange
               /\ s.status = IF pending THEN "running" ELSE "completed"
               /\ s.finished = ~pending
<1> DEFINE s == StateSaved(r, FALSE, {}, {}, pending)
           c == r.calls
           d == s.calls
<1>1. /\ c = [i \in DOMAIN calls |-> c[i]]
      /\ \A i \in DOMAIN calls : /\ DOMAIN c[i] = CallFields /\ c[i].call = calls[i]
                                 /\ c[i].error = FALSE /\ c[i].rolledBack = FALSE
  BY DEF Lists
<1>2. /\ d = [i \in DOMAIN c |-> [c[i] EXCEPT !.rolledBack = @ \/ i \in {}, !.error = @ \/ i \in {}]]
      /\ s.number = r.number /\ s.exchange = r.exchange
      /\ s.status = IF pending THEN "running" ELSE "completed"
      /\ s.finished = ~pending
  BY DEF StateSaved, IsRow
<1> HIDE DEF s, c, d
<1>3. DOMAIN c = DOMAIN calls /\ DOMAIN d = DOMAIN c /\ d = [i \in DOMAIN calls |-> d[i]]
  BY <1>1, <1>2
<1>4. ASSUME NEW i \in DOMAIN calls
      PROVE  /\ DOMAIN d[i] = CallFields /\ d[i].call = calls[i]
             /\ d[i].executed = c[i].executed /\ d[i].order = c[i].order
             /\ d[i].error = FALSE /\ d[i].rolledBack = FALSE
  <2>1. /\ DOMAIN c[i] = CallFields /\ c[i].call = calls[i]
        /\ c[i].error = FALSE /\ c[i].rolledBack = FALSE
        /\ d[i] = [c[i] EXCEPT !.rolledBack = @ \/ i \in {}, !.error = @ \/ i \in {}]
    BY <1>1, <1>2, <1>3
  <2>2. /\ DOMAIN d[i] = DOMAIN c[i] /\ d[i].call = c[i].call
        /\ d[i].executed = c[i].executed /\ d[i].order = c[i].order
        /\ d[i].error = (c[i].error \/ i \in {}) /\ d[i].rolledBack = (c[i].rolledBack \/ i \in {})
    BY <2>1 DEF CallFields
  <2>3. (FALSE \/ i \in {}) = FALSE
    OBVIOUS
  <2> QED BY <2>1, <2>2, <2>3
<1>5. Lists(s, calls)
  BY <1>3, <1>4 DEF Lists, d
<1> QED BY <1>2, <1>3, <1>4, <1>5 DEF s, c, d

----------------------------------------------------------------------------
(* What a pass leaves to run.                                              *)

IsBatch(calls) == calls \in Seq({calls[i] : i \in DOMAIN calls})

\* Every answer carries a batch, if only an empty one.
LEMMA AnswersHoldBatches ==
    ASSUME NEW answer \in Answers
    PROVE  IsBatch(answer.calls)
<1>1. \A calls \in Batches : IsBatch(calls)
  BY BatchAssumption DEF IsBatch
<1>2. IsBatch(<<>>)
  BY DEF IsBatch
<1>3. ASSUME NEW call PROVE IsBatch(<<call>>)
  <2> DEFINE s == <<call>>
  <2>1. DOMAIN s = {1} /\ s[1] = call
    OBVIOUS
  <2>2. s \in Seq({call})
    OBVIOUS
  <2> HIDE DEF s
  <2>3. {s[i] : i \in DOMAIN s} = {call}
    BY <2>1
  <2> QED BY <2>2, <2>3 DEF IsBatch, s
<1>4. CASE harness = "three"
  <2> DEFINE any == CHOOSE calls \in Batches : TRUE
  <2>1. any \in Batches
    BY BatchAssumption
  <2> HIDE DEF any
  <2>2. answer \in NativeAnswers
    BY <1>4 DEF Answers
  <2>3. answer.calls \in Batches \/ answer.calls = <<>>
    BY <2>1, <2>2 DEF NativeAnswers, Answer, any
  <2> QED BY <1>1, <1>2, <2>3
<1>5. CASE harness = "two"
  <2>1. answer \in TextAnswers(Batches)
    BY <1>5 DEF Answers
  <2>2. answer.calls \in Batches \/ answer.calls = <<>>
    BY <2>1 DEF TextAnswers, Answer
  <2> QED BY <1>1, <1>2, <2>2
<1>6. CASE harness \notin {"two", "three"}
  <2>1. answer \in TextAnswers({<<call>> : call \in Steps})
    BY <1>6 DEF Answers
  <2>2. (\E call \in Steps : answer.calls = <<call>>) \/ answer.calls = <<>>
    BY <2>1 DEF TextAnswers, Answer
  <2> QED BY <1>2, <1>3, <2>2
<1> QED BY <1>4, <1>5, <1>6

\* A pass that is retried leaves nothing to run; any other leaves the calls of
\* its answer, to a tool node or to the model node itself.
LeavesBatch(calls, passed) ==
    /\ passed.retried \in BOOLEAN
    /\ passed.tag = "goes" =>
          IF passed.retried THEN passed.turn.pending = <<>> /\ passed.turn.next \notin ToolNodes
          ELSE passed.turn.pending = calls /\ Runnable(passed.turn) /\ passed.turn.next \in ToolNodes
    /\ passed.tag = "submits" => passed.turn.pending = calls /\ Runnable(passed.turn)

LEMMA ThreeLeavesBatch ==
    ASSUME NEW t, IsTurn(t), t.phase = "synthesis", harness = "three", NEW answer,
           IsBatch(answer.calls), answer.body = "step" => answer.calls # <<>>
    PROVE  LeavesBatch(answer.calls, Three!ModelPass(t, answer))
<1> USE DEF IsTurn, TurnFields
<1> DEFINE counted  == [t EXCEPT !.modelCalls = @ + 1,
                                 !.forcedRetries = IF t.forced THEN @ + 1 ELSE @]
           replay   == Three!Replayable(answer) /\ ~Three!Repeated(t, answer)
           heard    == IF replay THEN [counted EXCEPT !.history = @ \o Three!Calls(answer.ids)] ELSE counted
           refused  == IF replay THEN [heard EXCEPT !.history = @ \o Three!Outputs(answer.ids)] ELSE heard
           valid    == /\ Three!Parsed(answer)
                       /\ ~Three!Repeated(t, answer)
                       /\ \A i \in DOMAIN answer.calls : Three!ValidateArguments(answer.calls[i])
                       /\ Three!ValidateToolBatch(answer.calls)
           pending  == [heard EXCEPT !.pending = answer.calls, !.callId = answer.ids[1],
                                     !.toolCalls = @ + Len(answer.calls)]
           next     == [pending EXCEPT !.next = "synthesis_tools"]
<1>1. /\ DOMAIN counted = TurnFields /\ counted.phase = t.phase
      /\ DOMAIN heard = TurnFields /\ heard.phase = t.phase
      /\ DOMAIN refused = TurnFields /\ refused.phase = t.phase
  OBVIOUS
<1> HIDE DEF counted, replay, heard, refused
<1>2. ASSUME NEW e \in BOOLEAN
      PROVE  LeavesBatch(answer.calls, Three!Retry(refused, e))
  BY <1>1 DEF LeavesBatch, ToolNodes, Three!Retry, Three!Raised, Three!Retries
<1>3. ASSUME valid
      PROVE  /\ LeavesBatch(answer.calls, Three!Submits(pending))
             /\ LeavesBatch(answer.calls, Three!Goes(next))
  <2>1. answer.calls # <<>> /\ Batched /\ harness # "one"
        /\ \A i \in DOMAIN answer.calls : answer.calls[i].tool \notin Reports
    BY <1>3 DEF Three!Parsed, Three!ValidateArguments, Three!Tools, Reports, Batched
  <2>2. pending.pending = answer.calls /\ next.pending = answer.calls /\ next.next = "synthesis_tools"
    BY <1>1
  <2> HIDE DEF valid, pending, next
  <2>3. Runnable(pending) /\ Runnable(next)
    BY <2>1, <2>2 DEF Runnable, IsBatch
  <2> QED BY <2>2, <2>3 DEF LeavesBatch, ToolNodes, Three!Submits, Three!Goes
<1>4. /\ LeavesBatch(answer.calls, Three!Raised(counted)) /\ LeavesBatch(answer.calls, Three!Raised(heard))
  BY DEF LeavesBatch, Three!Raised
<1>5. Three!ModelPass(t, answer) =
        IF answer.status = "failed" THEN Three!Raised(counted)
        ELSE IF ~valid THEN Three!Retry(refused, answer.status # "exhausted")
        ELSE IF t.toolCalls + Len(answer.calls) > MaxToolCalls THEN Three!Raised(heard)
        ELSE IF \E i \in DOMAIN answer.calls : answer.calls[i].tool = "submit_move"
        THEN Three!Submits(pending)
        ELSE Three!Goes(next)
  BY DEF Three!ModelPass, counted, replay, heard, refused
<1> HIDE DEF valid, pending, next
<1>7. CASE answer.status = "failed"
  BY <1>4, <1>5, <1>7
<1>8. CASE answer.status # "failed" /\ ~valid
  BY <1>2, <1>5, <1>8
<1>9. CASE answer.status # "failed" /\ valid
  BY <1>3, <1>4, <1>5, <1>9
<1> QED BY <1>7, <1>8, <1>9

LEMMA TwoLeavesBatch ==
    ASSUME NEW t, IsTurn(t), t.phase = "synthesis", harness = "two", NEW answer,
           IsBatch(answer.calls), answer.body = "step" => answer.calls # <<>>
    PROVE  LeavesBatch(answer.calls, Two!ModelPass(t, answer))
<1> USE DEF IsTurn, TurnFields
<1> DEFINE counted  == [t EXCEPT !.modelCalls = @ + 1,
                                 !.forcedRetries = IF t.forced THEN @ + 1 ELSE @]
           valid    == Two!Parsed(answer) /\ Two!BatchIsValid(answer.calls)
           pending  == [counted EXCEPT !.pending = answer.calls, !.toolCalls = @ + Len(answer.calls)]
           next     == [pending EXCEPT !.next = "synthesis_tools"]
<1>1. DOMAIN counted = TurnFields /\ counted.phase = t.phase
  OBVIOUS
<1> HIDE DEF counted
<1>2. ASSUME NEW e \in BOOLEAN
      PROVE  LeavesBatch(answer.calls, Two!Retry(counted, e))
  BY <1>1 DEF LeavesBatch, ToolNodes, Two!Retry, Two!Raised, Two!Retries
<1>3. ASSUME valid
      PROVE  /\ LeavesBatch(answer.calls, Two!Submits(pending))
             /\ LeavesBatch(answer.calls, Two!Goes(next))
  <2>1. answer.calls # <<>> /\ Batched /\ harness # "one"
        /\ \A i \in DOMAIN answer.calls : answer.calls[i].tool \notin Reports
    BY <1>3 DEF Two!Parsed, Two!BatchIsValid, Two!ValidateArguments, Two!Tools, Reports, Batched
  <2>2. pending.pending = answer.calls /\ next.pending = answer.calls /\ next.next = "synthesis_tools"
    BY <1>1
  <2> HIDE DEF valid, pending, next
  <2>3. Runnable(pending) /\ Runnable(next)
    BY <2>1, <2>2 DEF Runnable, IsBatch
  <2> QED BY <2>2, <2>3 DEF LeavesBatch, ToolNodes, Two!Submits, Two!Goes
<1>4. LeavesBatch(answer.calls, Two!Raised(counted))
  BY DEF LeavesBatch, Two!Raised
<1>5. Two!ModelPass(t, answer) =
        IF answer.status = "failed" THEN Two!Raised(counted)
        ELSE IF ~valid THEN Two!Retry(counted, ~Two!ReasoningOnly(answer))
        ELSE IF t.toolCalls + Len(answer.calls) > MaxToolCalls THEN Two!Raised(counted)
        ELSE IF \E i \in DOMAIN answer.calls : answer.calls[i].tool = "submit_move"
        THEN Two!Submits(pending)
        ELSE Two!Goes(next)
  BY DEF Two!ModelPass, counted
<1>6. Two!ReasoningOnly(answer) \in BOOLEAN
  BY DEF Two!ReasoningOnly
<1> HIDE DEF valid, pending, next
<1>7. CASE answer.status = "failed"
  BY <1>4, <1>5, <1>7
<1>8. CASE answer.status # "failed" /\ ~valid
  BY <1>2, <1>5, <1>6, <1>8
<1>9. CASE answer.status # "failed" /\ valid
  BY <1>3, <1>4, <1>5, <1>9
<1> QED BY <1>7, <1>8, <1>9

LEMMA OneLeavesBatch ==
    ASSUME NEW t, IsTurn(t), t.phase \in {"defense", "attack", "synthesis"}, harness = "one", NEW answer,
           IsBatch(answer.calls)
    PROVE  LeavesBatch(answer.calls, One!ModelPass(t, answer))
<1> USE DEF IsTurn, TurnFields
<1> DEFINE counted  == [t EXCEPT !.modelCalls = @ + 1,
                                 !.forcedRetries = IF t.forced THEN @ + 1 ELSE @]
           pending  == [counted EXCEPT !.pending = answer.calls, !.toolCalls = @ + 1]
           next     == [pending EXCEPT !.next = One!ToolNode(t.phase)]
<1>1. DOMAIN counted = TurnFields /\ counted.phase = t.phase
  OBVIOUS
<1> HIDE DEF counted
<1>2. ASSUME NEW e \in BOOLEAN
      PROVE  LeavesBatch(answer.calls, One!Retry(counted, e))
  BY <1>1 DEF LeavesBatch, ToolNodes, One!Retry, One!Raised, One!Retries
<1>3. ASSUME One!OneCall(answer), One!ValidateArguments(t.phase, answer.calls[1])
      PROVE  /\ LeavesBatch(answer.calls, One!Submits(pending))
             /\ LeavesBatch(answer.calls, One!Goes(next))
  <2>1. answer.calls # <<>> /\ Len(answer.calls) = 1
    <3>1. Len(<<>>) = 0 /\ Len(answer.calls) = 1
      BY <1>3 DEF One!OneCall
    <3>2. Len(<<>>) # Len(answer.calls)
      BY <3>1
    <3>3. answer.calls # <<>>
      BY <3>2, Zenon
    <3> QED BY <3>1, <3>3
  <2>2. /\ pending.pending = answer.calls /\ pending.phase = t.phase
        /\ next.pending = answer.calls /\ next.phase = t.phase /\ next.next = One!ToolNode(t.phase)
    BY <1>1
  <2>3. One!ToolNode(t.phase) \in ToolNodes
    BY DEF One!ToolNode, ToolNodes
  <2>4. ~Batched
    BY DEF Batched
  <2> HIDE DEF pending, next
  <2>5. Runnable(pending) /\ Runnable(next)
    BY <1>3, <2>1, <2>2, <2>4 DEF Runnable, IsBatch
  <2> QED BY <2>2, <2>3, <2>5 DEF LeavesBatch, One!Submits, One!Goes
<1>4. LeavesBatch(answer.calls, One!Raised(counted))
  BY DEF LeavesBatch, One!Raised
<1>5. One!ModelPass(t, answer) =
        IF answer.status = "failed" THEN One!Raised(counted)
        ELSE IF ~One!OneCall(answer) THEN One!Retry(counted, answer.body # "prose")
        ELSE IF ~One!ValidateArguments(t.phase, answer.calls[1]) THEN One!Retry(counted, TRUE)
        ELSE IF t.toolCalls >= MaxToolCalls THEN One!Raised(counted)
        ELSE IF answer.calls[1].tool = One!TerminalTool(t.phase) THEN One!Submits(pending)
        ELSE One!Goes(next)
  BY DEF One!ModelPass, counted
<1> HIDE DEF pending, next
<1>6. (answer.body # "prose") \in BOOLEAN
  OBVIOUS
<1>7. CASE answer.status = "failed"
  BY <1>4, <1>5, <1>7
<1>8. CASE answer.status # "failed" /\ ~One!OneCall(answer)
  BY <1>2, <1>5, <1>6, <1>8
<1>9. CASE answer.status # "failed" /\ One!OneCall(answer) /\ ~One!ValidateArguments(t.phase, answer.calls[1])
  BY <1>2, <1>5, <1>9
<1>10. CASE answer.status # "failed" /\ One!OneCall(answer) /\ One!ValidateArguments(t.phase, answer.calls[1])
  BY <1>3, <1>4, <1>5, <1>10
<1> QED BY <1>7, <1>8, <1>9, <1>10

LEMMA BaseLeavesBatch ==
    ASSUME NEW t, IsTurn(t), t.phase = "decide", harness \notin {"one", "two", "three"}, NEW answer,
           IsBatch(answer.calls)
    PROVE  LeavesBatch(answer.calls, Base!Decide(t, answer))
<1> USE DEF IsTurn, TurnFields
<1> DEFINE counted   == [t EXCEPT !.modelCalls = @ + 1,
                                  !.forcedRetries = IF t.forced THEN @ + 1 ELSE @]
           errors    == counted.errors + (IF answer.body = "prose" THEN 0 ELSE 1)
           goes      == [counted EXCEPT !.pending = answer.calls, !.next = "validate_submission"]
           retries   == [counted EXCEPT !.errors = errors, !.pending = <<>>,
                                        !.next = "decide", !.forced = TRUE]
<1>1. DOMAIN counted = TurnFields
  OBVIOUS
<1>2. LeavesBatch(answer.calls, Base!Raised(counted))
  BY DEF LeavesBatch, Base!Raised
<1> HIDE DEF counted
<1>3. ASSUME Base!OneCall(answer), Base!ValidateArguments(answer.calls[1])
      PROVE  LeavesBatch(answer.calls, Base!Goes(goes))
  <2>1. answer.calls # <<>> /\ Len(answer.calls) = 1
    <3>1. Len(<<>>) = 0 /\ Len(answer.calls) = 1
      BY <1>3 DEF Base!OneCall
    <3>2. Len(<<>>) # Len(answer.calls)
      BY <3>1
    <3>3. answer.calls # <<>>
      BY <3>2, Zenon
    <3> QED BY <3>1, <3>3
  <2>2. goes.pending = answer.calls /\ goes.next = "validate_submission"
    BY <1>1
  <2>3. ~Batched /\ answer.calls[1].tool = "submit_move"
    BY <1>3 DEF Batched, Base!ValidateArguments
  <2> HIDE DEF goes
  <2>4. Runnable(goes)
    BY <2>1, <2>2, <2>3 DEF Runnable, IsBatch
  <2> QED BY <2>2, <2>4 DEF LeavesBatch, ToolNodes, Base!Goes
<1>4. LeavesBatch(answer.calls, Base!Retries(retries))
  BY <1>1 DEF LeavesBatch, ToolNodes, Base!Retries
<1>5. \/ Base!Decide(t, answer) = Base!Raised(counted)
      \/ /\ Base!OneCall(answer) /\ Base!ValidateArguments(answer.calls[1])
         /\ Base!Decide(t, answer) = Base!Goes(goes)
      \/ Base!Decide(t, answer) = Base!Retries(retries)
  BY DEF Base!Decide, counted
<1> HIDE DEF goes, retries, errors
<1> QED BY <1>2, <1>3, <1>4, <1>5

LEMMA PassLeavesBatch ==
    ASSUME Fit(turn), NEW answer \in Answers
    PROVE  LeavesBatch(answer.calls, ModelPass(answer))
<1>1. IsTurn(turn) /\ turn.phase \in Homes
  BY DEF Fit
<1>2. IsBatch(answer.calls) /\ (answer.body = "step" => answer.calls # <<>>)
  BY AnswersHoldBatches, AnswersListCalls
<1>3. CASE harness = "three"
  BY <1>1, <1>2, <1>3, ThreeLeavesBatch DEF ModelPass, Homes, Batched
<1>4. CASE harness = "two"
  BY <1>1, <1>2, <1>4, TwoLeavesBatch DEF ModelPass, Homes, Batched
<1>5. CASE harness = "one"
  BY <1>1, <1>2, <1>5, OneLeavesBatch DEF ModelPass, Homes, Batched
<1>6. CASE harness \notin {"one", "two", "three"}
  BY <1>1, <1>2, <1>6, BaseLeavesBatch DEF ModelPass, Homes, Batched
<1> QED BY <1>3, <1>4, <1>5, <1>6

----------------------------------------------------------------------------
(* The board a batch leaves to the turn.                                   *)

\* A batch that is refused leaves the board alone.
LEMMA RejectKeepsBoard ==
    ASSUME IsTurn(work.turn), Reject.tag # "raised"
    PROVE  Board(Reject.turn) = Board(work.turn)
<1> USE DEF IsTurn, TurnFields, Board
<1>1. CASE harness = "three"
  BY <1>1 DEF Reject, Three!RejectBatch, Three!CompleteStep, Three!Raised, Three!Goes
<1>2. CASE harness = "two"
  BY <1>2 DEF Reject, Two!RejectBatch, Two!Raised, Two!Goes
<1>3. CASE harness = "one"
  BY <1>3 DEF Reject, One!RejectCall, One!Raised, One!Goes
<1>4. CASE harness \notin {"one", "two", "three"}
  BY <1>4 DEF Reject, Base!RejectMove, Base!Raised, Base!Goes
<1> QED BY <1>1, <1>2, <1>3, <1>4

\* A batch of one call is ordered as it is.
LEMMA OnlyCall ==
    ASSUME NEW calls, IsBatch(calls), Len(calls) = 1
    PROVE  BatchOrder(calls)[1].call = calls[1] /\ BatchOrder(calls)[1].index = 1
<1>1. Orders(BatchOrder(calls), calls)
  BY BatchIsOrdered DEF IsBatch
<1>2. 1 \in 1 .. Len(calls)
  OBVIOUS
<1>3. /\ BatchOrder(calls)[1].index \in 1 .. Len(calls)
      /\ BatchOrder(calls)[1].call = calls[BatchOrder(calls)[1].index]
  BY <1>1, <1>2 DEF Orders
<1>4. \A i : i \in 1 .. 1 => i = 1
  OBVIOUS
<1> QED BY <1>3, <1>4

\* Players 1 and baseline submit a move without touching their board.
LEMMA SubmitKeepsBoard ==
    ASSUME ~Batched, NEW w, Runnable(w.turn), w.turn.pending[1].tool = "submit_move",
           NEW boards, LedTo(boards, w, Len(w.turn.pending))
    PROVE  w.board = Board(w.turn)
<1> DEFINE calls == w.turn.pending
           b     == Board(w.turn)
<1>1. IsBatch(calls) /\ Len(calls) = 1
  BY DEF Runnable, IsBatch
<1>2. BatchOrder(calls)[1].call = calls[1]
  BY <1>1, OnlyCall
<1>3. w.board = Execute(calls[1], b).board
  <2>1. boards[0] = b /\ boards[1] = w.board
    BY <1>1 DEF LedTo
  <2>2. 1 \in 1 .. Len(calls) /\ 1 - 1 = 0
    BY <1>1
  <2>3. boards[1] = Execute(BatchOrder(calls)[1].call, boards[1 - 1]).board
    BY <2>2 DEF LedTo
  <2> QED BY <1>2, <2>1, <2>2, <2>3
<1>4. b = [nodes |-> b.nodes, active |-> b.active, scratch |-> b.scratch]
  BY DEF Board
<1>5. calls[1].tool = "submit_move"
  OBVIOUS
<1> HIDE DEF b, calls
<1>6. CASE harness = "one"
  <2>1. [b EXCEPT !.scratch = b.scratch] = b
    BY <1>4
  <2>2. Execute(calls[1], b).board = b
    BY <1>5, <1>6, <2>1 DEF Execute, One!ExecuteTool
  <2> QED BY <1>3, <2>2 DEF b
<1>7. CASE harness \notin {"one", "two", "three"}
  <2>1. Execute(calls[1], b).board = b
    BY <1>7 DEF Execute, Base!SubmitMove
  <2> QED BY <1>3, <2>1 DEF b
<1> QED BY <1>6, <1>7 DEF Batched

\* What the batch left is the board of the turn, unless it filed a report:
\* that opens a phase with a board of its own.
LEMMA CommitLeavesBoard ==
    ASSUME Fit(work.turn), GoodBoard(work.board), work.board = Board(work.board),
           Runnable(work.turn),
           NEW boards, LedTo(boards, work, Len(work.turn.pending))
    PROVE  Board(Commit.turn) = IF work.turn.pending[1].tool \in Reports THEN EmptyBoard ELSE work.board
<1> DEFINE t    == work.turn
           b    == work.board
           call == t.pending[1]
<1>1. DOMAIN t = TurnFields /\ t.phase \in Homes /\ GoodBoard(Board(t))
  BY DEF Fit, IsTurn
<1>2. b = [nodes |-> b.nodes, active |-> b.active, scratch |-> b.scratch]
  BY DEF Board
<1>3. CASE Batched
  <2>1. 1 \in DOMAIN t.pending
    <3>1. t.pending \in Seq({t.pending[i] : i \in DOMAIN t.pending}) /\ t.pending # <<>>
      BY DEF Runnable
    <3> HIDE DEF t
    <3> QED BY <3>1
  <2>2. call.tool \notin Reports
    BY <1>3, <2>1 DEF Runnable
  <2>3. CASE harness = "three"
    <3>1. LET u == Commit.turn IN u.nodes = b.nodes /\ u.active = b.active /\ u.scratch = b.scratch
      BY <1>1, <2>3 DEF Commit, TurnFields, Three!CommitBatch, Three!CompleteStep, Three!Goes
    <3> QED BY <1>2, <2>2, <3>1 DEF Board
  <2>4. CASE harness = "two"
    <3>1. LET u == Commit.turn IN u.nodes = b.nodes /\ u.active = b.active /\ u.scratch = b.scratch
      BY <1>1, <2>4 DEF Commit, TurnFields, Two!CommitBatch, Two!Goes
    <3> QED BY <1>2, <2>2, <3>1 DEF Board
  <2> QED BY <1>3, <2>3, <2>4 DEF Batched
<1>4. CASE harness = "one"
  <2> DEFINE u == One!CommitCall(t, b, work.decision).turn
  <2>1. Commit.turn = u /\ ~Batched
    BY <1>4 DEF Commit, Batched
  <2>2. /\ t.nodes = {} /\ t.active = Root /\ b.nodes = {} /\ b.active = Root
    BY <1>1, <2>1 DEF GoodBoard, Board
  <2>3. One!ValidateArguments(t.phase, call) /\ t.phase \in {"defense", "attack", "synthesis"}
    BY <1>1, <1>4, <2>1 DEF Runnable, Homes
  <2>4. CASE call.tool # One!TerminalTool(t.phase)
    <3>1. call.tool \notin Reports
      BY <2>3, <2>4 DEF One!ValidateArguments, Reports
    <3>2. u.nodes = t.nodes /\ u.active = t.active /\ u.scratch = b.scratch
      BY <1>1, <2>4 DEF TurnFields, One!CommitCall, One!Goes
    <3> QED BY <1>2, <2>1, <2>2, <3>1, <3>2 DEF Board
  <2>5. CASE call.tool = One!TerminalTool(t.phase) /\ t.phase = "synthesis"
    <3>1. call.tool = "submit_move" /\ call.tool \notin Reports
      BY <2>5 DEF One!TerminalTool, Reports
    <3>2. b = Board(t)
      BY <2>1, <3>1, SubmitKeepsBoard
    <3>3. u.nodes = t.nodes /\ u.active = t.active /\ u.scratch = t.scratch
      BY <1>1, <2>5 DEF TurnFields, One!CommitCall, One!Goes
    <3> QED BY <2>1, <3>1, <3>2, <3>3 DEF Board
  <2>6. CASE call.tool = One!TerminalTool(t.phase) /\ t.phase # "synthesis"
    <3>1. call.tool \in Reports
      BY <2>3, <2>6 DEF One!TerminalTool, Reports
    <3>2. \E p : u = [One!PhaseState(p) EXCEPT !.reports = t.reports \cup {t.phase}]
      BY <2>6 DEF One!CommitCall, One!Goes
    <3> HIDE DEF u
    <3>3. u.nodes = {} /\ u.active = Root /\ u.scratch = <<>>
      BY <3>2 DEF One!PhaseState, One!Root, Root
    <3> QED BY <2>1, <3>1, <3>3 DEF Board, EmptyBoard, u
  <2> QED BY <2>4, <2>5, <2>6
<1>5. CASE harness \notin {"one", "two", "three"}
  <2>1. ~Batched /\ call.tool = "submit_move" /\ call.tool \notin Reports
    BY <1>5 DEF Runnable, Batched, Reports
  <2>2. b = Board(t)
    BY <2>1, SubmitKeepsBoard
  <2>3. LET u == Commit.turn IN u.nodes = t.nodes /\ u.active = t.active /\ u.scratch = t.scratch
    BY <1>1, <1>5 DEF Commit, TurnFields, Base!AcceptMove, Base!Goes
  <2> QED BY <2>1, <2>2, <2>3 DEF Board
<1> QED BY <1>3, <1>4, <1>5 DEF Batched

\* A tool leaves a board.
LEMMA ToolLeavesBoard ==
    ASSUME NEW call, NEW b, b = Board(b)
    PROVE  Execute(call, b).board = Board(Execute(call, b).board)
<1> DEFINE Shaped(x) == \E nodes, active, scratch :
                           x = [nodes |-> nodes, active |-> active, scratch |-> scratch]
<1>1. ASSUME NEW x, Shaped(x) PROVE x = Board(x)
  BY <1>1 DEF Board
<1>2. Shaped(b)
  BY DEF Board
<1>3. CASE Batched
  <2>1. Execute(call, b) = ExecuteTool(call, b)
    BY <1>3, SameTools DEF Execute, Batched
  <2>2. Shaped(SubmitMove(call, b).board) /\ Shaped(InspectSquare(call, b).board)
        /\ Shaped(Result("raised", b).board)
    BY <1>2 DEF SubmitMove, InspectSquare, Result
  <2>3. Shaped(PlayMove(call, b).board)
    BY <1>2 DEF PlayMove, Result
  <2>4. Shaped(UndoMove(b).board) /\ Shaped(ResetBoard(b).board)
    BY <1>2 DEF UndoMove, ResetBoard, Result
  <2>5. Shaped(AnnotateBranch(call, b).board)
    BY <1>2 DEF AnnotateBranch, Result
  <2> HIDE DEF Shaped
  <2>6. Shaped(ExecuteTool(call, b).board)
    BY <2>2, <2>3, <2>4, <2>5 DEF ExecuteTool
  <2> QED BY <1>1, <2>1, <2>6
<1>4. CASE harness = "one"
  <2>1. ASSUME NEW scratch PROVE Shaped([b EXCEPT !.scratch = scratch])
    <3>1. PICK nodes, active, old : b = [nodes |-> nodes, active |-> active, scratch |-> old]
      BY <1>2
    <3>2. [b EXCEPT !.scratch = scratch] = [nodes |-> nodes, active |-> active, scratch |-> scratch]
      BY <3>1
    <3> QED BY <3>2
  <2> HIDE DEF Shaped
  <2>2. Shaped(One!ExecuteTool(call, b).board)
    BY <1>2, <2>1 DEF One!ExecuteTool
  <2> QED BY <1>1, <1>4, <2>2 DEF Execute
<1>5. CASE harness \notin {"one", "two", "three"}
  BY <1>5 DEF Execute, Base!SubmitMove
<1> QED BY <1>3, <1>4, <1>5 DEF Batched

----------------------------------------------------------------------------
(* One step.                                                               *)

\* What a step has to show of the row and the board.
LEMMA RowNext ==
    ASSUME UNCHANGED <<harness, host>>, NEW p, NEW nd, NEW t, NEW w, NEW r, NEW o, RowAt(p, nd, t, w, r, o),
           pc' = p, node' = nd, turn' = t, work' = w, row' = r, outcome' = o, replayed' = Board(t)
    PROVE  RowTraced'
<1>1. Runnable(turn)' <=> Runnable(t)
  BY DEF Runnable, Batched
<1>2. Runnable(work.turn)' <=> Runnable(w.turn)
  BY DEF Runnable, Batched
<1>3. Board(turn)' = Board(t) /\ Board(work.turn)' = Board(w.turn) /\ Board(work.board)' = Board(w.board)
  BY DEF Board
<1>4. ASSUME NEW call, NEW b PROVE Execute(call, b)' = Execute(call, b)
  BY DEF Execute
<1>5. ASSUME NEW boards, NEW n PROVE LedTo(boards, work, n)' <=> LedTo(boards, w, n)
  BY <1>3, <1>4 DEF LedTo
<1>6. BatchTraced(turn, row, work)' <=> BatchTraced(t, r, w)
  BY <1>2, <1>3, <1>5 DEF BatchTraced, InPass
<1>7. RowAt(pc, node, turn, work, row, outcome)'
  BY <1>1, <1>6 DEF RowAt
<1> QED BY <1>3, <1>7 DEF RowTraced

\* A turn that is given up.
LEMMA RowAbort ==
    ASSUME Recording, RowTraced, UNCHANGED <<harness, host>>,
           NEW after, Notes(row, after), RowOK(after),
           NEW reason, NEW rollback, Aborts(reason, after, rollback),
           Fail(after, rollback).status = "failed" /\ outcome' # "interrupted" => Marked(Fail(after, rollback))
    PROVE  RowTraced'
<1> DEFINE r == Fail(after, rollback)
           t == turn
           v == NoWork
           nd == node
           o == IF outcome = "interrupted" THEN outcome ELSE reason
<1>1. IsRow(after) /\ after.status = row.status
  BY DEF Notes
<1>2. RowOK(r) /\ (row.status = "running" => r.status # "completed")
  BY <1>1, FailedRow
<1>3. pc' = "done" /\ outcome' = o /\ work' = v /\ row' = r /\ node' = nd /\ turn' = t
  BY DEF Aborts, Saves
<1>4. replayed' = Board(t)
  <2>1. replayed = Board(turn)
    BY DEF RowTraced
  <2>2. Saves(r)
    BY DEF Aborts
  <2> HIDE DEF r
  <2>3. replayed' = replayed
    BY <1>2, <2>2 DEF Saves
  <2> QED BY <2>1, <2>3
<1>5. r.status = "failed" /\ o # "interrupted" => Marked(r)
  BY <1>3
<1> HIDE DEF r, t, v, nd, o
<1>6. RowAt("done", nd, t, v, r, o)
  BY <1>2, <1>5 DEF RowAt
<1> QED BY <1>3, <1>4, <1>6, RowNext

\* Nothing is open between two passes.
LEMMA BetweenPasses ==
    ASSUME Recording, RowTraced, HostOK, RecordOK, pc = "node", node \notin ToolNodes
    PROVE  /\ row.number = 0 \/ row.finished
           /\ RowOK(row)
           /\ \A rollback : /\ Fail(row, rollback) = row
                            /\ Fail(row, rollback).status = "failed" => Marked(Fail(row, rollback))
<1>1. (row.number = 0 \/ row.finished) /\ RowOK(row) /\ outcome # "interrupted"
      /\ (row.status = "failed" /\ row.finished => Marked(row))
  BY DEF RowTraced, RowAt, HostOK
<1>2. \A rollback : Fail(row, rollback) = row
  BY <1>1 DEF Fail
<1>3. row.status = "failed" => Marked(row)
  BY <1>1 DEF RowOK
<1> QED BY <1>1, <1>2, <1>3

\* A node that returns, and the row it leaves.
LEMMA RowReturn ==
    ASSUME Recording, RowTraced, UNCHANGED <<harness, host>>,
           NEW t, t.phase \in Homes, NEW u, Leads(t, u), node \in {t.phase, ToolsOf(t.phase)}, Returns(node, u),
           NEW s, Saves(s), RowOK(s),
           outcome = "interrupted" => row.status # "running",
           outcome # "interrupted" =>
              /\ Board(u) = IF row.status = "running" /\ s.status = "completed"
                            THEN Replay(Board(turn), s) ELSE Board(turn)
              /\ s.status = "failed" => Marked(s)
              /\ IF node' \in ToolNodes THEN InPass(s) /\ Runnable(u) /\ Lists(s, u.pending) /\ NoneRan(s)
                 ELSE s.number = 0 \/ s.finished
    PROVE  RowTraced'
<1>1. /\ outcome' = outcome
      /\ outcome = "interrupted" => pc' = "done" /\ UNCHANGED <<node, turn>>
      /\ outcome # "interrupted" => pc' = "node" /\ turn' = u
  BY ReturnPlaces
<1>2. work' = NoWork
  BY DEF Returns
<1>3. /\ row' = s
      /\ replayed' = IF row.status = "running" /\ s.status = "completed"
                     THEN Replay(Board(turn), s) ELSE Board(turn)
  BY DEF Saves, RowTraced
<1>4. CASE outcome = "interrupted"
  <2> DEFINE x == turn
             nd == node
             v == NoWork
             o == outcome
  <2>1. pc' = "done" /\ outcome' = o /\ work' = v /\ row' = s /\ node' = nd /\ turn' = x /\ replayed' = Board(x)
        /\ o = "interrupted"
    BY <1>1, <1>2, <1>3, <1>4
  <2> HIDE DEF x, nd, v, o
  <2>2. RowAt("done", nd, x, v, s, o)
    BY <2>1 DEF RowAt
  <2> QED BY <2>1, <2>2, RowNext
<1>5. CASE outcome # "interrupted"
  <2> DEFINE v == NoWork
             o == outcome
  <2>1. PICK nd : nd = node'
    OBVIOUS
  <2>2. pc' = "node" /\ outcome' = o /\ work' = v /\ row' = s /\ turn' = u /\ replayed' = Board(u)
    BY <1>1, <1>2, <1>3, <1>5
  <2>3. /\ s.status = "failed" => Marked(s)
        /\ IF nd \in ToolNodes THEN InPass(s) /\ Runnable(u) /\ Lists(s, u.pending) /\ NoneRan(s)
           ELSE s.number = 0 \/ s.finished
    BY <1>5, <2>1
  <2> HIDE DEF v, o
  <2>4. RowAt("node", nd, u, v, s, o)
    BY <2>3 DEF RowAt
  <2> QED BY <2>1, <2>2, <2>4, RowNext
<1> QED BY <1>4, <1>5

\* The model is asked.
LEMMA RequestRow ==
    ASSUME Recording, RowTraced, HostOK, LoopOK, RecordOK, RequestPass
    PROVE  RowTraced'
<1> DEFINE r  == CaptureInput(Begin(row, turn.phase))
           t  == turn
           nd == node
           v  == work
           o  == outcome
<1>1. pc = "node" /\ node \notin ToolNodes /\ UNCHANGED <<harness, host>>
  BY DEF RequestPass
<1>2. /\ row.number = 0 \/ row.finished
      /\ RowOK(row)
      /\ Fail(row, FALSE).status = "failed" => Marked(Fail(row, FALSE))
  BY <1>1, BetweenPasses
<1>3. Notes(row, row)
  BY DEF RecordOK, Notes
<1>4. CASE \E reason : Aborts(reason, row, FALSE)
  BY <1>1, <1>2, <1>3, <1>4, RowAbort
<1>5. CASE pc' = "waiting" /\ Saves(Recorded(r)) /\ UNCHANGED <<node, turn, work, outcome>>
  <2>1. r.status = "running" /\ r.number # 0 /\ r.exchange = "asked" /\ r.finished = FALSE
    BY DEF RecordOK, IsRow, Begin, CaptureInput
  <2>2. replayed = Board(t)
    BY DEF RowTraced
  <2> HIDE DEF r
  <2>3. row' = r /\ replayed' = Board(t)
    BY <1>5, <2>1, <2>2 DEF Saves, Recorded
  <2>4. RowAt("waiting", nd, t, v, r, o)
    BY <2>1 DEF RowAt, RowOK
  <2>5. pc' = "waiting" /\ node' = nd /\ turn' = t /\ work' = v /\ outcome' = o
    BY <1>5
  <2> HIDE DEF t, nd, v, o
  <2> QED BY <1>1, <2>3, <2>4, <2>5, RowNext
<1> QED BY <1>4, <1>5 DEF RequestPass

\* The calls of an answer are listed before anything else is made of it.
LEMMA HeardLists ==
    ASSUME Recording, IsRow(row), RowOK(row), row.status = "running", row.number # 0, row.exchange = "asked",
           NEW answer, IsBatch(answer.calls)
    PROVE  LET heard == Recorded(Listed(Exchanged(answer), answer.calls))
           IN  /\ Notes(row, heard) /\ RowOK(heard) /\ ~heard.finished
               /\ Lists(heard, answer.calls) /\ NoneRan(heard)
               /\ ~ClientRaises(answer) => InPass(heard)
<1> DEFINE e     == Exchanged(answer)
           calls == answer.calls
           heard == Recorded(Listed(e, calls))
<1>1. /\ IsRow(e) /\ e.number = row.number /\ e.status = "running" /\ e.finished = row.finished
      /\ ~ClientRaises(answer) => e.exchange = "answered"
  BY DEF Exchanged, CaptureOutput, IsRow, ClientRaises
<1> HIDE DEF e, calls
<1>2. /\ heard = [e EXCEPT !.calls = [i \in DOMAIN calls |-> Listing(calls[i])]]
  BY DEF Recorded, Listed
<1> HIDE DEF heard
<1>3. /\ IsRow(heard) /\ heard.number = e.number /\ heard.status = e.status /\ heard.finished = e.finished
      /\ heard.exchange = e.exchange /\ heard.calls = [i \in DOMAIN calls |-> Listing(calls[i])]
  BY <1>1, <1>2 DEF IsRow
<1> DEFINE c == heard.calls
<1>4. /\ c = [i \in DOMAIN calls |-> c[i]] /\ DOMAIN c = DOMAIN calls
      /\ \A i \in DOMAIN calls : c[i] = Listing(calls[i])
  <2>1. c = [i \in DOMAIN calls |-> Listing(calls[i])]
    BY <1>3
  <2> HIDE DEF c
  <2> QED BY <2>1
<1> HIDE DEF c
<1>5. \A i \in DOMAIN calls : /\ DOMAIN c[i] = CallFields
                              /\ c[i].call = calls[i] /\ c[i].error = FALSE
                              /\ c[i].rolledBack = FALSE /\ c[i].executed = FALSE
  BY <1>4 DEF Listing, CallFields
<1>6. Lists(heard, calls) /\ NoneRan(heard)
  BY <1>4, <1>5 DEF Lists, NoneRan, c
<1>7. ~row.finished
  BY DEF RowOK
<1>8. Notes(row, heard) /\ RowOK(heard) /\ ~heard.finished
  BY <1>1, <1>3, <1>7 DEF Notes, RowOK
<1>9. ~ClientRaises(answer) => InPass(heard)
  BY <1>1, <1>3 DEF InPass
<1> QED BY <1>6, <1>8, <1>9 DEF heard, e, calls

\* Player 3 orders a batch as its tools do.
LEMMA SameOrder ==
    ASSUME NEW calls
    PROVE  Three!BatchOrder(calls) = BatchOrder(calls)
<1> DEFINE note(i)   == calls[i].tool = "annotate"
           before(i) == {j \in DOMAIN calls : IF note(i) = note(j) THEN j < i ELSE note(j)}
           at(k)     == CHOOSE i \in DOMAIN calls : Cardinality(before(i)) = k - 1
           x         == [k \in DOMAIN calls |-> [index |-> at(k), call |-> calls[at(k)]]]
<1>1. BatchOrder(calls) = x
  BY DEF BatchOrder
<1>2. ASSUME NEW S PROVE Three!Cardinality(S) = Cardinality(S)
  BY DEF Three!Cardinality, Cardinality, Three!IsFiniteSet, IsFiniteSet
<1>3. Three!BatchOrder(calls) = x
  BY <1>2 DEF Three!BatchOrder
<1> HIDE DEF x
<1> QED BY <1>1, <1>3

\* A batch that begins has run nothing.
LEMMA BatchStarts ==
    ASSUME NEW t, NEW u, NEW r, NEW inline, InPass(r), Runnable(u), Lists(r, u.pending), NoneRan(r),
           Board(u) = Board(t)
    PROVE  BatchTraced(t, r, StartWork(u, inline))
<1> DEFINE w     == StartWork(u, inline)
           calls == u.pending
           order == BatchOrder(calls)
           L     == Len(calls)
<1>1. /\ w.turn = u /\ w.ran = {} /\ w.board = Board(u) /\ w.left = order
  <2>1. Three!BatchOrder(calls) = order
    BY SameOrder
  <2> QED BY <2>1 DEF StartWork
<1> HIDE DEF w
<1>2. IsBatch(calls) /\ L \in Nat /\ DOMAIN calls = 1 .. L /\ DOMAIN r.calls = 1 .. L
  <2>1. calls \in Seq({calls[i] : i \in DOMAIN calls})
    BY DEF Runnable
  <2> HIDE DEF calls
  <2>2. Lists(r, calls)
    BY DEF calls
  <2> QED BY <2>1, <2>2, ListedRow DEF IsBatch
<1>3. order = [k \in 1 .. L - 0 |-> order[0 + k]]
  <2> HIDE DEF calls
  <2>1. order = [k \in DOMAIN calls |-> order[k]]
    BY DEF BatchOrder
  <2> HIDE DEF order
  <2> QED BY <1>2, <2>1
<1>4. RanTo(r, w, 0)
  <2>1. \A i \in DOMAIN calls : r.calls[i].executed = (i \in {})
    <3>1. \A i : (i \in {}) = FALSE
      OBVIOUS
    <3> QED BY <1>2, <3>1 DEF NoneRan
  <2>2. w.left = [k \in 1 .. L - 0 |-> order[0 + k]]
    BY <1>1, <1>3
  <2>3. 1 .. 0 = {}
    OBVIOUS
  <2>4. w.ran = {order[k].index : k \in 1 .. 0}
    BY <1>1, <2>3
  <2>5. w.turn.pending = calls
    BY <1>1
  <2> DEFINE p == w.turn.pending
  <2> HIDE DEF calls, p
  <2>6. p = calls
    BY <2>5 DEF p
  <2> QED BY <1>1, <2>1, <2>2, <2>3, <2>4, <2>6 DEF RanTo, p, order, L
<1>5. \E boards : LedTo(boards, w, 0)
  <2> DEFINE b == [k \in {0} |-> Board(u)]
  <2>1. b[0] = Board(u) /\ 1 .. 0 = {}
    OBVIOUS
  <2> HIDE DEF b
  <2>2. LedTo(b, w, 0)
    BY <1>1, <2>1 DEF LedTo
  <2> QED BY <2>2
<1>6. Board(Board(u)) = Board(u)
  BY DEF Board
<1>7. 0 \in 0 .. Len(w.turn.pending)
  BY <1>1, <1>2
<1>8. BatchTraced(t, r, w)
  BY <1>1, <1>4, <1>5, <1>6, <1>7 DEF BatchTraced
<1> QED BY <1>8 DEF w

\* The tool node begins its batch.
LEMMA RunRow ==
    ASSUME Recording, RowTraced, HostOK, LoopOK, RecordOK, RunTools
    PROVE  RowTraced'
<1> DEFINE r  == row
           t  == turn
           nd == node
           v  == StartWork(turn, FALSE)
           o  == outcome
<1>1. pc = "node" /\ node \in ToolNodes /\ UNCHANGED <<harness, host>> /\ outcome = "running"
  BY DEF RunTools, HostOK
<1>2. InPass(row) /\ Runnable(turn) /\ Lists(row, turn.pending) /\ NoneRan(row) /\ RowOK(row) /\ replayed = Board(turn)
  BY <1>1 DEF RowTraced, RowAt
<1>3. Notes(row, row) /\ row.number # 0 /\ ~row.finished /\ IsRow(row)
  BY <1>2 DEF RecordOK, Notes, InPass, RowOK
<1>4. CASE \E reason, rollback : Aborts(reason, row, rollback)
  <2>1. \A rollback : Marked(Fail(row, rollback))
    BY <1>2, <1>3, UnrunIsMarked
  <2> QED BY <1>1, <1>2, <1>3, <1>4, <2>1, RowAbort
<1>5. CASE pc' = "batch" /\ work' = v /\ UNCHANGED <<node, turn, outcome, row, replayed>>
  <2>1. BatchTraced(t, r, v)
    BY <1>2, BatchStarts
  <2>2. RowAt("batch", nd, t, v, r, o)
    BY <1>1, <1>2, <1>3, <2>1 DEF RowAt
  <2>3. /\ pc' = "batch" /\ node' = nd /\ turn' = t /\ work' = v /\ outcome' = o
        /\ row' = r /\ replayed' = Board(t)
    BY <1>2, <1>5
  <2> HIDE DEF r, t, nd, v, o
  <2> QED BY <1>1, <2>2, <2>3, RowNext
<1> QED BY <1>4, <1>5 DEF RunTools

\* The model answers.
LEMMA ReceiveRow ==
    ASSUME Recording, RowTraced, HostOK, LoopOK, RecordOK, PlaysOK, NEW answer \in Answers, ReceiveAnswer(answer)
    PROVE  RowTraced'
<1> DEFINE heard  == Recorded(Listed(Exchanged(answer), answer.calls))
           passed == ModelPass(answer)
           calls  == answer.calls
           t      == turn
           u      == passed.turn
<1>1. /\ pc = "waiting" /\ UNCHANGED <<harness, host>> /\ Fit(turn) /\ node = t.phase /\ t.phase \in Homes
      /\ node \in DOMAIN Edges \ ToolNodes /\ outcome = "running" /\ IsTurn(turn) /\ MayAsk /\ IsRow(row)
  BY DEF ReceiveAnswer, PlaysOK, Fit, LoopOK, HostOK, RecordOK
<1>2. row.status = "running" /\ row.number # 0 /\ row.exchange = "asked" /\ RowOK(row) /\ replayed = Board(turn)
  BY <1>1 DEF RowTraced, RowAt
<1>3. /\ Notes(row, heard) /\ RowOK(heard) /\ ~heard.finished
      /\ Lists(heard, calls) /\ NoneRan(heard)
      /\ ~ClientRaises(answer) => InPass(heard)
  BY <1>1, <1>2, AnswersHoldBatches, HeardLists
<1>4. Passes(turn, passed) /\ Counts(turn, passed) /\ LeavesBatch(calls, passed)
  BY <1>1, ModelPasses, PassCounts, PassLeavesBatch
<1>5. IsRow(heard) /\ heard.number # 0 /\ heard.status = "running"
  BY <1>2, <1>3 DEF Notes
<1>6. (\A rollback : Marked(Fail(heard, rollback)))
      /\ LET s == StateSaved(heard, TRUE, {}, {}, FALSE)
         IN  Marked(s) /\ s.status = "failed" /\ s.finished
  <2> HIDE DEF heard, calls
  <2> QED BY <1>3, <1>5, UnrunIsMarked
<1>7. CASE \E reason : Aborts(reason, heard, FALSE)
  <2> HIDE DEF heard
  <2> QED BY <1>1, <1>3, <1>6, <1>7, RowAbort
<1>8. ASSUME passed.tag # "raised" PROVE Board(u) = Board(t) /\ u.phase = t.phase
  BY <1>4, <1>8 DEF Passes, SameBoard, Board
<1>9. CASE /\ passed.tag = "goes" /\ ~ClientRaises(answer) /\ Returns(node, u)
           /\ Saves(Recorded(StateSaved(heard, passed.retried, {}, {}, u.pending # <<>>)))
  <2> DEFINE s == StateSaved(heard, passed.retried, {}, {}, u.pending # <<>>)
  <2>1. InPass(heard)
    BY <1>3, <1>9
  <2>2. /\ passed.retried \in BOOLEAN
        /\ passed.retried => u.pending = <<>> /\ u.next \notin ToolNodes
        /\ ~passed.retried => u.pending = calls /\ Runnable(u) /\ u.next \in ToolNodes
    BY <1>4, <1>9 DEF LeavesBatch
  <2>3. Saves(s) /\ Returns(node, u)
    BY <1>9 DEF Recorded
  <2>4. RowOK(s)
    <3> HIDE DEF heard
    <3>1. heard.exchange = "answered" /\ (u.pending # <<>>) \in BOOLEAN
      BY <2>1 DEF InPass
    <3> QED BY <1>3, <1>5, <3>1, SavedRow
  <2>5. Leads(t, u)
    <3>1. u.next = t.phase \/ (u.next = ToolsOf(t.phase) /\ HasTools(u))
      BY <1>4, <1>9 DEF Passes
    <3>2. t.phase # ToolsOf(t.phase) /\ u.phase = t.phase
      BY <1>1, <1>8, <1>9 DEF ToolsOf, Homes
    <3> HIDE DEF u, t, passed
    <3> QED BY <1>1, <3>1, <3>2 DEF Leads
  <2>6. node' = u.next
    <3> HIDE DEF u
    <3>1. outcome # "interrupted" /\ t.phase \in Homes /\ node \in {t.phase, ToolsOf(t.phase)}
      BY <1>1
    <3> HIDE DEF t
    <3>2. pc' = "node"
      BY <2>3, <2>5, <3>1, ReturnPlaces
    <3> QED BY <1>1, <2>3, <3>2, ReturnLeads
  <2>7. CASE passed.retried
    <3>1. s = StateSaved(heard, TRUE, {}, {}, FALSE)
      <4>1. u.pending = <<>> /\ passed.retried = TRUE
        BY <2>2, <2>7
      <4> HIDE DEF u, heard, passed
      <4> QED BY <4>1
    <3>2. Marked(s) /\ s.status = "failed" /\ s.finished /\ node' \notin ToolNodes
      BY <1>6, <2>2, <2>6, <2>7, <3>1
    <3>3. Board(u) = Board(t)
      BY <1>8, <1>9
    <3> HIDE DEF s, u
    <3> QED BY <1>1, <2>3, <2>4, <2>5, <3>2, <3>3, RowReturn
  <2>8. CASE ~passed.retried
    <3>1. u.pending = calls /\ Runnable(u) /\ u.next \in ToolNodes
      BY <2>2, <2>8
    <3>2. u.pending # <<>>
      BY <3>1 DEF Runnable
    <3>3. s = StateSaved(heard, FALSE, {}, {}, TRUE)
      <4>1. passed.retried = FALSE /\ (u.pending # <<>>) = TRUE
        BY <2>2, <2>8, <3>2
      <4> HIDE DEF u, heard, passed
      <4> QED BY <4>1
    <3> DEFINE z == StateSaved(heard, FALSE, {}, {}, TRUE)
    <3>4. /\ Lists(z, calls)
          /\ \A i \in DOMAIN calls : z.calls[i].executed = heard.calls[i].executed
          /\ DOMAIN z.calls = DOMAIN heard.calls
          /\ z.number = heard.number /\ z.exchange = heard.exchange /\ z.status = "running"
      <4> HIDE DEF heard, calls
      <4> QED BY <1>3, <1>5, SavedStays
    <3> HIDE DEF z
    <3>5. Lists(s, u.pending) /\ InPass(s) /\ NoneRan(s)
      <4>1. s = z /\ InPass(z) /\ Lists(z, u.pending)
        BY <1>5, <2>1, <3>1, <3>3, <3>4 DEF InPass, z
      <4>2. DOMAIN heard.calls = DOMAIN calls
        <5> HIDE DEF heard, calls
        <5>1. heard.calls = [i \in DOMAIN calls |-> heard.calls[i]]
          BY <1>3 DEF Lists
        <5> QED BY <5>1
      <4>3. NoneRan(z)
        <5> HIDE DEF heard, calls
        <5> QED BY <1>3, <3>4, <4>2 DEF NoneRan
      <4> HIDE DEF s, u
      <4> QED BY <4>1, <4>3
    <3>6. s.status = "running" /\ node' \in ToolNodes
      BY <2>6, <3>1, <3>5 DEF InPass
    <3>7. Board(u) = Board(t)
      BY <1>8, <1>9
    <3> HIDE DEF s, u
    <3> QED BY <1>1, <2>3, <2>4, <2>5, <3>1, <3>5, <3>6, <3>7, RowReturn
  <2> QED BY <2>7, <2>8
<1>10. CASE /\ passed.tag = "submits" /\ ~ClientRaises(answer) /\ pc' = "batch" /\ work' = StartWork(u, TRUE)
            /\ Saves(heard) /\ UNCHANGED <<node, turn, outcome>>
  <2> DEFINE v  == StartWork(u, TRUE)
             nd == node
             o  == outcome
  <2>1. Runnable(u) /\ Lists(heard, u.pending) /\ Board(u) = Board(t) /\ InPass(heard)
    BY <1>3, <1>4, <1>8, <1>10 DEF LeavesBatch
  <2>2. row' = heard /\ replayed' = Board(t)
    BY <1>2, <1>5, <1>10 DEF Saves
  <2>3. pc' = "batch" /\ node' = nd /\ turn' = t /\ work' = v /\ outcome' = o
    BY <1>10
  <2>4. BatchTraced(t, heard, v)
    <3> HIDE DEF heard, u, t
    <3> QED BY <1>3, <2>1, BatchStarts
  <2>5. RowAt("batch", nd, t, v, heard, o)
    <3> HIDE DEF heard, v
    <3> QED BY <1>1, <1>3, <2>4 DEF RowAt
  <2> HIDE DEF heard, t, nd, v, o
  <2> QED BY <1>1, <2>2, <2>3, <2>5, RowNext
<1>11. passed.tag \in {"raised", "goes", "submits"}
  BY <1>4 DEF Counts
<1> QED BY <1>7, <1>9, <1>10, <1>11 DEF ReceiveAnswer

\* What the recorder notes of a call is neither the state nor the exchange.
LEMMA CallKeepsExchange ==
    ASSUME NEW r, IsRow(r), NEW call, NEW i, NEW b
    PROVE  LET s == ToolFinished(ToolStarted(r, call), i, b)
           IN  Notes(r, s) /\ s.exchange = r.exchange
<1> DEFINE t == ToolStarted(r, call)
           s == ToolFinished(t, i, b)
<1>1. Notes(r, t)
  BY NoteCalls
<1>2. t.exchange = r.exchange
  BY DEF ToolStarted, IsRow
<1>3. IsRow(t)
  BY <1>1 DEF Notes
<1> HIDE DEF t
<1>4. Notes(t, s)
  BY <1>3, NoteCalls
<1>5. s.exchange = t.exchange
  BY <1>3 DEF ToolFinished, IsRow
<1> HIDE DEF s
<1> QED BY <1>1, <1>2, <1>4, <1>5, NoteTwice DEF s, t

\* A call of a batch that was interrupted is noted on a row already closed.
LEMMA LateCallRow ==
    ASSUME Recording, RowTraced, LoopOK, RecordOK, PlaysOK, CallTool, outcome = "interrupted"
    PROVE  RowTraced'
<1> DEFINE item   == Head(work.left)
           result == Execute(item.call, work.board)
           seen   == Recorded(ToolFinished(ToolStarted(row, item.call), Sought(row, item.call),
                                           result.verdict # "ok"))
           t      == work.turn
           u      == Reject.turn
<1>1. /\ pc = "batch" /\ UNCHANGED <<harness, host>> /\ Fit(t) /\ t.phase \in Homes
      /\ node \in {t.phase, ToolsOf(t.phase)} /\ IsRow(row)
  BY DEF CallTool, PlaysOK, Fit, RecordOK
<1>2. row.status # "running" /\ RowOK(row) /\ replayed = Board(turn)
  BY <1>1 DEF RowTraced, RowAt
<1>3. Notes(row, seen) /\ seen.exchange = row.exchange
  <2>1. seen = ToolFinished(ToolStarted(row, item.call), Sought(row, item.call), result.verdict # "ok")
    BY DEF Recorded
  <2> HIDE DEF seen, item, result
  <2> QED BY <1>1, <2>1, CallKeepsExchange
<1>4. RowOK(seen) /\ IsRow(seen) /\ seen.status # "running"
  <2> HIDE DEF seen
  <2> QED BY <1>2, <1>3 DEF Notes, RowOK
<1>5. CASE \E reason, rollback : Aborts(reason, seen, rollback)
  <2> HIDE DEF seen
  <2>1. PICK reason, rollback : Aborts(reason, seen, rollback)
    BY <1>5
  <2>2. outcome' = "interrupted"
    BY <2>1 DEF Aborts
  <2> QED BY <1>1, <1>3, <1>4, <2>1, <2>2, RowAbort
<1>6. CASE /\ Reject.tag # "raised" /\ Returns(node, u)
           /\ \E s : Saves(s) /\ s = Recorded(StateSaved(seen, FALSE, work.ran, Failing(item.index), FALSE))
  <2> DEFINE failing == Failing(item.index)
             s == StateSaved(seen, FALSE, work.ran, failing, FALSE)
  <2>1. Saves(s) /\ Returns(node, u)
    BY <1>6 DEF Recorded
  <2>2. RowOK(s)
    <3> HIDE DEF seen, failing
    <3> QED BY <1>4, SavedRow
  <2>3. Fit(u) /\ u.phase = t.phase /\ u.next = t.phase
    BY <1>1, <1>6, RejectFits
  <2> HIDE DEF s, u, t
  <2>4. Leads(t, u)
    BY <2>3 DEF Leads
  <2> QED BY <1>1, <1>2, <2>1, <2>2, <2>4, RowReturn
<1>7. CASE /\ Saves(seen) /\ UNCHANGED <<pc, node, turn, outcome>>
  <2> DEFINE x  == turn
             v  == work'
             nd == node
             o  == outcome
  <2>0. PICK w : w = work'
    OBVIOUS
  <2>1. /\ pc' = "batch" /\ node' = nd /\ turn' = x /\ work' = w /\ outcome' = o
        /\ o = "interrupted"
    BY <1>1, <1>7, <2>0
  <2>2. row' = seen /\ replayed' = Board(x)
    BY <1>2, <1>7 DEF Saves
  <2> HIDE DEF seen, x, nd, o
  <2>3. RowAt("batch", nd, x, w, seen, o)
    BY <1>4, <2>1 DEF RowAt
  <2> QED BY <1>1, <2>1, <2>2, <2>3, RowNext
<1> QED BY <1>5, <1>6, <1>7 DEF CallTool

\* What the recorder makes of a call of a batch that was not interrupted, and
\* the four ways the call may go on.
LEMMA CallRow ==
    ASSUME Recording, RowTraced, HostOK, LoopOK, RecordOK, PlaysOK, RestOK, CallTool, outcome # "interrupted"
    PROVE  RowTraced'
<1> DEFINE item   == Head(work.left)
           result == Execute(item.call, work.board)
           bad    == result.verdict # "ok"
           seen   == Recorded(ToolFinished(ToolStarted(row, item.call), Sought(row, item.call), bad))
           t      == work.turn
           u      == Reject.turn
           calls  == work.turn.pending
           x      == item.index
<1>1. /\ pc = "batch" /\ UNCHANGED <<harness, host>> /\ Fit(t) /\ t.phase \in Homes /\ work.left # <<>>
      /\ node \in {t.phase, ToolsOf(t.phase)} /\ IsRow(row) /\ GoodBoard(work.board)
      /\ DOMAIN work = {"turn", "left", "ran", "board", "decision", "branch", "inline"}
      /\ node \in DOMAIN Edges /\ IsTurn(t)
  BY DEF CallTool, PlaysOK, Fit, RecordOK, LoopOK
<1>2. BatchTraced(turn, row, work) /\ RowOK(row) /\ replayed = Board(turn)
  BY <1>1 DEF RowTraced, RowAt
<1>3. /\ row.status = "running" /\ row.number # 0 /\ row.exchange = "answered" /\ ~row.finished
      /\ Runnable(t) /\ Lists(row, calls) /\ Board(t) = Board(turn) /\ work.board = Board(work.board)
  BY <1>2 DEF BatchTraced, InPass, RowOK
<1>4. PICK n \in 0 .. Len(calls) : RanTo(row, work, n) /\ \E boards : LedTo(boards, work, n)
  BY <1>2 DEF BatchTraced
<1>5. /\ n < Len(calls) /\ item = BatchOrder(calls)[n + 1]
      /\ x \in 1 .. Len(calls) /\ x \notin work.ran /\ item.call = calls[x]
  BY <1>1, <1>3, <1>4, NextIsSought
<1>6. /\ Notes(row, seen) /\ seen.exchange = row.exchange
      /\ CallNoted(row, seen, calls, work.ran, x, n + 1, bad)
  <2>1. bad \in BOOLEAN
    OBVIOUS
  <2>2. seen = ToolFinished(ToolStarted(row, item.call), Sought(row, item.call), bad)
    BY DEF Recorded
  <2> HIDE DEF seen, bad
  <2> QED BY <1>1, <1>3, <1>4, <2>1, <2>2, CallIsNoted
<1>7. /\ RowOK(seen) /\ IsRow(seen) /\ seen.status = "running" /\ seen.number # 0
      /\ ~seen.finished /\ seen.exchange = "answered"
  <2> HIDE DEF seen
  <2> QED BY <1>2, <1>3, <1>6 DEF Notes, RowOK
<1>8. result.verdict \in {"ok", "rejected"}
  BY <1>1, ToolsStand
<1>9. x \in DOMAIN calls
  <2>1. calls \in Seq({calls[i] : i \in DOMAIN calls})
    BY <1>3 DEF Runnable
  <2> HIDE DEF calls, x
  <2>2. DOMAIN calls = 1 .. Len(calls)
    BY <2>1
  <2> QED BY <1>5, <2>2
<1>10. ~Batched => work.ran = {}
  <2> SUFFICES ASSUME ~Batched PROVE work.ran = {}
    OBVIOUS
  <2>1. n = 0
    <3>1. Len(calls) = 1
      BY <1>3 DEF Runnable
    <3> HIDE DEF calls
    <3> QED BY <1>4, <1>5, <3>1
  <2>2. 1 .. n = {}
    BY <2>1
  <2>3. work.ran = {BatchOrder(calls)[k].index : k \in 1 .. n}
    BY <1>4 DEF RanTo
  <2> HIDE DEF calls
  <2> QED BY <2>2, <2>3
<1>11. CASE (bad \/ Batched) /\ \E reason : Aborts(reason, seen, Batched)
  <2>1. PICK reason : Aborts(reason, seen, Batched)
    BY <1>11
  <2>2. Batched \/ (work.ran = {} /\ bad)
    BY <1>10, <1>11
  <2> HIDE DEF seen, bad, x, calls
  <2>3. Marked(Fail(seen, Batched))
    BY <1>6, <1>7, <2>2, AbortIsMarked
  <2> QED BY <1>1, <1>6, <1>7, <2>1, <2>3, RowAbort
<1>12. CASE result.verdict = "rejected" /\ Reject.tag = "raised"
  <2>1. Aborts("failed", seen, Batched) /\ bad
    BY <1>12 DEF CallTool
  <2> QED BY <1>11, <2>1
<1>13. CASE result.verdict = "ok" /\ cancelled
  <2>1. Aborts("cancelled", seen, Batched)
    BY <1>13 DEF CallTool
  <2>2. Batched
    BY <1>13 DEF HostOK, Recording, Batched, RestOK, Hosts
  <2> QED BY <1>11, <2>1, <2>2
<1>14. CASE result.verdict = "rejected" /\ Reject.tag # "raised"
  <2> DEFINE failing == Failing(x)
             s       == StateSaved(seen, FALSE, work.ran, failing, FALSE)
  <2>1. Saves(s) /\ Returns(node, u) /\ bad = TRUE
    BY <1>14 DEF CallTool, Recorded
  <2>2. x \in failing
    <3>1. ~Batched => x = 1
      <4> SUFFICES ASSUME ~Batched PROVE x = 1
        OBVIOUS
      <4>1. Len(calls) = 1
        BY <1>3 DEF Runnable
      <4> HIDE DEF calls, x
      <4> QED BY <1>5, <4>1
    <3>2. CASE harness = "three"
      BY <1>9, <3>2 DEF Failing
    <3>3. CASE harness = "two"
      BY <3>3 DEF Failing
    <3>4. CASE harness \notin {"two", "three"}
      <4>1. Failing(x) = {1} /\ ~Batched
        BY <3>4 DEF Failing, Batched
      <4> HIDE DEF x
      <4> QED BY <3>1, <4>1
    <3> QED BY <3>2, <3>3, <3>4
  <2>3. RowOK(s)
    <3> HIDE DEF seen, failing
    <3> QED BY <1>7, SavedRow
  <2>4. Marked(s) /\ s.status = "failed"
    <3>1. CallNoted(row, seen, calls, work.ran, x, n + 1, TRUE)
      <4> HIDE DEF seen, bad, x, calls
      <4> QED BY <1>6, <2>1
    <3> DEFINE place == n + 1
               ran   == work.ran
    <3>2. CallNoted(row, seen, calls, ran, x, place, TRUE)
      BY <3>1
    <3> HIDE DEF seen, failing, x, calls, place, ran
    <3>3. IsRow(seen) /\ seen.number # 0
      BY <1>7
    <3>4. Marked(StateSaved(seen, FALSE, ran, failing, FALSE))
          /\ StateSaved(seen, FALSE, ran, failing, FALSE).status = "failed"
      BY <1>9, <2>2, <3>2, <3>3, RefusedIsMarked
    <3> QED BY <3>4 DEF ran
  <2>5. s.finished
    <3> HIDE DEF seen, failing
    <3> QED BY <1>7 DEF StateSaved, IsRow
  <2>6. Fit(u) /\ u.phase = t.phase /\ u.next = t.phase
    BY <1>1, <1>14, RejectFits
  <2>7. Board(u) = Board(turn)
    BY <1>1, <1>3, <1>14, RejectKeepsBoard
  <2>8. node' \notin ToolNodes
    <3>1. pc' = "node" => (node' \in ToolNodes => node' = u.next)
      BY <1>1, <2>1, ReturnLeads
    <3>2. Leads(t, u)
      <4> HIDE DEF u, t
      <4> QED BY <2>6 DEF Leads
    <3>3. pc' = "node"
      <4> HIDE DEF u, t
      <4> QED BY <1>1, <2>1, <3>2, ReturnPlaces
    <3>4. t.phase \notin ToolNodes
      BY <1>1 DEF Homes, ToolNodes
    <3> QED BY <2>6, <3>1, <3>3, <3>4
  <2> HIDE DEF s, u, t
  <2>9. Leads(t, u)
    BY <2>6 DEF Leads
  <2> QED BY <1>1, <2>1, <2>3, <2>4, <2>5, <2>7, <2>8, <2>9, RowReturn
<1>15. CASE result.verdict = "ok" /\ ~cancelled
  <2> DEFINE y  == turn
             nd == node
             o  == outcome
  <2>0. PICK w : w = work'
    OBVIOUS
  <2>1. /\ work' = [work EXCEPT !.left = Tail(@), !.ran = @ \cup {item.index},
                                !.board = result.board,
                                !.decision = IF item.call.tool = "submit_move" THEN item.call.move ELSE @,
                                !.branch = IF item.call.tool = "submit_move" THEN item.call.branch ELSE @]
        /\ UNCHANGED <<pc, node, turn, outcome>> /\ Saves(seen) /\ bad = FALSE
    BY <1>15 DEF CallTool
  <2>2. w.turn = t /\ w.left = Tail(work.left) /\ w.ran = work.ran \cup {x} /\ w.board = result.board
    <3> HIDE DEF item, result
    <3> QED BY <1>1, <2>0, <2>1
  <2>3. Lists(seen, w.turn.pending) /\ n + 1 \in 0 .. Len(w.turn.pending) /\ RanTo(seen, w, n + 1)
    <3>1. CallNoted(row, seen, calls, work.ran, x, n + 1, FALSE)
      <4> HIDE DEF seen, bad, x, calls
      <4> QED BY <1>6, <2>1
    <3> HIDE DEF seen
    <3> QED BY <1>1, <1>3, <1>4, <2>2, <3>1, OneCallFurther
  <2>4. \E later : LedTo(later, w, n + 1)
    <3>1. w.board = Execute(BatchOrder(calls)[n + 1].call, work.board).board
      BY <1>5, <2>2
    <3>2. n \in Nat
      <4> HIDE DEF calls
      <4> QED BY <1>4
    <3> QED BY <1>4, <2>2, <3>1, <3>2, OneBoardFurther
  <2>5. w.board = Board(w.board)
    <3> HIDE DEF item
    <3> QED BY <1>3, <2>2, ToolLeavesBoard
  <2>6. BatchTraced(y, seen, w)
    <3>1. InPass(seen) /\ Runnable(w.turn) /\ Board(w.turn) = Board(y)
      BY <1>3, <1>7, <2>2 DEF InPass
    <3> HIDE DEF seen, y
    <3> QED BY <2>3, <2>4, <2>5, <3>1 DEF BatchTraced
  <2>7. row' = seen /\ replayed' = Board(y)
    BY <1>2, <1>7, <2>1 DEF Saves
  <2>8. pc' = "batch" /\ node' = nd /\ turn' = y /\ work' = w /\ outcome' = o
    BY <1>1, <2>0, <2>1
  <2>9. RowAt("batch", nd, y, w, seen, o)
    <3> HIDE DEF seen, y
    <3> QED BY <1>7, <2>6 DEF RowAt
  <2> HIDE DEF seen, y, nd, o
  <2> QED BY <1>1, <2>7, <2>8, <2>9, RowNext
<1> QED BY <1>8, <1>12, <1>13, <1>14, <1>15

\* The batch that is done: its row is completed and replays to the board the
\* turn goes on with.
LEMMA FinishRow ==
    ASSUME Recording, RowTraced, LoopOK, RecordOK, PlaysOK, FinishBatch
    PROVE  RowTraced'
<1> DEFINE t     == work.turn
           u     == Commit.turn
           calls == work.turn.pending
           s     == StateSaved(row, FALSE, {}, {}, FALSE)
<1>1. /\ pc = "batch" /\ UNCHANGED <<harness, host>> /\ Fit(t) /\ t.phase \in Homes /\ work.left = <<>>
      /\ node \in {t.phase, ToolsOf(t.phase)} /\ IsRow(row) /\ GoodBoard(work.board)
      /\ node \in DOMAIN Edges /\ IsTurn(t) /\ Saves(s) /\ Returns(node, u)
      /\ \/ node = t.phase /\ (Batched \/ harness = "one")
         \/ node = ToolsOf(t.phase) /\ HasTools(t)
  BY DEF FinishBatch, PlaysOK, Fit, RecordOK, LoopOK, Recorded
<1>2. RowOK(row) /\ replayed = Board(turn)
  BY <1>1 DEF RowTraced, RowAt
<1>3. Settled(t, u) /\ u.next \notin ToolNodes
  BY <1>1, CommitFits, CommitSettles DEF Settles
<1>4. Leads(t, u)
  <2>1. t.phase # ToolsOf(t.phase) /\ (Batched \/ harness = "one" => t.phase # "decide")
    BY <1>1 DEF ToolsOf, Homes
  <2> HIDE DEF t, u
  <2> QED BY <1>1, <1>3, <2>1 DEF Settled, Leads
<1>5. CASE outcome = "interrupted"
  <2>1. row.status # "running"
    BY <1>1, <1>5 DEF RowTraced, RowAt
  <2>2. RowOK(s)
    BY <1>1, <1>2, <2>1, SavedRow
  <2> HIDE DEF s, t, u
  <2> QED BY <1>1, <1>4, <1>5, <2>1, <2>2, RowReturn
<1>6. CASE outcome # "interrupted"
  <2>1. BatchTraced(turn, row, work)
    BY <1>1, <1>6 DEF RowTraced, RowAt
  <2>2. /\ row.status = "running" /\ row.number # 0 /\ row.exchange = "answered" /\ ~row.finished
        /\ Runnable(t) /\ Lists(row, calls) /\ Board(t) = Board(turn) /\ work.board = Board(work.board)
    BY <1>2, <2>1 DEF BatchTraced, InPass, RowOK
  <2>3. PICK n \in 0 .. Len(calls) : \E boards : RanTo(row, work, n) /\ LedTo(boards, work, n)
    BY <2>1 DEF BatchTraced
  <2>4. IsBatch(calls) /\ Len(calls) \in Nat /\ DOMAIN calls = 1 .. Len(calls)
    <3>1. calls \in Seq({calls[i] : i \in DOMAIN calls})
      BY <2>2 DEF Runnable
    <3> HIDE DEF calls
    <3> QED BY <3>1 DEF IsBatch
  <2>5. n = Len(calls)
    <3> DEFINE left == [k \in 1 .. Len(calls) - n |-> BatchOrder(calls)[n + k]]
    <3>1. left = <<>>
      BY <1>1, <2>3 DEF RanTo
    <3>2. DOMAIN left = 1 .. Len(calls) - n /\ DOMAIN <<>> = {}
      OBVIOUS
    <3>3. 1 .. Len(calls) - n = {}
      <4> HIDE DEF left
      <4> QED BY <3>1, <3>2
    <3>4. n \in Nat /\ n <= Len(calls) /\ Len(calls) \in Nat
      BY <2>3, <2>4
    <3> DEFINE size == Len(calls)
    <3>5. size \in Nat /\ n \in Nat /\ n <= size /\ 1 .. size - n = {}
      BY <3>3, <3>4
    <3>6. size = Len(calls)
      OBVIOUS
    <3> HIDE DEF size
    <3>7. size - n < 1
      <4>1. 1 \notin 1 .. size - n
        BY <3>5
      <4> QED BY <3>5, <4>1
    <3>8. n = size
      BY <3>5, <3>7
    <3> HIDE DEF calls, left
    <3> QED BY <3>6, <3>8
  <2>6. /\ Lists(s, calls)
        /\ \A i \in DOMAIN calls : s.calls[i].executed = row.calls[i].executed
                                   /\ s.calls[i].order = row.calls[i].order
        /\ s.number = row.number /\ s.exchange = row.exchange
        /\ s.status = "completed" /\ s.finished
    <3> HIDE DEF calls
    <3> QED BY <1>1, <2>2, SavedStays
  <2> HIDE DEF s
  <2>7. RanTo(s, work, Len(calls))
    <3>1. /\ work.left = [k \in 1 .. Len(calls) - n |-> BatchOrder(calls)[n + k]]
          /\ work.ran = {BatchOrder(calls)[k].index : k \in 1 .. n}
          /\ \A i \in DOMAIN calls : row.calls[i].executed = (i \in work.ran)
          /\ \A k \in 1 .. n : row.calls[BatchOrder(calls)[k].index].order = k
      BY <2>3 DEF RanTo
    <3>2. \A k \in 1 .. n : BatchOrder(calls)[k].index \in DOMAIN calls
      <4>1. Orders(BatchOrder(calls), calls)
        BY <2>4, BatchIsOrdered DEF IsBatch
      <4> HIDE DEF calls
      <4> QED BY <2>4, <2>5, <4>1 DEF Orders
    <3>3. \A i \in DOMAIN calls : s.calls[i].executed = (i \in work.ran)
      BY <2>6, <3>1
    <3>4. \A k \in 1 .. n : s.calls[BatchOrder(calls)[k].index].order = k
      <4> HIDE DEF calls
      <4> QED BY <2>6, <3>1, <3>2
    <3> DEFINE p == work.turn.pending
    <3>5. p = calls
      OBVIOUS
    <3> HIDE DEF calls, p
    <3>6. RanTo(s, work, n)
      BY <3>1, <3>3, <3>4, <3>5 DEF RanTo, p
    <3> QED BY <2>5, <3>6
  <2>8. Replay(Board(t), s) = IF calls[1].tool \in Reports THEN EmptyBoard ELSE work.board
    BY <2>2, <2>3, <2>5, <2>6, <2>7, BatchReplays
  <2>9. Board(u) = IF calls[1].tool \in Reports THEN EmptyBoard ELSE work.board
    BY <1>1, <2>2, <2>3, <2>5, CommitLeavesBoard
  <2>10. Board(u) = Replay(Board(turn), s)
    BY <2>2, <2>8, <2>9
  <2>11. RowOK(s)
    BY <2>2, <2>6 DEF RowOK
  <2> HIDE DEF u, t
  <2>12. node' \notin ToolNodes
    <3>1. pc' = "node"
      BY <1>1, <1>4, <1>6, ReturnPlaces
    <3> QED BY <1>1, <1>3, <3>1, ReturnLeads
  <2>13. s.status # "failed"
    BY <2>6
  <2> QED BY <1>1, <1>4, <1>6, <2>2, <2>6, <2>10, <2>11, <2>12, <2>13, RowReturn
<1> QED BY <1>5, <1>6

\* The turn ends.
LEMMA EndRow ==
    ASSUME Recording, RowTraced, HostOK, RecordOK, EndTurn
    PROVE  RowTraced'
<1> DEFINE r  == row
           t  == turn
           nd == node
           v  == work
<1>1. pc = "node" /\ node = "end" /\ node \notin ToolNodes /\ UNCHANGED <<harness, host>>
  BY DEF EndTurn, ToolNodes
<1>2. /\ RowOK(row)
      /\ Fail(row, FALSE) = row
      /\ Fail(row, FALSE).status = "failed" => Marked(Fail(row, FALSE))
  BY <1>1, BetweenPasses
<1>3. Notes(row, row)
  BY DEF RecordOK, Notes
<1>4. CASE Aborts("failed", row, FALSE)
  BY <1>1, <1>2, <1>3, <1>4, RowAbort
<1>5. CASE pc' = "done" /\ outcome' = "moved" /\ UNCHANGED <<node, turn, work, row, replayed>>
  <2>1. RowAt("done", nd, t, v, r, "moved")
    BY <1>2 DEF RowAt
  <2>2. replayed' = Board(t) /\ node' = nd /\ turn' = t /\ work' = v /\ row' = r
    BY <1>5 DEF RowTraced
  <2> HIDE DEF r, t, nd, v
  <2> QED BY <1>1, <1>5, <2>1, <2>2, RowNext
<1> QED BY <1>4, <1>5 DEF EndTurn

\* Steps that touch neither row nor board.
LEMMA StillRow ==
    ASSUME RowTraced, UNCHANGED <<harness, host, pc, node, turn, work, row, outcome, replayed>>
    PROVE  RowTraced'
<1>1. CASE ~Recording
  BY <1>1 DEF RowTraced, Recording
<1>2. CASE Recording
  <2> DEFINE p  == pc
             nd == node
             t  == turn
             v  == work
             r  == row
             o  == outcome
  <2>1. RowAt(p, nd, t, v, r, o) /\ replayed' = Board(t)
    BY <1>2 DEF RowTraced
  <2>2. pc' = p /\ node' = nd /\ turn' = t /\ work' = v /\ row' = r /\ outcome' = o
    OBVIOUS
  <2> HIDE DEF p, nd, t, v, r, o
  <2> QED BY <2>1, <2>2, RowNext
<1> QED BY <1>1, <1>2

\* The runner closes the row of an interrupted turn, whatever ran.
LEMMA InterruptRow ==
    ASSUME Recording, RowTraced, RecordOK, LoopOK, Interrupt
    PROVE  RowTraced'
<1> DEFINE p  == IF pc = "batch" THEN pc ELSE "done"
           nd == node
           t  == turn
           v  == work
           r  == Fail(row, FALSE)
<1>1. RowOK(row) /\ replayed = Board(turn) /\ IsRow(row)
  BY DEF RowTraced, RowAt, RecordOK
<1>2. RowOK(r) /\ r.status # "running" /\ (row.status = "running" => r.status # "completed")
  <2>1. RowOK(r) /\ (row.status = "running" => r.status # "completed")
    BY <1>1, FailedRow
  <2>2. r.status # "running"
    BY <1>1 DEF Fail, RowOK, IsRow
  <2> QED BY <2>1, <2>2
<1>3. /\ UNCHANGED <<harness, host>>
      /\ pc' = p /\ node' = nd /\ turn' = t /\ work' = v /\ outcome' = "interrupted" /\ Saves(r)
  BY DEF Interrupt, Recorded
<1>4. p \notin {"node", "waiting"}
  OBVIOUS
<1> HIDE DEF r
<1>5. row' = r /\ replayed' = Board(t)
  BY <1>1, <1>2, <1>3 DEF Saves
<1>6. RowAt(p, nd, t, v, r, "interrupted")
  BY <1>2, <1>4 DEF RowAt
<1> HIDE DEF p, nd, t, v
<1> QED BY <1>3, <1>5, <1>6, RowNext

\* Every step.
LEMMA RowKept ==
    ASSUME RowTraced, HostOK, TurnOK, [Next]_vars
    PROVE  RowTraced'
<1> USE DEF TurnOK
<1>1. CASE UNCHANGED vars \/ Cancel
  <2>1. UNCHANGED <<harness, host, pc, node, turn, work, row, outcome, replayed>>
    BY <1>1 DEF vars, Cancel
  <2> QED BY <2>1, StillRow
<1>2. CASE ~Recording
  <2>1. UNCHANGED host
    BY DEF Next, vars, RequestPass, ReceiveAnswer, RunTools, CallTool, FinishBatch, EndTurn, Cancel, Interrupt
  <2> QED BY <1>2, <2>1 DEF RowTraced, Recording
<1>3. CASE Recording /\ RequestPass
  BY <1>3, RequestRow
<1>4. CASE Recording /\ \E answer \in Answers : ReceiveAnswer(answer)
  BY <1>4, ReceiveRow
<1>5. CASE Recording /\ RunTools
  BY <1>5, RunRow
<1>6. CASE Recording /\ CallTool
  BY <1>6, CallRow, LateCallRow
<1>7. CASE Recording /\ FinishBatch
  BY <1>7, FinishRow
<1>8. CASE Recording /\ EndTurn
  BY <1>8, EndRow
<1>9. CASE Recording /\ Interrupt
  BY <1>9, InterruptRow
<1> QED BY <1>1, <1>2, <1>3, <1>4, <1>5, <1>6, <1>7, <1>8, <1>9 DEF Next

\* Only a turn that goes on is at a node, and only a host with a flag cancels.
LEMMA HostKept ==
    ASSUME HostOK, TurnOK, [Next]_vars
    PROVE  HostOK'
<1>1. TurnOK'
  BY StepKeeps, DecisionKept, PlaysKept, RestKept DEF TurnOK, Kept
<1>2. outcome' # "broken" /\ pc \in {"node", "waiting", "batch", "done"}
  BY <1>1 DEF TurnOK, PlaysOK, LoopOK
<1>3. UNCHANGED <<harness, host>>
  BY DEF Next, vars, RequestPass, ReceiveAnswer, RunTools, CallTool, FinishBatch, EndTurn, Cancel, Interrupt
<1>4. cancelled' # cancelled => Cancellable
  BY DEF Next, vars, RequestPass, ReceiveAnswer, RunTools, CallTool, FinishBatch, EndTurn, Cancel, Interrupt
<1>5. host = "position" => cancelled' = FALSE
  BY <1>4 DEF HostOK, Cancellable
<1> DEFINE Ends == pc' = "done"
           Proceeds == outcome' = outcome /\ pc' \in {"node", "waiting"}
                   /\ (pc = "batch" => outcome # "interrupted")
           Runs == outcome' \in {outcome, "interrupted"} /\ pc' = "batch" /\ pc # "done"
           Rests == UNCHANGED <<pc, outcome>>
<1>6. pc # "done" /\ (\E reason, after, rollback : Aborts(reason, after, rollback)) => Ends
  BY DEF Aborts
<1>7. pc # "done" /\ (\E after : Returns(node, after)) => Ends \/ Proceeds
  BY <1>2 DEF Returns
<1>8. Ends \/ (Proceeds /\ pc # "done") \/ Runs \/ Rests
  <2>1. CASE RequestPass
    BY <1>6, <2>1 DEF RequestPass
  <2>2. ASSUME NEW answer \in Answers, ReceiveAnswer(answer)
        PROVE  Ends \/ (Proceeds /\ pc # "done") \/ Runs
    <3>1. pc = "waiting"
      BY <2>2 DEF ReceiveAnswer
    <3>2. \/ \E reason, after, rollback : Aborts(reason, after, rollback)
          \/ \E after : Returns(node, after)
          \/ pc' = "batch" /\ UNCHANGED outcome
          \/ ModelPass(answer).tag \notin {"raised", "goes", "submits"}
      BY <2>2 DEF ReceiveAnswer
    <3>3. ModelPass(answer).tag \in {"raised", "goes", "submits"}
      BY <3>1, PassCounts DEF TurnOK, LoopOK, Counts
    <3> HIDE DEF Ends, Proceeds
    <3> QED BY <1>6, <1>7, <3>1, <3>2, <3>3
  <2>3. CASE RunTools
    BY <1>6, <2>3 DEF RunTools
  <2>4. CASE CallTool
    <3>1. pc = "batch"
      BY <2>4 DEF CallTool
    <3>2. \/ \E reason, after, rollback : Aborts(reason, after, rollback)
          \/ \E after : Returns(node, after)
          \/ UNCHANGED <<pc, outcome>>
      BY <2>4 DEF CallTool
    <3> HIDE DEF Ends, Proceeds
    <3> QED BY <1>6, <1>7, <3>1, <3>2
  <2>5. CASE FinishBatch
    <3>1. pc = "batch" /\ \E after : Returns(node, after)
      BY <2>5 DEF FinishBatch
    <3> HIDE DEF Ends, Proceeds
    <3> QED BY <1>7, <3>1
  <2>6. CASE EndTurn
    BY <1>6, <2>6 DEF EndTurn
  <2>7. CASE Cancel \/ UNCHANGED vars
    BY <2>7 DEF Cancel, vars
  <2>8. CASE Interrupt
    BY <2>8 DEF Interrupt
  <2> HIDE DEF Ends, Proceeds, Runs, Rests
  <2> QED BY <2>1, <2>2, <2>3, <2>4, <2>5, <2>6, <2>7, <2>8 DEF Next
<1>9. /\ pc' \in {"node", "waiting"} => outcome' = "running"
      /\ pc' = "batch" => outcome' \in {"running", "interrupted"}
  BY <1>2, <1>8 DEF HostOK
<1> QED BY <1>3, <1>5, <1>9 DEF HostOK

\* A turn begins with no row.
LEMMA TracesBegin ==
    ASSUME Init
    PROVE  HostOK /\ RowTraced
<1>1. HostOK
  BY DEF Init, HostOK
<1>2. /\ row.number = 0 /\ row.status = "none" /\ row.finished = FALSE /\ pc = "node"
      /\ node \notin ToolNodes
  BY DEF Init, NoRow, InitialTurn, ToolNodes, Three!InitialTurn, Two!InitialTurn, One!InitialTurn,
         Base!InitialTurn, Three!PhaseState, Two!PhaseState, One!PhaseState, Base!PhaseState
<1>3. replayed = Board(turn)
  <2>1. turn.nodes = {} /\ turn.active = Root /\ turn.scratch = <<>> /\ replayed = EmptyBoard
    BY DEF Init, InitialTurn, Root, Three!InitialTurn, Two!InitialTurn, One!InitialTurn, Base!InitialTurn,
           Three!PhaseState, Two!PhaseState, One!PhaseState, Base!PhaseState,
           Three!Root, Two!Root, One!Root, Base!Root
  <2> QED BY <2>1 DEF Board, EmptyBoard
<1>4. RowAt(pc, node, turn, work, row, outcome)
  BY <1>2 DEF RowAt, RowOK
<1> QED BY <1>1, <1>3, <1>4 DEF RowTraced

\* The rows of a turn can be replayed, call by call and pass by pass, to the
\* board the player has; in a row that failed everything that ran is marked,
\* unless the turn was interrupted; and a completed row has its whole exchange.
THEOREM TracesReplay == Spec => []TraceReplays
<1> DEFINE Inv == TurnOK /\ HostOK /\ RowTraced
<1>1. Init => Inv
  BY InitKeeps, DecisionBegins, PlaysBegin, RestBegins, TracesBegin DEF TurnOK
<1>2. Inv /\ [Next]_vars => Inv'
  <2>1. TurnOK /\ [Next]_vars => TurnOK'
    BY StepKeeps, DecisionKept, PlaysKept, RestKept DEF TurnOK, Kept
  <2> QED BY <2>1, RowKept, HostKept
<1>3. Inv => TraceReplays
  <2> SUFFICES ASSUME RowTraced, Recording PROVE TraceReplays
    BY DEF TraceReplays
  <2> QED BY DEF TraceReplays, RowTraced, RowAt, RowOK, Marked
<1> QED BY <1>1, <1>2, <1>3, PTL DEF Spec
=============================================================================
