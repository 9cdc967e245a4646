-------------------------- MODULE ChessToolsProofs --------------------------
(***************************************************************************)
(* Proofs about the tree of tested lines and the tools that grow it, for   *)
(* every game, every limit and trees of any size.                          *)
(*                                                                         *)
(* The library's induction theorems take a predicate as a parameter, which *)
(* the provers cannot instantiate; SetInduction takes a set instead.       *)
(***************************************************************************)
EXTENDS ChessTools, FiniteSetTheorems, SequenceTheorems, TLAPS

----------------------------------------------------------------------------
(* Induction, and what it gives.                                           *)

LEMMA SetInduction ==
    ASSUME NEW S, 0 \in S, \A n \in Nat : n \in S => n + 1 \in S
    PROVE  \A n \in Nat : n \in S
<1> DEFINE Less == OpToRel(<, Nat)
           T == Nat \ S
<1>1. SUFFICES ASSUME T # {} PROVE FALSE
  OBVIOUS
<1>2. IsWellFoundedOn(Less, Nat)
  BY NatLessThanWellFounded
<1>3. \A m, n \in Nat : m < n => <<m, n>> \in Less
  BY DEF OpToRel
<1>4. PICK n \in T : \A m \in T : <<m, n>> \notin Less
  <2> HIDE DEF Less
  <2> QED BY <1>1, <1>2, WFMin
<1> HIDE DEF Less
<1>5. n \in Nat /\ n # 0 /\ n - 1 \in Nat /\ n - 1 < n /\ (n - 1) + 1 = n
  OBVIOUS
<1>6. n - 1 \notin T
  BY <1>3, <1>4, <1>5
<1> QED BY <1>5, <1>6

\* A bounded set of naturals has a largest member.
LEMMA LargestMember ==
    ASSUME NEW S, S \subseteq Nat, S # {}, NEW bound \in Nat, \A i \in S : i <= bound
    PROVE  \E i \in S : \A j \in S : j <= i
<1> DEFINE T == {b \in Nat : (\A i \in S : i <= b) => \E i \in S : \A j \in S : j <= i}
<1>1. 0 \in T
  <2>1. PICK i \in S : TRUE
    OBVIOUS
  <2>2. (\A j \in S : j <= 0) => \A j \in S : j <= i
    OBVIOUS
  <2> QED BY <2>2
<1>2. ASSUME NEW n \in Nat, n \in T
      PROVE  n + 1 \in T
  <2>1. CASE \A i \in S : i <= n
    BY <1>2, <2>1
  <2>2. CASE n + 1 \in S
    BY <2>2
  <2>3. CASE n + 1 \notin S /\ \E i \in S : ~(i <= n)
    BY <2>3
  <2> QED BY <2>1, <2>2, <2>3
<1>3. \A n \in Nat : n \in T
  <2> HIDE DEF T
  <2> QED BY <1>1, <1>2, SetInduction
<1> QED BY <1>3

----------------------------------------------------------------------------
(* Sound trees.                                                            *)

Moves == {Spelling[text] : text \in Texts}

Branches ==
    [id : Seq(Nat \ {0}), parent : Seq(Nat \ {0}), ply : Nat, move : Moves,
     fen : Seq(Moves), terminal : BOOLEAN, note : BOOLEAN]

\* A branch is numbered among its siblings and adds a move to the line of its
\* parent, which has not ended the game.
Attached(n, nodes) ==
    /\ \E k \in Nat \ {0} : n.id = Append(n.parent, k) /\ k <= Cardinality(ChildNodes(nodes, n.parent))
    /\ n.ply = Len(n.id) /\ n.ply = Len(n.fen) /\ n.ply <= MaxScratch
    /\ n.fen \in Plays
    /\ IF n.parent = Root
       THEN n.fen = Append(<<>>, n.move)
       ELSE \E p \in nodes : p.id = n.parent /\ ~p.terminal /\ n.fen = Append(p.fen, n.move)

SoundTree(nodes) ==
    /\ IsFiniteSet(nodes)
    /\ nodes \subseteq Branches
    /\ \A n \in nodes : Attached(n, nodes)
    /\ \A m, n \in nodes : m.id = n.id \/ (m.parent = n.parent /\ m.move = n.move) => m = n

LEMMA Identifiers ==
    ASSUME NEW nodes, SoundTree(nodes), NEW n \in nodes
    PROVE  /\ n.id # Root /\ FindNode(nodes, Root) = {}
           /\ FindNode(nodes, n.id) = {n} /\ The(FindNode(nodes, n.id)) = n
<1>1. \A m \in nodes : m.id # Root
  <2> SUFFICES ASSUME NEW m \in nodes PROVE m.id # Root
    OBVIOUS
  <2>1. PICK k \in Nat \ {0} : m.id = Append(m.parent, k)
    BY DEF SoundTree, Attached
  <2>2. m.parent \in Seq(Nat \ {0})
    BY DEF SoundTree, Branches
  <2> QED BY <2>1, <2>2, AppendProperties DEF Root
<1>2. FindNode(nodes, n.id) = {n}
  BY DEF FindNode, SoundTree
<1> QED BY <1>1, <1>2 DEF FindNode, The

\* The way from a base branch down to n.
IsPath(q, n, nodes) ==
    /\ q \in Seq(nodes) /\ q # <<>>
    /\ q[Len(q)] = n
    /\ q[1].parent = Root
    /\ \A i \in 1 .. Len(q) - 1 : q[i + 1].parent = q[i].id
    /\ Len(q) = n.ply
    /\ \A i \in 1 .. Len(q) : q[i].ply = i /\ q[i].move = n.fen[i]

LEMMA PathExists ==
    ASSUME NEW nodes, SoundTree(nodes), NEW n \in nodes
    PROVE  \E q : IsPath(q, n, nodes)
<1> DEFINE S == {d \in Nat : \A m \in nodes : m.ply = d => \E q : IsPath(q, m, nodes)}
<1>1. 0 \in S
  <2> SUFFICES ASSUME NEW m \in nodes PROVE m.ply # 0
    OBVIOUS
  <2>1. m.ply = Len(m.id) /\ m.id # <<>> /\ m.id \in Seq(Nat \ {0})
    BY Identifiers DEF SoundTree, Attached, Branches, Root
  <2> QED BY <2>1, EmptySeq
<1>2. ASSUME NEW d \in Nat, d \in S
      PROVE  d + 1 \in S
  <2> SUFFICES ASSUME NEW m \in nodes, m.ply = d + 1
               PROVE  \E q : IsPath(q, m, nodes)
    OBVIOUS
  <2>1. /\ m \in Branches /\ Attached(m, nodes)
        /\ m.fen \in Seq(Moves) /\ m.move \in Moves /\ Len(m.fen) = d + 1
    BY DEF SoundTree, Branches, Attached
  <2>2. CASE m.parent = Root
    <3> DEFINE q == <<m>>
    <3>1. q \in Seq(nodes) /\ q # <<>> /\ Len(q) = 1 /\ q[1] = m
      OBVIOUS
    <3>2. m.fen = Append(<<>>, m.move)
      BY <2>1, <2>2 DEF Attached
    <3>3. Len(m.fen) = 1 /\ m.fen[1] = m.move
      BY <3>2
    <3>4. m.ply = 1
      BY <2>1, <3>3
    <3>5. IsPath(q, m, nodes)
      <4> HIDE DEF q
      <4> QED BY <2>2, <3>1, <3>3, <3>4 DEF IsPath
    <3> HIDE DEF q
    <3> QED BY <3>5
  <2>3. CASE m.parent # Root
    <3>1. PICK p \in nodes : p.id = m.parent /\ m.fen = Append(p.fen, m.move)
      BY <2>1, <2>3 DEF Attached
    <3>2. p.fen \in Seq(Moves) /\ p.ply = Len(p.fen) /\ p.ply \in Nat
      BY DEF SoundTree, Branches, Attached
    <3>3. /\ Len(m.fen) = Len(p.fen) + 1 /\ m.fen[Len(p.fen) + 1] = m.move
          /\ \A i \in 1 .. Len(p.fen) : m.fen[i] = p.fen[i]
      BY <2>1, <3>1, <3>2, AppendProperties
    <3>4. p.ply = d
      BY <2>1, <3>2, <3>3
    <3>5. PICK q : IsPath(q, p, nodes)
      BY <1>2, <3>4
    <3> DEFINE r == Append(q, m)
    <3>6. /\ q \in Seq(nodes) /\ q # <<>> /\ Len(q) = d /\ Len(q) \in Nat \ {0}
          /\ q[Len(q)] = p /\ q[1].parent = Root
          /\ \A i \in 1 .. Len(q) - 1 : q[i + 1].parent = q[i].id
          /\ \A i \in 1 .. Len(q) : q[i].ply = i /\ q[i].move = p.fen[i]
      BY <3>4, <3>5, EmptySeq DEF IsPath
    <3>7. /\ r \in Seq(nodes) /\ r # <<>> /\ Len(r) = d + 1 /\ r[d + 1] = m
          /\ \A i \in 1 .. d : r[i] = q[i]
      BY <3>6, AppendProperties
    <3> HIDE DEF r
    <3>8. r[Len(r)] = m /\ r[1].parent = Root /\ Len(r) = m.ply
      BY <3>6, <3>7
    <3>9. \A i \in 1 .. Len(r) - 1 : r[i + 1].parent = r[i].id
      <4> SUFFICES ASSUME NEW i \in 1 .. d PROVE r[i + 1].parent = r[i].id
        BY <3>7
      <4>1. CASE i = d
        BY <3>1, <3>6, <3>7, <4>1
      <4>2. CASE i # d
        <5>1. i \in 1 .. Len(q) - 1 /\ i + 1 \in 1 .. d
          BY <3>6, <4>2
        <5> QED BY <3>6, <3>7, <5>1
      <4> QED BY <4>1, <4>2
    <3>10. \A i \in 1 .. Len(r) : r[i].ply = i /\ r[i].move = m.fen[i]
      <4> SUFFICES ASSUME NEW i \in 1 .. d + 1 PROVE r[i].ply = i /\ r[i].move = m.fen[i]
        BY <3>7
      <4>1. CASE i = d + 1
        BY <3>2, <3>3, <3>4, <3>7, <4>1
      <4>2. CASE i \in 1 .. d
        BY <3>2, <3>3, <3>4, <3>6, <3>7, <4>2
      <4> QED BY <4>1, <4>2
    <3> QED BY <3>7, <3>8, <3>9, <3>10 DEF IsPath
  <2> QED BY <2>2, <2>3
<1>3. \A d \in Nat : d \in S
  <2> HIDE DEF S
  <2> QED BY <1>1, <1>2, SetInduction
<1>4. n.ply \in Nat
  BY DEF SoundTree, Branches
<1> QED BY <1>3, <1>4

LEMMA PathFits ==
    ASSUME NEW nodes, SoundTree(nodes), NEW n \in nodes, NEW q, IsPath(q, n, nodes)
    PROVE  Len(q) \in Nat \ {0} /\ Len(q) <= Cardinality(nodes) /\ Cardinality(nodes) \in Nat
<1>1. q \in Seq(nodes) /\ Len(q) \in Nat \ {0} /\ q \in [1 .. Len(q) -> nodes]
  BY LenProperties, EmptySeq DEF IsPath
<1>2. \A i, j \in 1 .. Len(q) : q[i] = q[j] => i = j
  BY DEF IsPath
<1>4. q \in Injection(1 .. Len(q), nodes)
  BY <1>1, <1>2 DEF Injection, IsInjective
<1>3. Cardinality(1 .. Len(q)) = Len(q)
  BY <1>1, FS_Interval
<1> QED BY <1>1, <1>3, <1>4, FS_Injection, FS_CardinalityType DEF SoundTree

\* In a sound tree of any size, tree_lineage returns the way from the base
\* branch down to the one it is asked for: the climb follows the parent fields
\* to the base branch and stays there.
THEOREM LineageIsPath ==
    ASSUME NEW nodes, SoundTree(nodes), NEW n \in nodes, NEW q, IsPath(q, n, nodes)
    PROVE  Lineage(nodes, n.id) = q
<1> DEFINE L          == Len(q)
           N          == Cardinality(nodes)
           next(s)    == IF s = <<>> THEN n.id ELSE Head(s).parent
           step(s)    == IF FindNode(nodes, next(s)) = {} THEN s
                         ELSE <<The(FindNode(nodes, next(s)))>> \o s
           last(j)    == [i \in 1 .. j |-> q[L - j + i]]
           Climbs(f)  == f = [k \in 0 .. N |-> IF k = 0 THEN <<>> ELSE step(f[k - 1])]
           w          == [k \in 0 .. N |-> last(IF k <= L THEN k ELSE L)]
<1>1. L \in Nat \ {0} /\ L <= N /\ N \in Nat /\ q \in [1 .. L -> nodes]
  BY PathFits, LenProperties DEF IsPath
<1>2. last(0) = <<>>
  OBVIOUS
<1>3. ASSUME NEW j \in 1 .. L
      PROVE  /\ last(j) \in Seq(nodes) /\ last(j) # <<>> /\ Len(last(j)) = j
             /\ Head(last(j)) = q[L - j + 1]
  <2>1. \A i \in 1 .. j : q[L - j + i] \in nodes
    BY <1>1
  <2>2. last(j) \in [1 .. j -> nodes]
    BY <2>1
  <2>3. last(j) \in Seq(nodes) /\ Len(last(j)) = j /\ last(j)[1] = q[L - j + 1]
    <3>1. last(j) \in Seq(nodes)
      <4>1. j \in Nat
        BY <1>1
      <4> HIDE DEF last
      <4> QED BY <2>2, <4>1, SeqDef
    <3>2. Len(last(j)) = j
      BY <1>1
    <3>3. last(j)[1] = q[L - j + 1]
      OBVIOUS
    <3> QED BY <3>1, <3>2, <3>3
  <2> HIDE DEF last
  <2>4. last(j) # <<>> /\ Head(last(j)) = last(j)[1]
    BY <2>3, EmptySeq
  <2> QED BY <2>3, <2>4
<1>4. ASSUME NEW j \in 0 .. L - 1
      PROVE  step(last(j)) = last(j + 1)
  <2>1. next(last(j)) = q[L - j].id
    <3>1. CASE j = 0
      BY <1>1, <1>2, <3>1 DEF IsPath
    <3>2. CASE j # 0
      <4>1. Head(last(j)) = q[(L - j) + 1] /\ last(j) # <<>>
        <5> HIDE DEF last
        <5> QED BY <1>1, <1>3, <3>2
      <4>2. L - j \in 1 .. L - 1
        BY <1>1, <3>2
      <4>3. q[(L - j) + 1].parent = q[L - j].id
        BY <4>2 DEF IsPath
      <4> HIDE DEF last
      <4> QED BY <4>1, <4>3
    <3> QED BY <3>1, <3>2
  <2>2. q[L - j] \in nodes
    BY <1>1
  <2>3. FindNode(nodes, q[L - j].id) # {} /\ The(FindNode(nodes, q[L - j].id)) = q[L - j]
    BY <2>2, Identifiers
  <2>4. step(last(j)) = <<q[L - j]>> \o last(j)
    <3> HIDE DEF last
    <3> QED BY <2>1, <2>3
  <2>5. last(j) \in Seq(nodes) /\ Len(last(j)) = j
    <3>1. <<>> \in Seq(nodes) /\ Len(<<>>) = 0
      OBVIOUS
    <3>2. CASE j = 0
      <4> HIDE DEF last
      <4> QED BY <1>2, <3>1, <3>2
    <3>3. CASE j # 0
      <4>1. j \in 1 .. L
        BY <1>1, <3>3
      <4> HIDE DEF last
      <4> QED BY <1>3, <4>1
    <3> QED BY <3>2, <3>3
  <2>6. <<q[L - j]>> \in Seq(nodes) /\ Len(<<q[L - j]>>) = 1
    BY <2>2
  <2>7. j + 1 \in 1 .. L
    BY <1>1
  <2>8. last(j + 1) \in Seq(nodes) /\ Len(last(j + 1)) = j + 1
    BY <1>3, <2>7
  <2>9. \A i \in 1 .. j + 1 : (<<q[L - j]>> \o last(j))[i] = last(j + 1)[i]
    <3> SUFFICES ASSUME NEW i \in 1 .. j + 1
                 PROVE  (<<q[L - j]>> \o last(j))[i] = last(j + 1)[i]
      OBVIOUS
    <3>1. last(j + 1)[i] = q[L - (j + 1) + i]
      OBVIOUS
    <3>2. CASE i = 1
      <4>1. (<<q[L - j]>> \o last(j))[1] = <<q[L - j]>>[1]
        <5> HIDE DEF last
        <5> QED BY <2>5, <2>6, ConcatProperties
      <4> QED BY <1>1, <3>1, <3>2, <4>1
    <3>3. CASE i # 1
      <4>1. (<<q[L - j]>> \o last(j))[i] = last(j)[i - 1]
        <5> HIDE DEF last
        <5> QED BY <2>5, <2>6, <3>3, ConcatProperties
      <4>2. i - 1 \in 1 .. j
        BY <3>3
      <4>3. last(j)[i - 1] = q[L - j + (i - 1)]
        BY <4>2
      <4>4. L - j + (i - 1) = L - (j + 1) + i
        BY <1>1
      <4> QED BY <3>1, <4>1, <4>3, <4>4
    <3> QED BY <3>2, <3>3
  <2>10. Len(<<q[L - j]>> \o last(j)) = j + 1 /\ <<q[L - j]>> \o last(j) \in Seq(nodes)
    <3> HIDE DEF last
    <3> QED BY <2>5, <2>6, ConcatProperties
  <2>11. <<q[L - j]>> \o last(j) = last(j + 1)
    <3> HIDE DEF last
    <3> QED BY <2>8, <2>9, <2>10, SeqEqual
  <2> QED BY <2>4, <2>11
<1>5. step(last(L)) = last(L)
  <2>1. Head(last(L)) = q[1] /\ last(L) # <<>>
    BY <1>1, <1>3
  <2>2. FindNode(nodes, Root) = {} /\ q[1].parent = Root
    BY Identifiers DEF IsPath
  <2> HIDE DEF last
  <2> QED BY <2>1, <2>2
<1>6. last(L) = q
  <2>1. last(L) \in Seq(nodes) /\ Len(last(L)) = L /\ q \in Seq(nodes)
    BY <1>1, <1>3 DEF IsPath
  <2>2. \A i \in 1 .. L : last(L)[i] = q[i]
    BY <1>1
  <2> HIDE DEF last
  <2> QED BY <2>1, <2>2, SeqEqual
<1>7. Climbs(w)
  <2> SUFFICES ASSUME NEW k \in 0 .. N
               PROVE  w[k] = IF k = 0 THEN <<>> ELSE step(w[k - 1])
    OBVIOUS
  <2> HIDE DEF step
  <2>1. CASE k = 0
    BY <1>1, <1>2, <2>1
  <2>2. CASE k \in 1 .. L
    <3>1. w[k] = last(k) /\ w[k - 1] = last(k - 1) /\ k - 1 \in 0 .. L - 1
      <4> HIDE DEF last
      <4> QED BY <1>1, <2>2
    <3>2. step(last(k - 1)) = last((k - 1) + 1)
      BY <1>4, <3>1
    <3>3. (k - 1) + 1 = k
      OBVIOUS
    <3> HIDE DEF w, last
    <3> QED BY <2>2, <3>1, <3>2, <3>3
  <2>3. CASE k > L
    <3>1. w[k] = last(L) /\ w[k - 1] = last(L)
      <4> HIDE DEF last
      <4> QED BY <1>1, <2>3
    <3> HIDE DEF w, last
    <3> QED BY <1>1, <1>5, <2>3, <3>1
  <2> QED BY <1>1, <2>1, <2>2, <2>3
<1>8. \A f : Climbs(f) => f = w
  <2> SUFFICES ASSUME NEW f, Climbs(f)
               PROVE  f = w
    OBVIOUS
  <2> HIDE DEF step
  <2> DEFINE S == {k \in Nat : k <= N => f[k] = w[k]}
  <2>1. \A k \in 0 .. N : /\ f[k] = IF k = 0 THEN <<>> ELSE step(f[k - 1])
                          /\ w[k] = IF k = 0 THEN <<>> ELSE step(w[k - 1])
    <3> HIDE DEF w
    <3> QED BY <1>7
  <2> HIDE DEF w
  <2>2. 0 \in S
    BY <1>1, <2>1
  <2>3. ASSUME NEW k \in Nat, k \in S
        PROVE  k + 1 \in S
    <3>1. SUFFICES ASSUME k + 1 <= N
                   PROVE  f[k + 1] = w[k + 1]
      OBVIOUS
    <3>2. f[k] = w[k]
      BY <1>1, <2>3, <3>1
    <3>3. k + 1 \in 0 .. N /\ (k + 1) - 1 = k /\ k + 1 # 0
      BY <1>1, <3>1
    <3> HIDE DEF S
    <3> QED BY <2>1, <3>2, <3>3
  <2>4. \A k \in Nat : k \in S
    <3> HIDE DEF S
    <3> QED BY <2>2, <2>3, SetInduction
  <2>5. \A k \in 0 .. N : f[k] = w[k]
    <3> SUFFICES ASSUME NEW k \in 0 .. N PROVE f[k] = w[k]
      OBVIOUS
    <3>1. k \in Nat /\ k <= N
      BY <1>1
    <3>2. k \in S
      <4> HIDE DEF S
      <4> QED BY <2>4, <3>1
    <3> QED BY <3>1, <3>2
  <2>6. f = [k \in 0 .. N |-> f[k]] /\ w = [k \in 0 .. N |-> w[k]]
    BY DEF w
  <2> QED BY <2>5, <2>6
<1>9. (CHOOSE f : Climbs(f)) = w
  <2> HIDE DEF w, Climbs
  <2> QED BY <1>7, <1>8
<1>10. Lineage(nodes, n.id) = (CHOOSE f : Climbs(f))[N]
  BY DEF Lineage
<1>11. w[N] = last(L)
  <2> HIDE DEF last
  <2> QED BY <1>1
<1> HIDE DEF w, last, Climbs
<1> QED BY <1>6, <1>9, <1>10, <1>11

\* Nothing leads down to the canonical position.
LEMMA RootHasNoLineage ==
    ASSUME NEW nodes, SoundTree(nodes)
    PROVE  Lineage(nodes, Root) = <<>>
<1> DEFINE N         == Cardinality(nodes)
           next(s)   == IF s = <<>> THEN Root ELSE Head(s).parent
           step(s)   == IF FindNode(nodes, next(s)) = {} THEN s
                        ELSE <<The(FindNode(nodes, next(s)))>> \o s
           Climbs(f) == f = [k \in 0 .. N |-> IF k = 0 THEN <<>> ELSE step(f[k - 1])]
           w         == [k \in 0 .. N |-> <<>>]
<1>1. N \in Nat
  BY FS_CardinalityType DEF SoundTree
<1>2. FindNode(nodes, Root) = {}
  BY Identifiers DEF FindNode
<1>3. step(<<>>) = <<>>
  BY <1>2
<1>4. Climbs(w)
  <2> HIDE DEF step
  <2> QED BY <1>1, <1>3
<1>5. \A f : Climbs(f) => f = w
  <2> SUFFICES ASSUME NEW f, Climbs(f)
               PROVE  f = w
    OBVIOUS
  <2> HIDE DEF step
  <2> DEFINE S == {k \in Nat : k <= N => f[k] = <<>>}
  <2>1. \A k \in 0 .. N : f[k] = IF k = 0 THEN <<>> ELSE step(f[k - 1])
    OBVIOUS
  <2>2. 0 \in S
    BY <1>1, <2>1
  <2>3. ASSUME NEW k \in Nat, k \in S
        PROVE  k + 1 \in S
    <3>1. SUFFICES ASSUME k + 1 <= N
                   PROVE  f[k + 1] = <<>>
      OBVIOUS
    <3>2. f[k] = <<>>
      BY <1>1, <2>3, <3>1
    <3>3. k + 1 \in 0 .. N /\ (k + 1) - 1 = k /\ k + 1 # 0
      BY <1>1, <3>1
    <3> HIDE DEF S
    <3> QED BY <1>3, <2>1, <3>2, <3>3
  <2>4. \A k \in Nat : k \in S
    <3> HIDE DEF S
    <3> QED BY <2>2, <2>3, SetInduction
  <2> QED BY <1>1, <2>4
<1>6. (CHOOSE f : Climbs(f)) = w
  <2> HIDE DEF w, Climbs
  <2> QED BY <1>4, <1>5
<1>7. Lineage(nodes, Root) = (CHOOSE f : Climbs(f))[N]
  BY DEF Lineage
<1> HIDE DEF Climbs
<1> QED BY <1>1, <1>6, <1>7

\* What the code asks of the tree: no walk up it raises, and it gives the line
\* that the branch stands for.
LEMMA SoundLines ==
    ASSUME NEW nodes, SoundTree(nodes)
    PROVE  /\ MovesToBranch(nodes, Root) = <<>> /\ ~LineageRaises(nodes, Root)
           /\ \A n \in nodes : /\ MovesToBranch(nodes, n.id) = n.fen
                               /\ ~LineageRaises(nodes, n.id)
           /\ ~PreorderRaises(nodes)
<1>1. MovesToBranch(nodes, Root) = <<>>
  <2>1. Lineage(nodes, Root) = <<>>
    BY RootHasNoLineage
  <2>2. MovesToBranch(nodes, Root) = [i \in DOMAIN <<>> |-> <<>>[i].move]
    BY <2>1 DEF MovesToBranch
  <2>3. DOMAIN <<>> = 1 .. 0
    BY EmptySeq
  <2> QED BY <2>2, <2>3
<1>2. ASSUME NEW n \in nodes
      PROVE  /\ MovesToBranch(nodes, n.id) = n.fen
             /\ ~LineageRaises(nodes, n.id)
             /\ Lineage(nodes, n.id) # <<>> /\ Head(Lineage(nodes, n.id)).parent = Root
  <2>1. PICK q : IsPath(q, n, nodes)
    BY PathExists
  <2>2. Lineage(nodes, n.id) = q
    BY <2>1, LineageIsPath
  <2>3. q \in Seq(nodes) /\ q # <<>> /\ DOMAIN q = 1 .. Len(q) /\ Len(q) \in Nat \ {0}
    BY <2>1, PathFits, LenProperties DEF IsPath
  <2>4. n.fen \in Seq(Moves) /\ Len(n.fen) = Len(q) /\ DOMAIN n.fen = 1 .. Len(q)
    BY <2>1, LenProperties DEF IsPath, SoundTree, Branches, Attached
  <2>5. n.fen = [i \in 1 .. Len(q) |-> n.fen[i]]
    BY <2>4
  <2>6. [i \in DOMAIN q |-> q[i].move] = n.fen
    BY <2>1, <2>3, <2>5 DEF IsPath
  <2>7. Head(q) = q[1]
    BY <2>3
  <2>8. \A i \in DOMAIN q : q[i].ply = i
    BY <2>1, <2>3 DEF IsPath
  <2>9. n.id # Root /\ q[1].parent = Root
    BY <2>1, Identifiers DEF IsPath
  <2> QED BY <2>2, <2>3, <2>6, <2>7, <2>8, <2>9 DEF MovesToBranch, LineageRaises
<1>3. ~LineageRaises(nodes, Root)
  BY DEF LineageRaises
<1> QED BY <1>1, <1>2, <1>3 DEF PreorderRaises

----------------------------------------------------------------------------
(* The tools.                                                              *)

\* The active branch is in the tree, and the scratch board shows its line.
SoundBoard(b) ==
    /\ DOMAIN b = {"nodes", "active", "scratch"}
    /\ SoundTree(b.nodes)
    /\ \/ b.active = Root /\ b.scratch = <<>>
       \/ \E n \in b.nodes : b.active = n.id /\ b.scratch = n.fen

LEMMA ScratchIsLine ==
    ASSUME NEW b, SoundBoard(b), <<>> \in Plays
    PROVE  /\ ~LineageRaises(b.nodes, b.active)
           /\ MovesToBranch(b.nodes, b.active) = b.scratch
           /\ b.scratch \in Plays /\ b.scratch \in Seq(Moves)
           /\ b.active \in Seq(Nat \ {0})
<1>1. CASE b.active = Root /\ b.scratch = <<>>
  <2>1. MovesToBranch(b.nodes, Root) = <<>> /\ ~LineageRaises(b.nodes, Root)
    BY SoundLines DEF SoundBoard
  <2> QED BY <1>1, <2>1 DEF Root
<1>2. CASE \E n \in b.nodes : b.active = n.id /\ b.scratch = n.fen
  <2>1. PICK n \in b.nodes : b.active = n.id /\ b.scratch = n.fen
    BY <1>2
  <2>2. SoundTree(b.nodes)
    BY DEF SoundBoard
  <2>3. MovesToBranch(b.nodes, n.id) = n.fen /\ ~LineageRaises(b.nodes, n.id)
    BY <2>2, SoundLines
  <2>4. n.fen \in Plays /\ n.fen \in Seq(Moves) /\ n.id \in Seq(Nat \ {0})
    BY <2>2 DEF SoundTree, Attached, Branches
  <2> QED BY <2>1, <2>3, <2>4
<1> QED BY <1>1, <1>2 DEF SoundBoard

\* next_branch_id gives a new branch a number that no branch of the tree has:
\* one more than the largest of its siblings', and at most their number.
THEOREM NextIsFresh ==
    ASSUME NEW nodes, SoundTree(nodes), NEW parent \in Seq(Nat \ {0})
    PROVE  \E k \in Nat \ {0} :
              /\ NextBranchId(nodes, parent) = Append(parent, k)
              /\ k <= Cardinality(ChildNodes(nodes, parent)) + 1
              /\ \A n \in nodes : n.id # Append(parent, k)
<1> DEFINE children == ChildNodes(nodes, parent)
           taken    == {n.id[Len(n.id)] : n \in children}
           last     == IF taken = {} THEN 0 ELSE CHOOSE i \in taken : \A j \in taken : j <= i
           bound    == Cardinality(children)
<1>1. children \subseteq nodes /\ bound \in Nat
  BY FS_Subset, FS_CardinalityType DEF ChildNodes, SoundTree
<1>2. ASSUME NEW n \in children
      PROVE  \E k \in Nat \ {0} : n.id = Append(parent, k) /\ k <= bound /\ n.id[Len(n.id)] = k
  <2>1. n.parent = parent
    BY DEF ChildNodes
  <2>2. PICK k \in Nat \ {0} : n.id = Append(n.parent, k) /\ k <= Cardinality(ChildNodes(nodes, n.parent))
    BY <1>1 DEF SoundTree, Attached
  <2>3. n.id[Len(n.id)] = k
    BY <2>1, <2>2, AppendProperties
  <2> QED BY <2>1, <2>2, <2>3
<1>3. taken \subseteq Nat /\ \A i \in taken : i <= bound
  <2> SUFFICES ASSUME NEW i \in taken PROVE i \in Nat /\ i <= bound
    OBVIOUS
  <2>1. PICK n \in children : i = n.id[Len(n.id)]
    OBVIOUS
  <2> HIDE DEF bound, children, taken
  <2> QED BY <1>2, <2>1
<1>4. last \in Nat /\ last <= bound /\ \A i \in taken : i <= last
  <2>1. CASE taken = {}
    <3>1. last = 0
      BY <2>1
    <3> HIDE DEF last, bound, taken
    <3> QED BY <1>1, <2>1, <3>1
  <2>2. CASE taken # {}
    <3> HIDE DEF taken, bound
    <3>1. \E i \in taken : \A j \in taken : j <= i
      BY <1>1, <1>3, <2>2, LargestMember
    <3>2. last \in taken /\ \A j \in taken : j <= last
      BY <2>2, <3>1
    <3> QED BY <1>3, <3>2
  <2> QED BY <2>1, <2>2
<1>5. NextBranchId(nodes, parent) = Append(parent, last + 1)
  BY DEF NextBranchId
<1>6. ASSUME NEW n \in nodes, n.id = Append(parent, last + 1)
      PROVE  FALSE
  <2>1. PICK k \in Nat \ {0} : n.id = Append(n.parent, k)
    BY DEF SoundTree, Attached
  <2>2. n.parent \in Seq(Nat \ {0})
    BY DEF SoundTree, Branches
  <2>3. last + 1 \in Nat \ {0}
    <3> HIDE DEF last
    <3> QED BY <1>4
  <2>4. n.parent = parent
    <3> DEFINE next == last + 1
               S == Nat \ {0}
    <3>1. next \in S /\ k \in S /\ n.parent \in Seq(S) /\ parent \in Seq(S)
      BY <2>2, <2>3
    <3>2. Append(n.parent, k) = Append(parent, next)
      BY <1>6, <2>1
    <3> HIDE DEF next, S
    <3> QED BY <3>1, <3>2, AppendInjective
  <2>5. n \in children
    BY <2>4 DEF ChildNodes
  <2>6. PICK j \in Nat \ {0} : n.id = Append(parent, j) /\ n.id[Len(n.id)] = j
    BY <1>2, <2>5
  <2>7. j \in taken
    BY <2>5, <2>6
  <2>8. j = last + 1
    <3> DEFINE next == last + 1
               S == Nat \ {0}
    <3>1. next \in S /\ j \in S /\ parent \in Seq(S)
      BY <2>3
    <3>2. Append(parent, j) = Append(parent, next)
      BY <1>6, <2>6
    <3>3. j = next
      <4> HIDE DEF next, S
      <4> QED BY <3>1, <3>2, AppendInjective
    <3> QED BY <3>3
  <2> HIDE DEF taken, last
  <2> QED BY <1>4, <2>7, <2>8
<1> HIDE DEF last, bound, taken, children
<1>7. last + 1 \in Nat \ {0} /\ last + 1 <= bound + 1
  BY <1>1, <1>4
<1> QED BY <1>5, <1>6, <1>7 DEF bound, children

\* A new branch leaves the tree sound.
LEMMA TreeGrows ==
    ASSUME NEW nodes, SoundTree(nodes), NEW b \in Branches, NEW k \in Nat \ {0},
           b.id = Append(b.parent, k), k <= Cardinality(ChildNodes(nodes, b.parent)) + 1,
           \A n \in nodes : n.id # b.id,
           \A n \in nodes : ~(n.parent = b.parent /\ n.move = b.move),
           b.ply = Len(b.id), b.ply = Len(b.fen), b.ply <= MaxScratch, b.fen \in Plays,
           IF b.parent = Root
           THEN b.fen = Append(<<>>, b.move)
           ELSE \E p \in nodes : p.id = b.parent /\ ~p.terminal /\ b.fen = Append(p.fen, b.move)
    PROVE  SoundTree(nodes \cup {b})
<1> DEFINE new == nodes \cup {b}
<1>1. IsFiniteSet(nodes) /\ IsFiniteSet(new) /\ b \notin nodes
  BY FS_AddElement DEF SoundTree
<1>2. \A id : /\ ChildNodes(nodes, id) \subseteq ChildNodes(new, id)
              /\ IsFiniteSet(ChildNodes(new, id)) /\ IsFiniteSet(ChildNodes(nodes, id))
  <2> SUFFICES ASSUME NEW id
               PROVE  /\ ChildNodes(nodes, id) \subseteq ChildNodes(new, id)
                      /\ IsFiniteSet(ChildNodes(new, id)) /\ IsFiniteSet(ChildNodes(nodes, id))
    OBVIOUS
  <2>1. ChildNodes(nodes, id) \subseteq nodes /\ ChildNodes(new, id) \subseteq new
    BY DEF ChildNodes
  <2>2. ChildNodes(nodes, id) \subseteq ChildNodes(new, id)
    BY DEF ChildNodes
  <2> QED BY <1>1, <2>1, <2>2, FS_Subset
<1>3. \A id : /\ Cardinality(ChildNodes(nodes, id)) \in Nat
              /\ Cardinality(ChildNodes(new, id)) \in Nat
              /\ Cardinality(ChildNodes(nodes, id)) <= Cardinality(ChildNodes(new, id))
  BY <1>2, FS_Subset, FS_CardinalityType
<1>4. Cardinality(ChildNodes(new, b.parent)) = Cardinality(ChildNodes(nodes, b.parent)) + 1
  <2>1. ChildNodes(new, b.parent) = ChildNodes(nodes, b.parent) \cup {b}
    BY DEF ChildNodes
  <2>2. b \notin ChildNodes(nodes, b.parent)
    BY <1>1 DEF ChildNodes
  <2> QED BY <1>2, <2>1, <2>2, FS_AddElement
<1>5. Attached(b, new)
  <2>1. k <= Cardinality(ChildNodes(new, b.parent))
    BY <1>4
  <2>2. CASE b.parent = Root
    BY <2>1, <2>2 DEF Attached
  <2>3. CASE b.parent # Root
    BY <2>1, <2>3 DEF Attached
  <2> QED BY <2>2, <2>3
<1>6. ASSUME NEW n \in nodes
      PROVE  Attached(n, new)
  <2>1. Attached(n, nodes)
    BY DEF SoundTree
  <2>2. PICK j \in Nat \ {0} : n.id = Append(n.parent, j) /\ j <= Cardinality(ChildNodes(nodes, n.parent))
    BY <2>1 DEF Attached
  <2>3. j <= Cardinality(ChildNodes(new, n.parent))
    <3> HIDE DEF new
    <3> QED BY <1>3, <2>2
  <2>4. CASE n.parent = Root
    BY <2>1, <2>2, <2>3, <2>4 DEF Attached
  <2>5. CASE n.parent # Root
    <3>1. PICK p \in nodes : p.id = n.parent /\ ~p.terminal /\ n.fen = Append(p.fen, n.move)
      BY <2>1, <2>5 DEF Attached
    <3>2. p \in new
      OBVIOUS
    <3> HIDE DEF new
    <3> QED BY <2>1, <2>2, <2>3, <2>5, <3>1, <3>2 DEF Attached
  <2> QED BY <2>4, <2>5
<1>7. \A m, n \in new : m.id = n.id \/ (m.parent = n.parent /\ m.move = n.move) => m = n
  BY DEF SoundTree
<1>8. new \subseteq Branches
  BY DEF SoundTree
<1> QED BY <1>1, <1>5, <1>6, <1>7, <1>8 DEF SoundTree

\* A note on a branch leaves it where it is.
LEMMA TreeIsAnnotated ==
    ASSUME NEW nodes, SoundTree(nodes), NEW a \in nodes
    PROVE  SoundTree((nodes \ {a}) \cup {[a EXCEPT !.note = TRUE]})
<1> DEFINE noted == [a EXCEPT !.note = TRUE]
           new   == (nodes \ {a}) \cup {noted}
           image(n) == IF n = a THEN noted ELSE n
<1>1. /\ a \in Branches /\ noted \in Branches
      /\ noted.id = a.id /\ noted.parent = a.parent /\ noted.ply = a.ply /\ noted.move = a.move
      /\ noted.fen = a.fen /\ noted.terminal = a.terminal
  BY DEF SoundTree, Branches
<1>2. /\ \A n \in nodes : /\ image(n) \in new
                          /\ image(n).id = n.id /\ image(n).parent = n.parent
                          /\ image(n).ply = n.ply /\ image(n).move = n.move
                          /\ image(n).fen = n.fen /\ image(n).terminal = n.terminal
      /\ \A m \in new : \E n \in nodes : m = image(n)
  BY <1>1
<1>3. IsFiniteSet(nodes) /\ \A m, n \in nodes : m.id = n.id \/ (m.parent = n.parent /\ m.move = n.move) => m = n
  BY DEF SoundTree
<1>4. IsFiniteSet(new) /\ new \subseteq Branches
  <2>1. IsFiniteSet(nodes \ {a})
    BY <1>3, FS_RemoveElement
  <2> QED BY <1>1, <2>1, FS_AddElement DEF SoundTree
<1> HIDE DEF new, image, noted
<1>5. \A id : Cardinality(ChildNodes(new, id)) = Cardinality(ChildNodes(nodes, id))
  <2> SUFFICES ASSUME NEW id
               PROVE  Cardinality(ChildNodes(new, id)) = Cardinality(ChildNodes(nodes, id))
    OBVIOUS
  <2> DEFINE S == ChildNodes(nodes, id)
             T == ChildNodes(new, id)
             f == [n \in S |-> image(n)]
  <2>1. IsFiniteSet(S)
    BY <1>3, FS_Subset DEF ChildNodes
  <2>2. \A n \in S : image(n) \in T
    BY <1>2 DEF ChildNodes
  <2>3. \A m \in T : \E n \in S : m = image(n)
    BY <1>2 DEF ChildNodes
  <2>4. \A m, n \in S : image(m) = image(n) => m = n
    BY <1>2, <1>3 DEF ChildNodes
  <2>5. f \in Bijection(S, T)
    <3> HIDE DEF S, T
    <3>1. f \in [S -> T]
      BY <2>2
    <3>2. f \in Injection(S, T)
      BY <2>4, <3>1 DEF Injection, IsInjective
    <3>3. f \in Surjection(S, T)
      BY <2>3, <3>1 DEF Surjection
    <3> QED BY <3>2, <3>3 DEF Bijection
  <2>6. ExistsBijection(S, T)
    <3> HIDE DEF S, T, f
    <3> QED BY <2>5 DEF ExistsBijection
  <2> QED BY <2>1, <2>6, FS_Bijection
<1>6. ASSUME NEW n \in nodes
      PROVE  Attached(image(n), new)
  <2>1. Attached(n, nodes)
    BY DEF SoundTree
  <2>2. PICK j \in Nat \ {0} : n.id = Append(n.parent, j) /\ j <= Cardinality(ChildNodes(nodes, n.parent))
    BY <2>1 DEF Attached
  <2>3. j <= Cardinality(ChildNodes(new, n.parent))
    BY <1>5, <2>2
  <2>4. CASE n.parent = Root
    BY <1>2, <2>1, <2>2, <2>3, <2>4 DEF Attached
  <2>5. CASE n.parent # Root
    <3>1. PICK p \in nodes : p.id = n.parent /\ ~p.terminal /\ n.fen = Append(p.fen, n.move)
      BY <2>1, <2>5 DEF Attached
    <3>2. image(p) \in new /\ image(p).id = n.parent /\ ~image(p).terminal /\ n.fen = Append(image(p).fen, n.move)
      BY <1>2, <3>1
    <3> DEFINE y == image(n)
    <3>3. /\ y.id = n.id /\ y.parent = n.parent /\ y.ply = n.ply /\ y.move = n.move
          /\ y.fen = n.fen
      BY <1>2
    <3>4. n.ply = Len(n.id) /\ n.ply = Len(n.fen) /\ n.ply <= MaxScratch /\ n.fen \in Plays
      BY <2>1 DEF Attached
    <3>5. \E q \in new : q.id = y.parent /\ ~q.terminal /\ y.fen = Append(q.fen, y.move)
      BY <3>2, <3>3
    <3> HIDE DEF y
    <3>6. Attached(y, new)
      BY <2>2, <2>3, <2>5, <3>3, <3>4, <3>5 DEF Attached
    <3> QED BY <3>6 DEF y
  <2> QED BY <2>4, <2>5
<1>7. \A m, n \in new : m.id = n.id \/ (m.parent = n.parent /\ m.move = n.move) => m = n
  <2> SUFFICES ASSUME NEW m \in new, NEW n \in new,
                      m.id = n.id \/ (m.parent = n.parent /\ m.move = n.move)
               PROVE  m = n
    OBVIOUS
  <2>1. PICK x \in nodes : m = image(x)
    BY <1>2
  <2>2. PICK y \in nodes : n = image(y)
    BY <1>2
  <2>3. x.id = y.id \/ (x.parent = y.parent /\ x.move = y.move)
    BY <1>2, <2>1, <2>2
  <2> QED BY <1>3, <2>1, <2>2, <2>3
<1>8. \A m \in new : Attached(m, new)
  BY <1>2, <1>6
<1> QED BY <1>4, <1>7, <1>8 DEF SoundTree, new, noted

\* A move on the scratch board either adds a branch or returns to one.
LEMMA PlayKeepsSound ==
    ASSUME NEW call, NEW board, SoundBoard(board)
    PROVE  PlayMove(call, board).verdict # "raised" /\ SoundBoard(PlayMove(call, board).board)
<1> DEFINE active == FindNode(board.nodes, board.active)
           legal  == /\ Len(board.scratch) < MaxScratch
                     /\ active = {} \/ ~The(active).terminal
                     /\ RequireLegalSan(board.scratch, call.move)
           move   == Spelling[call.move]
           line   == Append(board.scratch, move)
           child  == FindChild(board.nodes, board.active, move)
           fresh  == [id |-> NextBranchId(board.nodes, board.active),
                      parent |-> board.active, ply |-> Len(line), move |-> move,
                      fen |-> line, terminal |-> line \in Over, note |-> FALSE]
           branch == IF child # {} THEN The(child) ELSE fresh
           nodes  == board.nodes \cup {branch}
           after  == [nodes |-> nodes, active |-> branch.id,
                      scratch |-> MovesToBranch(nodes, branch.id)]
<1>1. CASE ~legal
  <2>1. PlayMove(call, board) = Result("rejected", board)
    BY <1>1 DEF PlayMove
  <2> QED BY <2>1 DEF Result
<1>2. CASE legal
  <2>1. PlayMove(call, board) = IF branch.fen # line THEN Result("raised", board) ELSE Result("ok", after)
    BY <1>2 DEF PlayMove
  <2>2. /\ SoundTree(board.nodes) /\ board.scratch \in Seq(Moves) /\ board.active \in Seq(Nat \ {0})
        /\ move \in Moves /\ line \in Plays /\ line \in Seq(Moves) /\ Len(line) = Len(board.scratch) + 1
        /\ Len(line) \in Nat /\ Len(line) <= MaxScratch /\ line # <<>>
    <3>1. SoundTree(board.nodes) /\ board.scratch \in Seq(Moves) /\ board.active \in Seq(Nat \ {0})
      BY ScratchIsLine, GameAssumption DEF SoundBoard
    <3>2. move \in Moves /\ line \in Plays
      BY <1>2 DEF RequireLegalSan, Moves
    <3>3. line \in Seq(Moves) /\ Len(line) = Len(board.scratch) + 1 /\ line # <<>>
      <4> HIDE DEF move
      <4> QED BY <3>1, <3>2, AppendProperties
    <3>4. Len(board.scratch) \in Nat /\ Len(board.scratch) < MaxScratch /\ MaxScratch \in Nat
      BY <1>2, <3>1, BudgetAssumption
    <3> HIDE DEF line, move, legal
    <3> QED BY <3>1, <3>2, <3>3, <3>4
  <2>3. \/ board.active = Root /\ line = Append(<<>>, move) /\ Len(line) = 1
        \/ \E p \in board.nodes : /\ p.id = board.active /\ ~p.terminal
                                  /\ line = Append(p.fen, move)
                                  /\ board.active # Root /\ Len(line) = Len(board.active) + 1
    <3>1. CASE board.active = Root /\ board.scratch = <<>>
      BY <3>1, <2>2
    <3>2. CASE \E n \in board.nodes : board.active = n.id /\ board.scratch = n.fen
      <4>1. PICK n \in board.nodes : board.active = n.id /\ board.scratch = n.fen
        BY <3>2
      <4>2. active = {n} /\ The(active) = n /\ n.id # Root
        BY <2>2, <4>1, Identifiers
      <4>3. ~n.terminal
        BY <1>2, <4>2
      <4>4. Len(n.id) = Len(n.fen)
        BY <2>2 DEF SoundTree, Attached
      <4> HIDE DEF legal, move
      <4> QED BY <2>2, <4>1, <4>2, <4>3, <4>4
    <3> QED BY <3>1, <3>2 DEF SoundBoard
  <2>4. branch \in nodes /\ SoundTree(nodes) /\ branch.fen = line
    <3>1. CASE child # {}
      <4>1. branch \in board.nodes /\ branch.parent = board.active /\ branch.move = move
        BY <3>1 DEF FindChild, The
      <4>2. nodes = board.nodes
        BY <4>1
      <4>3. Attached(branch, board.nodes)
        BY <2>2, <4>1 DEF SoundTree
      <4>4. branch.fen = line
        <5> HIDE DEF legal, child, fresh, branch, nodes, active, line, move
        <5>1. CASE board.active = Root /\ line = Append(<<>>, move)
          BY <4>1, <4>3, <5>1 DEF Attached
        <5>2. CASE board.active # Root /\ \E p \in board.nodes : p.id = board.active /\ line = Append(p.fen, move)
          <6>1. PICK p \in board.nodes : p.id = board.active /\ line = Append(p.fen, move)
            BY <5>2
          <6>2. PICK q \in board.nodes : q.id = board.active /\ branch.fen = Append(q.fen, move)
            BY <4>1, <4>3, <5>2 DEF Attached
          <6>3. p = q
            BY <2>2, <6>1, <6>2 DEF SoundTree
          <6> QED BY <6>1, <6>2, <6>3
        <5> QED BY <2>3, <5>1, <5>2
      <4>5. branch \in nodes
        OBVIOUS
      <4> HIDE DEF nodes, branch
      <4> QED BY <2>2, <4>2, <4>4, <4>5
    <3>2. CASE child = {}
      <4>1. branch = fresh
        BY <3>2
      <4>2. PICK k \in Nat \ {0} :
               /\ NextBranchId(board.nodes, board.active) = Append(board.active, k)
               /\ k <= Cardinality(ChildNodes(board.nodes, board.active)) + 1
               /\ \A n \in board.nodes : n.id # Append(board.active, k)
        BY <2>2, NextIsFresh
      <4>3. /\ fresh.id = Append(board.active, k) /\ fresh.parent = board.active
            /\ fresh.ply = Len(line) /\ fresh.move = move /\ fresh.fen = line
        BY <4>2
      <4>4. Append(board.active, k) \in Seq(Nat \ {0}) /\ Len(Append(board.active, k)) = Len(board.active) + 1
        BY <2>2, AppendProperties
      <4>5. fresh \in Branches
        <5> HIDE DEF line, move, legal, child
        <5>1. NextBranchId(board.nodes, board.active) \in Seq(Nat \ {0})
          BY <4>2, <4>4
        <5> QED BY <2>2, <5>1 DEF Branches
      <4>6. \A n \in board.nodes : ~(n.parent = board.active /\ n.move = move)
        BY <3>2 DEF FindChild
      <4> HIDE DEF fresh, line, move, child, legal, branch
      <4>7. fresh.ply = Len(fresh.id)
        BY <2>2, <2>3, <4>3, <4>4 DEF Root
      <4>8. IF fresh.parent = Root
            THEN fresh.fen = Append(<<>>, fresh.move)
            ELSE \E p \in board.nodes : p.id = fresh.parent /\ ~p.terminal /\ fresh.fen = Append(p.fen, fresh.move)
        BY <2>3, <4>3
      <4>9. SoundTree(board.nodes \cup {fresh})
        BY <2>2, <4>2, <4>3, <4>5, <4>6, <4>7, <4>8, TreeGrows
      <4> QED BY <4>1, <4>3, <4>9
    <3> QED BY <3>1, <3>2
  <2>5. MovesToBranch(nodes, branch.id) = branch.fen
    <3> HIDE DEF nodes, branch
    <3> QED BY <2>4, SoundLines
  <2>6. SoundBoard(after)
    <3>1. /\ DOMAIN after = {"nodes", "active", "scratch"}
          /\ after.nodes = nodes /\ after.active = branch.id
          /\ after.scratch = MovesToBranch(nodes, branch.id)
      OBVIOUS
    <3> HIDE DEF after, nodes, branch
    <3> QED BY <2>4, <2>5, <3>1 DEF SoundBoard
  <2>7. PlayMove(call, board) = Result("ok", after)
    <3> HIDE DEF after, branch, line
    <3> QED BY <2>1, <2>4
  <2> HIDE DEF after
  <2> QED BY <2>6, <2>7 DEF Result
<1> QED BY <1>1, <1>2

\* Every tool keeps the tree sound and the scratch board on its active branch,
\* and none of them raises: the tools of players 2 and 3 never meet a tree
\* they have built themselves and refuse to walk.
THEOREM ToolKeepsSound ==
    ASSUME NEW call, NEW board, SoundBoard(board)
    PROVE  ExecuteTool(call, board).verdict # "raised" /\ SoundBoard(ExecuteTool(call, board).board)
<1>1. /\ ~LineageRaises(board.nodes, board.active)
      /\ MovesToBranch(board.nodes, board.active) = board.scratch
      /\ board.scratch \in Plays /\ SoundTree(board.nodes)
      /\ DOMAIN board = {"nodes", "active", "scratch"}
  BY ScratchIsLine, GameAssumption DEF SoundBoard
<1>2. CASE call.tool = "submit_move"
  <2>1. ExecuteTool(call, board) = SubmitMove(call, board)
    BY <1>1, <1>2 DEF ExecuteTool
  <2> QED BY <2>1 DEF SubmitMove, Result
<1>3. CASE call.tool = "play"
  <2>1. ExecuteTool(call, board) = PlayMove(call, board)
    BY <1>1, <1>3 DEF ExecuteTool
  <2> QED BY <2>1, PlayKeepsSound
<1>4. CASE call.tool = "undo"
  <2> DEFINE active == FindNode(board.nodes, board.active)
             up     == IF active = {} THEN Root ELSE The(active).parent
             after  == [board EXCEPT !.active = up, !.scratch = MovesToBranch(board.nodes, up)]
  <2>1. ExecuteTool(call, board) = Result("ok", after)
    BY <1>1, <1>4 DEF ExecuteTool, UndoMove
  <2>2. up = Root \/ \E n \in board.nodes : up = n.id
    <3>1. CASE board.active = Root
      <4>1. active = {}
        BY <1>1, <3>1 DEF SoundTree, FindNode, Root, Branches, Attached
      <4> QED BY <4>1
    <3>2. CASE \E n \in board.nodes : board.active = n.id
      <4>1. PICK n \in board.nodes : board.active = n.id
        BY <3>2
      <4>2. active = {n} /\ The(active) = n
        BY <1>1, <4>1, Identifiers
      <4>3. up = n.parent
        BY <4>2
      <4>4. n.parent = Root \/ \E p \in board.nodes : p.id = n.parent
        BY <1>1 DEF SoundTree, Attached
      <4> HIDE DEF up
      <4> QED BY <4>3, <4>4
    <3> QED BY <3>1, <3>2 DEF SoundBoard
  <2>3. /\ DOMAIN after = {"nodes", "active", "scratch"}
        /\ after.nodes = board.nodes /\ after.active = up
        /\ after.scratch = MovesToBranch(board.nodes, up)
    BY <1>1
  <2> HIDE DEF after, up
  <2>4. SoundBoard(after)
    BY <1>1, <2>2, <2>3, SoundLines DEF SoundBoard
  <2> QED BY <2>1, <2>4 DEF Result
<1>5. CASE call.tool = "reset"
  <2> DEFINE after == [board EXCEPT !.active = Root, !.scratch = <<>>]
  <2>1. ExecuteTool(call, board) = Result("ok", after)
    BY <1>1, <1>5 DEF ExecuteTool, ResetBoard
  <2>2. /\ DOMAIN after = {"nodes", "active", "scratch"} /\ after.nodes = board.nodes
        /\ after.active = Root /\ after.scratch = <<>>
    BY <1>1
  <2> HIDE DEF after
  <2> QED BY <1>1, <2>1, <2>2 DEF Result, SoundBoard
<1>6. CASE call.tool = "annotate"
  <2> DEFINE found == FindNode(board.nodes, call.branch)
             after == [board EXCEPT !.nodes = (@ \ found) \cup {[n EXCEPT !.note = TRUE] : n \in found}]
  <2>1. ExecuteTool(call, board) = IF found = {} THEN Result("rejected", board) ELSE Result("ok", after)
    BY <1>1, <1>6 DEF ExecuteTool, AnnotateBranch
  <2>2. CASE found = {}
    BY <2>1, <2>2 DEF Result
  <2>3. CASE found # {}
    <3>1. PICK a \in board.nodes : a.id = call.branch
      BY <2>3 DEF FindNode
    <3>2. found = {a}
      BY <1>1, <3>1, Identifiers
    <3> DEFINE noted == [a EXCEPT !.note = TRUE]
               new   == (board.nodes \ {a}) \cup {noted}
    <3>3. /\ DOMAIN after = {"nodes", "active", "scratch"}
          /\ after.active = board.active /\ after.scratch = board.scratch
          /\ after.nodes = (board.nodes \ found) \cup {[n EXCEPT !.note = TRUE] : n \in found}
      BY <1>1
    <3>4. after.nodes = new
      BY <3>2, <3>3
    <3>5. SoundTree(new)
      BY <1>1, TreeIsAnnotated
    <3>6. noted.id = a.id /\ noted.fen = a.fen
      BY <1>1 DEF SoundTree, Branches
    <3>7. \A n \in board.nodes : \E m \in new : m.id = n.id /\ m.fen = n.fen
      BY <3>6
    <3> HIDE DEF after, new, noted
    <3>8. SoundBoard(after)
      <4>1. CASE board.active = Root /\ board.scratch = <<>>
        BY <3>3, <3>4, <3>5, <4>1 DEF SoundBoard
      <4>2. CASE \E n \in board.nodes : board.active = n.id /\ board.scratch = n.fen
        <5>1. PICK n \in board.nodes : board.active = n.id /\ board.scratch = n.fen
          BY <4>2
        <5>2. PICK m \in new : m.id = n.id /\ m.fen = n.fen
          BY <3>7
        <5> QED BY <3>3, <3>4, <3>5, <5>1, <5>2 DEF SoundBoard
      <4> QED BY <4>1, <4>2 DEF SoundBoard
    <3>9. ExecuteTool(call, board) = Result("ok", after)
      BY <2>1, <2>3
    <3> QED BY <3>8, <3>9 DEF Result
  <2> QED BY <2>2, <2>3
<1>7. CASE call.tool \notin {"submit_move", "play", "undo", "reset", "annotate"}
  <2>1. ExecuteTool(call, board) = InspectSquare(call, board)
    BY <1>1, <1>7 DEF ExecuteTool
  <2> QED BY <2>1 DEF InspectSquare, Result
<1> QED BY <1>2, <1>3, <1>4, <1>5, <1>6, <1>7

\* The same form, read from the end of the identifier and of the line.
LEMMA LastOfAppend ==
    ASSUME NEW S, NEW s \in Seq(S), NEW x \in S
    PROVE  /\ Append(s, x)[Len(Append(s, x))] = x
           /\ SubSeq(Append(s, x), 1, Len(Append(s, x)) - 1) = s
<1>1. Len(Append(s, x)) = Len(s) + 1 /\ Append(s, x)[Len(s) + 1] = x /\ Len(s) \in Nat
  BY AppendProperties
<1>2. SubSeq(Append(s, x), 1, Len(s)) = s
  OBVIOUS
<1> QED BY <1>1, <1>2

LEMMA SoundForm ==
    ASSUME NEW nodes, SoundTree(nodes), NEW n \in nodes
    PROVE  /\ n.fen \in Plays /\ n.move = n.fen[Len(n.fen)]
           /\ n.ply = Len(n.id) /\ n.ply = Len(n.fen) /\ n.ply <= MaxScratch
           /\ n.parent = SubSeq(n.id, 1, Len(n.id) - 1)
           /\ n.parent # Root =>
                \E p \in nodes : /\ p.id = n.parent /\ ~p.terminal
                                 /\ p.fen = SubSeq(n.fen, 1, Len(n.fen) - 1)
           /\ n.id[Len(n.id)] <= Cardinality(ChildNodes(nodes, n.parent))
<1>1. Attached(n, nodes) /\ n \in Branches
  BY DEF SoundTree
<1>2. PICK k \in Nat \ {0} : n.id = Append(n.parent, k) /\ k <= Cardinality(ChildNodes(nodes, n.parent))
  BY <1>1 DEF Attached
<1>3. n.id[Len(n.id)] = k /\ n.parent = SubSeq(n.id, 1, Len(n.id) - 1)
  <2> DEFINE S == Nat \ {0}
  <2>1. n.parent \in Seq(S) /\ k \in S
    BY <1>1 DEF Branches
  <2> HIDE DEF S
  <2> QED BY <1>2, <2>1, LastOfAppend
<1>4. CASE n.parent = Root
  <2>1. n.fen = Append(<<>>, n.move)
    BY <1>1, <1>4 DEF Attached
  <2>2. n.fen[Len(n.fen)] = n.move
    BY <2>1
  <2> QED BY <1>1, <1>2, <1>3, <1>4, <2>2 DEF Attached
<1>5. CASE n.parent # Root
  <2>1. PICK p \in nodes : p.id = n.parent /\ ~p.terminal /\ n.fen = Append(p.fen, n.move)
    BY <1>1, <1>5 DEF Attached
  <2>2. p.fen \in Seq(Moves) /\ n.move \in Moves
    BY <1>1 DEF SoundTree, Branches
  <2>3. n.fen[Len(n.fen)] = n.move /\ p.fen = SubSeq(n.fen, 1, Len(n.fen) - 1)
    BY <2>1, <2>2, LastOfAppend
  <2> QED BY <1>1, <1>2, <1>3, <2>1, <2>3 DEF Attached
<1> QED BY <1>4, <1>5
=============================================================================
