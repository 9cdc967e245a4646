------------------------- MODULE MCPositionLibrary -------------------------
(* Four puzzles of the endgame and four quiet boards of the middlegame: two  *)
(* of each side to move.                                                     *)
EXTENDS PositionLibrary

CONSTANTS i1, i2

Symmetry == Permutations(Importers)

\* Bound: when a fault made the curator pass over a record or spoilt a file, the
\* set is followed up to its files and not imported.
Malformed == {<<"tactical", 3, 2>>, <<"quiet", 3, 1>>}
ImportsOfWholeReading ==
    (lost \subseteq Malformed /\ spoilt = {}) \/ \A i \in Importers : importer[i] = Idle

SmallQuotas == <<"endgame", "tactical">> :> 2 @@ <<"middlegame", "quiet">> :> 2

Endgame(name, turn) ==
    [name |-> name, key |-> name, turn |-> turn, weight |-> 8, fullmove |-> 30, check |-> FALSE,
     over |-> FALSE, pieces |-> 8, replies |-> 6, balance |-> 300]
Middlegame(name, turn) == [Endgame(name, turn) EXCEPT !.weight = 10, !.fullmove = 13]

\* One line of the engine, and the streams made of such lines.
Info(depth, index, move, cp) ==
    [depth |-> depth, multipv |-> index, move |-> move, whole |-> TRUE, bounded |-> FALSE, legal |-> TRUE,
     cp |-> cp, mate |-> FALSE, forcing |-> FALSE, plies |-> 8, swing |-> 100]

Steady(cp) == <<Info(1, 1, "a", cp), Info(1, 2, "b", cp - 100), Info(1, 3, "c", cp - 100)>>
\* Stopped in the middle of a depth that would have changed the verdict.
Stopped(cp) == Steady(cp) \o <<Info(2, 1, "a", 900), Info(2, 2, "b", 0)>>
Sharp == [Steady(100) EXCEPT ![1].forcing = TRUE]

Good == [screen |-> Steady(140), reference |-> Stopped(180)]
Unstable == [screen |-> Steady(100), reference |-> Steady(141)]
Broken == [screen |-> Good.screen, reference |-> [Good.reference EXCEPT ![3].legal = FALSE]]
Tactical == [screen |-> Sharp, reference |-> Sharp]

P(game, board, themes) ==
    [game |-> game, board |-> board, themes |-> themes, rated |-> TRUE, setup |-> TRUE,
     matches |-> TRUE, solved |-> TRUE, answer |-> "a"]
G(game, boards) ==
    [game |-> game, elo |-> 1600, seconds |-> 600, standard |-> TRUE, boards |-> boards]

Mate == {"endgame", "mate"}
Plain == {"endgame"}

Puzzles == <<
    <<P("g1", Endgame("t1", "white"), Mate), P("g1", Endgame("t9", "black"), Mate),
      P("g2", Endgame("t2", "black"), Mate)>>,
    <<P("g3", Endgame("t3", "white"), Mate), [P("g4", Endgame("t4", "white"), Plain) EXCEPT !.answer = "b"],
      P("g5", Endgame("t5", "white"), Plain)>>,
    <<[P("g6", Endgame("t9", "black"), Plain) EXCEPT !.matches = FALSE],
      P("g9", Endgame("t6", "black"), Plain),
      P("g7", Endgame("t7", "black"), Plain), P("g8", Endgame("t8", "black"), Plain)>>>>

Games == <<
    <<G("g2", <<Middlegame("m1", "white")>>),
      G("h1", <<Middlegame("u1", "white"), Middlegame("v1", "black"), Middlegame("m1", "white")>>),
      G("h2", <<Middlegame("m1", "white"), [Middlegame("m2", "black") EXCEPT !.weight = 9],
                Middlegame("m3", "black")>>)>>,
    <<G("h3", <<Middlegame("m4", "white"), Middlegame("m3", "black")>>),
      [G("h4", <<Middlegame("m5", "black")>>) EXCEPT !.elo = 1599]>>,
    <<G("no game", <<Middlegame("m5", "black")>>),
      G("h5", <<Middlegame("m6", "white"), Middlegame("m5", "black")>>),
      G("h6", <<Middlegame("m7", "black")>>)>>>>

SmallOrder == [tactical |-> <<1, 2, 1, 3>>, quiet |-> <<1, 2, 1, 3>>]
SmallPages == [tactical |-> Puzzles, quiet |-> Games]

Boards == {record.board.name : record \in UNION {ToSet(page) : page \in ToSet(Puzzles)}}
              \cup {board.name : board \in UNION {ToSet(record.boards) : record \in
                                            UNION {ToSet(page) : page \in ToSet(Games)}}}
SmallStreams ==
    [name \in Boards |-> CASE name = "u1" -> Tactical [] name = "v1" -> Unstable
                            [] name = "t6" -> Broken [] OTHER -> Good]

\* An odd number of boards stays in order, an even number is reversed.
SmallShuffle(game, kept) ==
    IF Cardinality(kept) % 2 = 0 THEN [i \in kept |-> 9 - i] ELSE [i \in kept |-> i]

\* One seed keeps the order of the rows of a side, the other reverses it.
SeededOrder(d, items) ==
    LET side(bucket, color) == SelectSeq(items, LAMBDA i : Bucket(i.position) = <<bucket, color>>)
        tactical == <<"endgame", "tactical">>
        quiet    == <<"middlegame", "quiet">>
        sides    == <<side(tactical, "white"), side(tactical, "black"),
                      side(quiet, "white"), side(quiet, "black")>>
    IN  FlattenSeq([n \in DOMAIN sides |-> IF d = "seed1" THEN sides[n] ELSE Reverse(sides[n])])
=============================================================================
