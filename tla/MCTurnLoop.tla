----------------------------- MODULE MCTurnLoop -----------------------------
(* A game of two first moves: e has two replies, and d (which may also be   *)
(* spelled dq, without its "=Q") ends the game.                             *)
EXTENDS TurnLoop, TLC

AllHarnesses == {"baseline", "one", "two", "three"}

SmallGame == {<<>>, <<"e">>, <<"d">>, <<"e", "r">>, <<"e", "r", "e">>}
SmallOver == {<<"d">>}
SmallTexts == {"e", "d", "dq", "r"}
SmallSpelling == [t \in SmallTexts |-> IF t = "dq" THEN "d" ELSE t]

Do(tool) == [tool |-> tool, move |-> NoMove, branch |-> Root]
Play(move) == [tool |-> "play", move |-> move, branch |-> Root]
Annotate(branch) == [tool |-> "annotate", move |-> NoMove, branch |-> branch]
Submit(move, branch) == [tool |-> "submit_move", move |-> move, branch |-> branch]

SomeBatches ==
    {<<Play("e")>>, <<Play("dq")>>, <<Do("undo")>>, <<Do("reset")>>,
     <<Play("r"), Annotate(<<1>>)>>, <<Play("e"), Play("d")>>,
     <<Annotate(<<1>>), Annotate(<<2>>), Do("inspect")>>, <<Do("inspect"), Do("inspect"), Do("peek")>>,
     <<Annotate(<<1>>), Annotate(<<1>>)>>,
     <<Annotate(<<1>>), Submit("e", <<1>>)>>, <<Submit("d", <<2>>)>>, <<Submit("dq", <<1>>)>>}

SomeSteps ==
    {Play("e"), Play("r"), Play("d"), Do("undo"), Do("reset"), Do("inspect"), Do("peek"),
     Do("submit_defense_report"), Do("submit_attack_report"),
     Submit("e", Root), Submit("dq", Root), Submit("r", Root)}
=============================================================================
