---------------------------- MODULE TestedLines ----------------------------
(***************************************************************************)
(* The tree of variations a player has tried on its scratch board          *)
(* (harness/agent_player3/tested_lines.py).  The list of nodes of the code *)
(* is a set here: its order is only read where it is sorted again.  A      *)
(* branch id such as B1.2 is the sequence <<1, 2>>; None is Root.          *)
(***************************************************************************)
EXTENDS Integers, Sequences, FiniteSets

Root == <<>>

FindNode(nodes, id) == {n \in nodes : n.id = id}

The(found) == CHOOSE n \in found : TRUE

ChildNodes(nodes, id) == {n \in nodes : n.parent = id}

\* Mutant: a move that was tried already is never found again.
NeverFound(nodes, id, move) == {}

FindChild(nodes, id, move) == {n \in nodes : n.parent = id /\ n.move = move}

\* The path from the base branch down to id, following the parent fields.
Lineage(nodes, id) ==
    LET climb[k \in 0 .. Cardinality(nodes)] ==
            IF k = 0
            THEN <<>>
            ELSE LET below == climb[k - 1]
                     next  == IF below = <<>> THEN id ELSE Head(below).parent
                 IN  IF FindNode(nodes, next) = {} THEN below
                     ELSE <<The(FindNode(nodes, next))>> \o below
    IN  climb[Cardinality(nodes)]

\* lineage raises unless the path exists, ends at a base branch without
\* meeting a cycle or a missing parent, and counts its halfmoves from 1.
LineageRaises(nodes, id) ==
    LET path == Lineage(nodes, id)
    IN  /\ id # Root
        /\ \/ path = <<>>
           \/ Head(path).parent # Root
           \/ \E i \in DOMAIN path : path[i].ply # i

MovesToBranch(nodes, id) ==
    LET path == Lineage(nodes, id) IN [i \in DOMAIN path |-> path[i].move]

\* One more than the last component of the largest sibling.
NextBranchId(nodes, parent) ==
    LET taken == {n.id[Len(n.id)] : n \in ChildNodes(nodes, parent)}
        last  == IF taken = {} THEN 0 ELSE CHOOSE i \in taken : \A j \in taken : j <= i
    IN  Append(parent, last + 1)

\* Mutant: any tested reply verifies every base branch.
AnyReplyTested(nodes, id) == \E n \in nodes : n.parent # Root \/ n.terminal

\* A base branch is verified by a reply, or by having ended the game.
BaseVerificationDone(nodes, id) ==
    \/ The(FindNode(nodes, id)).terminal
    \/ ChildNodes(nodes, id) # {}

\* preorder raises when some node cannot be reached from the canonical board.
PreorderRaises(nodes) ==
    \E n \in nodes : LET path == Lineage(nodes, n.id)
                     IN  path = <<>> \/ Head(path).parent # Root
=============================================================================
