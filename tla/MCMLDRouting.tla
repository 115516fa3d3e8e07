---------------------------- MODULE MCMLDRouting ----------------------------
(***************************************************************************)
(* Instances of MLDRouting for TLC: six nodes in a row, on two levels.     *)
(***************************************************************************)
EXTENDS MLDRouting

Crossing(u, v, p) == [from |-> u, to |-> v, penalty |-> p]

TwoWay(u, v) == {Crossing(u, v, 0), Crossing(v, u, 0)}

\* One way, both ways, and both ways with a penalty on one of them.
Roads(u, v) == {{Crossing(u, v, 0)}, TwoWay(u, v), {Crossing(u, v, 1), Crossing(v, u, 0)}}

\* Nodes of one or of two weights; some rows have a bridge past a node.
MCNetworks ==
    UNION {{[weights |-> [n \in Nodes |-> IF n % 2 = 1 THEN w ELSE 1],
             turns   |-> TwoWay(1, 2) \cup a \cup b \cup c \cup TwoWay(5, 6)] : w \in 1 .. 2} :
             a \in Roads(2, 3), b \in Roads(3, 4) \cup {TwoWay(3, 6)}, c \in Roads(4, 5) \cup {TwoWay(2, 4)}}

\* Rows of weight 1 in which a bonus makes turns free, with a bridge past them, after a first
\* road.
BonusRows(first) ==
    {[weights |-> [n \in Nodes |-> 1],
      turns   |-> first \cup {Crossing(2, 3, p), Crossing(3, 4, -1), Crossing(4, 5, p)} \cup b \cup TwoWay(5, 6)] :
        p \in {-1, 0}, b \in {{Crossing(2, 5, 0)}, {Crossing(2, 4, -1), Crossing(4, 2, -1)}}}

MCBonusNetworks == BonusRows(TwoWay(1, 2))

\* Two ways from 6 to 4.  The turns between 4 and 5 weigh the same in both directions, one
\* with a penalty, the other without.
MCMergedNetworks ==
    {[weights |-> <<1, 1, 4, 1, w, 1>>,
      turns   |-> TwoWay(1, 2) \cup {Crossing(2, 3, 0), Crossing(6, 3, 0), Crossing(3, 4, 0)}
                  \cup {Crossing(4, 5, w - 1), Crossing(5, 4, 0)} \cup TwoWay(5, 6)] : w \in 2 .. 4}

MCAllNetworks ==
    MCNetworks \cup MCMergedNetworks \cup MCBonusNetworks \cup BonusRows({Crossing(1, 2, -1), Crossing(2, 1, 1)})

\* Cells of one and of two nodes, under cells of up to four.
MCPartitions == {<< <<1, 2, 2, 3, 3, 4>>, <<1, 2, 2, 2, 2, 3>> >>, << <<1, 1, 2, 2, 3, 3>>, <<1, 1, 1, 1, 2, 2>> >>}

MCNodeFilters == {<<Nodes, Nodes \ {3}>>}

MCPhantoms == {1 :> 0, 4 :> 0, 6 :> 0, 1 :> 1, 2 :> 0 @@ 5 :> 1}
=============================================================================
