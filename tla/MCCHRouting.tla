---------------------------- MODULE MCCHRouting ----------------------------
(***************************************************************************)
(* Instances of CHRouting for TLC.                                         *)
(***************************************************************************)
EXTENDS ContractionInv

\* Two classes of nodes that hash alike, so that ties are broken by hash and by number.
MCHash == [n \in Nodes |-> n % 2]

\* Simulated contractions give up earlier than real ones, and before they have seen all
\* nodes.
MCSearchSpace == [full |-> 4, simulation |-> 2]

\* Floats with six significant bits that are multiples of 1/512.
MCSignificand == 2^6
MCScales == {2^i : i \in 0 .. 9}

Arc(u, v, w) == [from |-> u, to |-> v, weight |-> w]

\* No street, a one-way street of weight 0, two-way streets of equal and of unequal weights.
Streets(u, v) ==
    {{}, {Arc(u, v, 0)}, {Arc(u, v, 1), Arc(v, u, 1)}, {Arc(u, v, 2), Arc(v, u, 1)}}

\* Rings and paths of four nodes, and triangles with a fourth node attached.
MCInputs ==
    UNION {{a \cup b \cup c \cup d : d \in Streets(4, 1) \cup {{Arc(1, 3, 1), Arc(3, 1, 1)}}} :
             a \in Streets(1, 2), b \in Streets(2, 3), c \in Streets(3, 4)}

MCFilters == {<<Nodes>>, <<Nodes \ {4}, Nodes>>}

\* One-way streets only.
MCBounds == {[n \in Nodes |-> INVALID_EDGE_WEIGHT]}

\* Points on one node, at its start and further along it, and on two nodes.
MCPhantoms == {n :> 0 : n \in Nodes} \cup {1 :> 2, 4 :> 1, 1 :> 0 @@ 3 :> 1}

MCSymmetry == Permutations(Threads)

-----------------------------------------------------------------------------
\* Node 1 with two ways out and back.
LoopInputs ==
    {{Arc(1, 2, w), Arc(2, 1, 2), Arc(1, 3, w), Arc(3, 1, 2)} : w \in 1 .. 2}

LoopFilters == {<<Nodes>>}

LoopPhantoms == UNION {[{n} -> {0, 1}] : n \in Nodes}

\* Two ways from one node to another, the shorter one past the node that is excluded.
DetourInputs ==
    {{Arc(u, v, 2), Arc(v, w, 2), Arc(u, 4, 1), Arc(4, w, 1)} :
        <<u, v, w>> \in {<<1, 2, 3>>, <<2, 1, 3>>, <<1, 3, 2>>}}

DetourFilters == {<<Nodes \ {4}, Nodes>>}
=============================================================================
